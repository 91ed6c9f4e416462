--------------------------- MODULE EventStoreProofs ---------------------------
(***************************************************************************)
(* What is proved of EventStore for any number of emitters and readers,    *)
(* any ring and queue size: its type invariant, that the ring is the       *)
(* newest part of what was emitted, that nothing an open reader is owed    *)
(* gets lost between replay and fan-out, that a reader sees what one       *)
(* thread emits in order and only once, and that it implements EventFeed.  *)
(***************************************************************************)
EXTENDS EventStore, SequenceTheorems, FiniteSetTheorems, TLAPS

(* Ids stay ids when the counter has moved on. *)
LEMMA IdsGrow ==
  ASSUME NEW n \in Nat, NEW m \in Nat, n <= m
  PROVE  /\ 1 .. n \subseteq 1 .. m
         /\ \A s \in Seq(1 .. n) : s \in Seq(1 .. m)
<1>1. 1 .. n \subseteq 1 .. m
  OBVIOUS
<1> QED BY <1>1, SeqMonotonic

(* The deque drops its oldest event to make room for the new one. *)
LEMMA PushProperties ==
  ASSUME NEW S, _events \in Seq(S), Len(_events) <= maxlen, NEW e \in S
  PROVE  /\ Push(e) \in Seq(S)
         /\ Len(Push(e)) = IF Len(_events) = maxlen THEN maxlen ELSE Len(_events) + 1
         /\ Push(e)[Len(Push(e))] = e
         /\ \A k \in 1 .. Len(Push(e)) - 1 :
              Push(e)[k] = _events[IF Len(_events) = maxlen THEN k + 1 ELSE k]
<1>1. CASE Len(_events) = maxlen
  <2>1. /\ Tail(_events) \in Seq(S) /\ Len(Tail(_events)) = maxlen - 1
        /\ \A k \in 1 .. Len(Tail(_events)) : Tail(_events)[k] = _events[k + 1]
    BY <1>1, StoreAssumption, HeadTailProperties, EmptySeq
  <2>2. Push(e) = Append(Tail(_events), e)
    BY <1>1 DEF Push
  <2> QED BY <1>1, <2>1, <2>2, StoreAssumption, AppendProperties
<1>2. CASE Len(_events) # maxlen
  <2>1. Push(e) = Append(_events, e)
    BY <1>2 DEF Push
  <2> QED BY <1>2, <2>1, AppendProperties, LenProperties
<1> QED BY <1>1, <1>2

(* What the replay puts into a new reader's queue. *)
LEMMA ReplayProperties ==
  ASSUME NEW S, _events \in Seq(S)
  PROVE  /\ Replay \in Seq(S)
         /\ Len(Replay) = IF Len(_events) <= queue_maxsize THEN Len(_events) ELSE queue_maxsize
         /\ \A k \in 1 .. Len(Replay) : Replay[k] = _events[k]
<1>1. CASE Len(_events) <= queue_maxsize
  BY <1>1 DEF Replay
<1>2. CASE ~(Len(_events) <= queue_maxsize)
  <2>1. Replay = SubSeq(_events, 1, queue_maxsize)
    BY <1>2 DEF Replay
  <2>2. Len(_events) \in Nat /\ queue_maxsize \in Nat /\ queue_maxsize < Len(_events)
    BY <1>2, StoreAssumption, LenProperties
  <2>3. \A k \in 1 .. queue_maxsize : _events[k] \in S
    BY <2>2, ElementOfSeq
  <2> QED BY <1>2, <2>1, <2>2, <2>3, SubSeqProperties
<1> QED BY <1>1, <1>2

(* An emitter inside emit() has an id, and the ring holds no more than was *)
(* appended: needed for the types of what is appended, offered and         *)
(* replayed.                                                               *)
Typed ==
  /\ TypeOK
  /\ \A t \in Emitter : pc[t] # "idle" => event[t] \in 1 .. _counter
  /\ Len(_events) <= Len(appended)

LEMMA InitType == Init => Typed
<1> SUFFICES ASSUME Init PROVE Typed
  OBVIOUS
<1>1. <<>> \in Seq(1 .. _counter) /\ <<>> \in Seq(Emitter) /\ Len(<<>>) = 0
  BY EmptySeq
<1> QED BY <1>1, StoreAssumption DEF Init, TypeOK, Typed

(* Every action keeps the types. *)
LEMMA NextType == Typed /\ [Next]_vars => Typed'
<1> SUFFICES ASSUME Typed, [Next]_vars PROVE Typed'
  OBVIOUS
<1> USE StoreAssumption
<1>0. /\ TypeOK /\ Len(_events) <= Len(appended)
      /\ \A t \in Emitter : pc[t] # "idle" => event[t] \in 1 .. _counter
  BY DEF Typed
<1>1. ASSUME NEW t \in Emitter, TakeId(t) PROVE Typed'
  <2>1. _counter \in Nat /\ _counter' = _counter + 1 /\ _counter' \in 0 .. MaxEvents
    BY <1>0, <1>1 DEF TakeId, TypeOK
  <2>2. /\ 1 .. _counter \subseteq 1 .. _counter'
        /\ \A s \in Seq(1 .. _counter) : s \in Seq(1 .. _counter')
    BY <2>1, IdsGrow
  <2>3. by' \in Seq(Emitter) /\ Len(by') = _counter'
    BY <1>0, <1>1, <2>1, AppendProperties DEF TakeId, TypeOK
  <2>4. event' \in [Emitter -> 0 .. _counter']
    BY <1>0, <1>1, <2>1 DEF TakeId, TypeOK
  <2>5. /\ pc' \in [Emitter -> {"idle", "append", "fanout"}]
        /\ \A u \in Emitter : pc'[u] # "idle" => event'[u] \in 1 .. _counter'
    BY <1>0, <1>1, <2>1 DEF TakeId, TypeOK
  <2>6. UNCHANGED <<subs, _events, appended, _subscribers, status, since, _q, received, dropped>>
    BY <1>1 DEF TakeId, ringVars, readerVars, queueVars
  <2>7. /\ _q \in [Reader -> Seq(1 .. _counter')]
        /\ received \in [Reader -> Seq(1 .. _counter')]
        /\ dropped \in [Reader -> SUBSET (1 .. _counter')]
    BY <1>0, <2>2 DEF TypeOK
  <2> QED BY <1>0, <2>1, <2>2, <2>3, <2>4, <2>5, <2>6, <2>7 DEF TypeOK, Typed
<1>2. ASSUME NEW t \in Emitter, AppendEvent(t) PROVE Typed'
  <2>0. event[t] \in 1 .. _counter
    BY <1>0, <1>2 DEF AppendEvent
  <2>1. _events' \in Seq(1 .. _counter) /\ Len(_events') <= maxlen /\ Len(_events') <= Len(_events) + 1
    <3>1. _events \in Seq(1 .. _counter) /\ Len(_events) <= maxlen /\ Len(_events) \in Nat
      BY <1>0, LenProperties DEF TypeOK
    <3>2. /\ Push(event[t]) \in Seq(1 .. _counter)
          /\ Len(Push(event[t])) = IF Len(_events) = maxlen THEN maxlen ELSE Len(_events) + 1
      BY <2>0, <3>1, PushProperties
    <3> QED BY <1>2, <3>1, <3>2 DEF AppendEvent
  <2>2. appended' \in Seq(1 .. _counter) /\ Len(appended') = Len(appended) + 1
    BY <1>0, <1>2, <2>0, AppendProperties DEF AppendEvent, TypeOK
  <2>3. Len(_events') <= Len(appended')
    <3>1. Len(_events) \in Nat /\ Len(appended) \in Nat /\ Len(_events') \in Nat
      BY <1>0, <2>1, LenProperties DEF TypeOK
    <3> QED BY <1>0, <2>1, <2>2, <3>1
  <2> QED BY <1>0, <1>2, <2>1, <2>2, <2>3 DEF AppendEvent, TypeOK, Typed, readerVars, queueVars
<1>3. ASSUME NEW t \in Emitter, NEW r \in Reader, Offer(t, r) PROVE Typed'
  <2>0. event[t] \in 1 .. _counter /\ _q[r] \in Seq(1 .. _counter)
    BY <1>0, <1>3 DEF Offer, TypeOK
  <2>1. subs' \in [Emitter -> SUBSET Reader]
    BY <1>0, <1>3 DEF Offer, Remaining, TypeOK
  <2>2. CASE HasRoom(r)
    <3>1. /\ Append(_q[r], event[t]) \in Seq(1 .. _counter)
          /\ Len(Append(_q[r], event[t])) <= queue_maxsize
      BY <2>0, <2>2, AppendProperties, LenProperties DEF HasRoom
    <3>2. _q' = [_q EXCEPT ![r] = Append(_q[r], event[t])] /\ UNCHANGED dropped
      BY <1>3, <2>2 DEF Offer
    <3> QED BY <1>0, <1>3, <2>1, <3>1, <3>2 DEF Offer, TypeOK, Typed, ringVars, readerVars
  <2>3. CASE ~HasRoom(r)
    <3>1. dropped' = [dropped EXCEPT ![r] = dropped[r] \cup {event[t]}] /\ UNCHANGED _q
      BY <1>3, <2>3 DEF Offer
    <3>2. dropped' \in [Reader -> SUBSET (1 .. _counter)]
      BY <1>0, <2>0, <3>1 DEF TypeOK
    <3> QED BY <1>0, <1>3, <2>1, <3>1, <3>2 DEF Offer, TypeOK, Typed, ringVars, readerVars
  <2> QED BY <2>2, <2>3
<1>4. ASSUME NEW t \in Emitter, Return(t) PROVE Typed'
  BY <1>0, <1>4 DEF Return, TypeOK, Typed, ringVars, readerVars, queueVars
<1>5. ASSUME NEW r \in Reader, Subscribe(r) PROVE Typed'
  <2>1. _events \in Seq(1 .. _counter) /\ Len(_events) \in Nat /\ Len(appended) \in Nat
    BY <1>0, LenProperties DEF TypeOK
  <2>2. Replay \in Seq(1 .. _counter) /\ Len(Replay) <= queue_maxsize
    BY <2>1, ReplayProperties
  <2>3. { _events[k] : k \in queue_maxsize + 1 .. Len(_events) } \subseteq 1 .. _counter
    <3> SUFFICES ASSUME NEW k \in queue_maxsize + 1 .. Len(_events) PROVE _events[k] \in 1 .. _counter
      OBVIOUS
    <3>1. k \in 1 .. Len(_events)
      BY <2>1
    <3> QED BY <2>1, <3>1, ElementOfSeq
  <2>4. _q' \in [Reader -> Seq(1 .. _counter)] /\ \A q \in Reader : Len(_q'[q]) <= queue_maxsize
    BY <1>0, <1>5, <2>2 DEF Subscribe, TypeOK
  <2>5. dropped' \in [Reader -> SUBSET (1 .. _counter)]
    BY <1>0, <1>5, <2>3 DEF Subscribe, TypeOK
  <2>6. since' \in [Reader -> Nat]
    BY <1>0, <1>5, <2>1 DEF Subscribe, TypeOK
  <2> QED BY <1>0, <1>5, <2>4, <2>5, <2>6 DEF Subscribe, Register, TypeOK, Typed, ringVars
<1>6. ASSUME NEW r \in Reader, Get(r) PROVE Typed'
  <2>1. _q[r] \in Seq(1 .. _counter) /\ received[r] \in Seq(1 .. _counter) /\ _q[r] # <<>>
        /\ Len(_q[r]) \in Nat /\ Len(_q[r]) <= queue_maxsize
    BY <1>0, <1>6, LenProperties DEF Get, TypeOK
  <2>2. /\ Tail(_q[r]) \in Seq(1 .. _counter) /\ Len(Tail(_q[r])) <= queue_maxsize
        /\ Append(received[r], Head(_q[r])) \in Seq(1 .. _counter)
    <3>1. /\ Head(_q[r]) \in 1 .. _counter /\ Tail(_q[r]) \in Seq(1 .. _counter)
          /\ Len(Tail(_q[r])) = Len(_q[r]) - 1
      BY <2>1, HeadTailProperties
    <3>2. Append(received[r], Head(_q[r])) \in Seq(1 .. _counter)
      BY <2>1, <3>1, AppendProperties
    <3> QED BY <2>1, <3>1, <3>2
  <2>3. _q' \in [Reader -> Seq(1 .. _counter)] /\ \A q \in Reader : Len(_q'[q]) <= queue_maxsize
    BY <1>0, <1>6, <2>2 DEF Get, TypeOK
  <2>4. received' \in [Reader -> Seq(1 .. _counter)]
    BY <1>0, <1>6, <2>2 DEF Get, TypeOK
  <2> QED BY <1>0, <1>6, <2>3, <2>4 DEF Get, TypeOK, Typed, emitVars, ringVars, readerVars
<1>7. ASSUME NEW r \in Reader, Close(r) PROVE Typed'
  BY <1>0, <1>7 DEF Close, TypeOK, Typed, emitVars, ringVars, queueVars
<1>8. CASE UNCHANGED vars
  BY <1>0, <1>8 DEF TypeOK, Typed, vars, emitVars, ringVars, readerVars, queueVars
<1> QED BY <1>1, <1>2, <1>3, <1>4, <1>5, <1>6, <1>7, <1>8 DEF Next, Emit

LEMMA AlwaysTyped == Spec => []Typed
<1>1. Typed /\ [Next]_vars => Typed'
  BY NextType
<1> QED BY InitType, <1>1, PTL DEF Spec

(* Type correctness of the store, for every size of the ring and queues. *)
THEOREM StoreTypeCorrect == Spec => []TypeOK
<1>1. Typed => TypeOK
  BY DEF Typed
<1> QED BY <1>1, AlwaysTyped, PTL

------------------------------------------------------------------------------
(* The ring *)

(* Each place of the ring, and not only what recent() returns. *)
RingIsTail ==
  /\ Len(_events) = IF Len(appended) < maxlen THEN Len(appended) ELSE maxlen
  /\ \A k \in 1 .. Len(_events) : _events[k] = appended[Len(appended) - Len(_events) + k]

(* Appending keeps the ring the tail, whether or not it has wrapped. *)
LEMMA PushKeepsTail ==
  ASSUME Typed, RingIsTail, NEW t \in Emitter, AppendEvent(t)
  PROVE  RingIsTail'
<1> USE StoreAssumption
<1>1. /\ _events \in Seq(1 .. _counter) /\ Len(_events) <= maxlen /\ event[t] \in 1 .. _counter
      /\ appended \in Seq(1 .. _counter)
      /\ Len(_events) \in Nat /\ Len(appended) \in Nat /\ Len(_events) <= Len(appended)
  BY LenProperties DEF Typed, TypeOK, AppendEvent
<1>2. /\ appended' = Append(appended, event[t])
      /\ _events' = Push(event[t])
  BY DEF AppendEvent
<1>3. /\ Len(appended') = Len(appended) + 1 /\ appended'[Len(appended) + 1] = event[t]
      /\ \A k \in 1 .. Len(appended) : appended'[k] = appended[k]
  BY <1>1, <1>2, AppendProperties
<1>4. /\ Len(_events') = IF Len(_events) = maxlen THEN maxlen ELSE Len(_events) + 1
      /\ _events'[Len(_events')] = event[t]
      /\ \A k \in 1 .. Len(_events') - 1 :
           _events'[k] = _events[IF Len(_events) = maxlen THEN k + 1 ELSE k]
  BY <1>1, <1>2, PushProperties
<1>5. Len(_events') = IF Len(appended') < maxlen THEN Len(appended') ELSE maxlen
  BY <1>1, <1>3, <1>4 DEF RingIsTail
<1>6. ASSUME NEW k \in 1 .. Len(_events')
      PROVE  _events'[k] = appended'[Len(appended') - Len(_events') + k]
  <2>1. CASE k = Len(_events')
    BY <1>1, <1>3, <1>4, <2>1
  <2>2. CASE k # Len(_events') /\ Len(_events) = maxlen
    <3>1. k + 1 \in 1 .. Len(_events) /\ _events'[k] = _events[k + 1]
      BY <1>1, <1>4, <2>2
    <3>2. _events[k + 1] = appended[Len(appended) - Len(_events) + (k + 1)]
      BY <3>1 DEF RingIsTail
    <3>3. /\ Len(appended) - Len(_events) + (k + 1) \in 1 .. Len(appended)
          /\ Len(appended') - Len(_events') + k = Len(appended) - Len(_events) + (k + 1)
      BY <1>1, <1>3, <1>4, <2>2, <3>1
    <3> QED BY <1>3, <3>1, <3>2, <3>3
  <2>3. CASE k # Len(_events') /\ Len(_events) # maxlen
    <3>1. k \in 1 .. Len(_events) /\ _events'[k] = _events[k]
      BY <1>1, <1>4, <2>3
    <3>2. _events[k] = appended[Len(appended) - Len(_events) + k]
      BY <3>1 DEF RingIsTail
    <3>3. Len(_events') = Len(_events) + 1
      BY <1>4, <2>3
    <3>4. Len(appended') - Len(_events') + k = Len(appended) - Len(_events) + k
      BY <1>1, <1>3, <3>1, <3>3
    <3>5. Len(appended) - Len(_events) + k \in 1 .. Len(appended)
      BY <1>1, <3>1
    <3> QED BY <1>3, <3>1, <3>2, <3>4, <3>5
  <2> QED BY <2>1, <2>2, <2>3
<1> QED BY <1>5, <1>6 DEF RingIsTail

LEMMA RingStep == Typed /\ RingIsTail /\ [Next]_vars => RingIsTail'
<1> SUFFICES ASSUME Typed, RingIsTail, [Next]_vars PROVE RingIsTail'
  OBVIOUS
<1>1. ASSUME NEW t \in Emitter, AppendEvent(t) PROVE RingIsTail'
  BY <1>1, PushKeepsTail
<1>2. CASE UNCHANGED ringVars
  BY <1>2 DEF ringVars, RingIsTail
<1>3. (\E t \in Emitter : AppendEvent(t)) \/ UNCHANGED ringVars
  BY DEF Next, Emit, TakeId, Offer, Return, Subscribe, Get, Close, vars
<1> QED BY <1>1, <1>2, <1>3

LEMMA AlwaysTail == Spec => []RingIsTail
<1>1. Init => RingIsTail
  <2>1. Len(<<>>) = 0
    BY EmptySeq
  <2> QED BY <2>1, StoreAssumption DEF Init, RingIsTail
<1>2. Typed /\ RingIsTail /\ [Next]_vars => RingIsTail'
  BY RingStep
<1> QED BY <1>1, <1>2, AlwaysTyped, PTL DEF Spec

(* recent() of a ring that is the tail is the tail of the length asked for. *)
LEMMA RecentWindow ==
  ASSUME Typed, RingIsTail, NEW limit \in 0 .. maxlen + 1,
         NEW k \in DOMAIN recent(limit)
  PROVE  recent(limit)[k] = appended[Len(appended) - Len(recent(limit)) + k]
<1> USE StoreAssumption
<1>1. _events \in Seq(1 .. _counter) /\ Len(_events) \in Nat /\ Len(appended) \in Nat
      /\ DOMAIN _events = 1 .. Len(_events)
  BY LenProperties DEF Typed, TypeOK
<1>2. CASE limit = 0
  <2>1. Len(_events) = 0 => _events = <<>>
    BY <1>1, EmptySeq
  <2>2. recent(limit) = <<>>
    BY <1>1, <1>2, <2>1 DEF recent
  <2> QED BY <2>2
<1>3. CASE limit > 0 /\ limit >= Len(_events)
  <2>1. recent(limit) = _events
    BY <1>1, <1>3 DEF recent
  <2> QED BY <1>1, <2>1 DEF RingIsTail
<1>4. CASE limit > 0 /\ limit < Len(_events)
  <2> DEFINE first == Len(_events) - limit + 1
  <2> HIDE DEF first
  <2>1. recent(limit) = SubSeq(_events, first, Len(_events))
    <3>1. ~(limit <= 0) /\ ~(limit >= Len(_events))
      BY <1>1, <1>4
    <3> QED BY <3>1, Zenon DEF recent, first
  <2>2. first \in Int /\ Len(_events) \in Int /\ first >= 1
    BY <1>1, <1>4 DEF first
  <2>3. \A i \in first .. Len(_events) : _events[i] \in 1 .. _counter
    <3> SUFFICES ASSUME NEW i \in first .. Len(_events) PROVE _events[i] \in 1 .. _counter
      OBVIOUS
    <3>1. i \in 1 .. Len(_events)
      BY <2>2
    <3> QED BY <1>1, <3>1, ElementOfSeq
  <2>4. /\ SubSeq(_events, first, Len(_events)) \in Seq(1 .. _counter)
        /\ Len(SubSeq(_events, first, Len(_events))) =
             IF first <= Len(_events) THEN Len(_events) - first + 1 ELSE 0
        /\ \A i \in 1 .. Len(_events) - first + 1 :
             SubSeq(_events, first, Len(_events))[i] = _events[first + i - 1]
    BY <2>2, <2>3, SubSeqProperties
  <2>5. /\ recent(limit) \in Seq(1 .. _counter) /\ Len(recent(limit)) = limit
        /\ \A i \in 1 .. limit : recent(limit)[i] = _events[Len(_events) - limit + i]
    BY <1>1, <1>4, <2>1, <2>4 DEF first
  <2>6. k \in 1 .. limit
    BY <2>5, LenProperties
  <2>7. /\ Len(_events) - limit + k \in 1 .. Len(_events)
        /\ Len(appended) - Len(_events) + (Len(_events) - limit + k) = Len(appended) - limit + k
    BY <1>1, <1>4, <2>6
  <2>8. _events[Len(_events) - limit + k] = appended[Len(appended) - Len(_events) + (Len(_events) - limit + k)]
    BY <2>7 DEF RingIsTail
  <2> QED BY <2>5, <2>6, <2>7, <2>8
<1> QED BY <1>1, <1>2, <1>3, <1>4

(* emit and recent: the ring holds the newest events there are, and          *)
(* recent() returns the newest of these, however often the ring wrapped.     *)
THEOREM RecentShowsLatest == Spec => []RecentIsLatest
<1>1. Typed /\ RingIsTail => RecentIsLatest
  <2> SUFFICES ASSUME Typed, RingIsTail PROVE RecentIsLatest
    OBVIOUS
  <2>1. \A limit \in 0 .. maxlen + 1 : \A k \in DOMAIN recent(limit) :
          recent(limit)[k] = appended[Len(appended) - Len(recent(limit)) + k]
    BY RecentWindow
  <2> QED BY <2>1 DEF RecentIsLatest, RingIsTail
<1> QED BY <1>1, AlwaysTyped, AlwaysTail, PTL

------------------------------------------------------------------------------
(* What is on its way *)

(* What an append adds to the elements of a sequence. *)
LEMMA ElementsAppend ==
  ASSUME NEW S, NEW s \in Seq(S), NEW e \in S
  PROVE  Elements(Append(s, e)) = Elements(s) \cup {e}
<1>1. /\ Len(s) \in Nat /\ DOMAIN s = 1 .. Len(s) /\ Append(s, e) \in Seq(S)
      /\ Len(Append(s, e)) = Len(s) + 1 /\ DOMAIN Append(s, e) = 1 .. Len(s) + 1
      /\ \A k \in 1 .. Len(s) : Append(s, e)[k] = s[k]
      /\ Append(s, e)[Len(s) + 1] = e
  <2>1. /\ Append(s, e) \in Seq(S) /\ Len(Append(s, e)) = Len(s) + 1
        /\ \A k \in 1 .. Len(s) : Append(s, e)[k] = s[k]
        /\ Append(s, e)[Len(s) + 1] = e
    BY AppendProperties
  <2> QED BY <2>1, LenProperties
<1>2. 1 .. Len(s) + 1 = (1 .. Len(s)) \cup {Len(s) + 1}
  BY <1>1
<1>3. Elements(Append(s, e)) = { Append(s, e)[k] : k \in (1 .. Len(s)) \cup {Len(s) + 1} }
  BY <1>1, <1>2 DEF Elements
<1>4. Elements(s) = { s[k] : k \in 1 .. Len(s) }
  BY <1>1 DEF Elements
<1> QED BY <1>1, <1>3, <1>4

LEMMA ElementsType ==
  ASSUME NEW S, NEW s \in Seq(S)
  PROVE  Elements(s) \subseteq S
BY LenProperties, ElementOfSeq DEF Elements

(* Every id that an emitter was given before is smaller than the one it is *)
(* emitting, and that one is in the log from the locked section on.        *)
InFlight ==
  \A t \in Emitter : pc[t] # "idle" =>
    /\ event[t] \in 1 .. _counter
    /\ by[event[t]] = t
    /\ \A id \in 1 .. _counter : by[id] = t => id <= event[t]
    /\ pc[t] = "append" <=> event[t] \notin Elements(appended)

(* The log has what one emitter emits in order and no event twice. *)
LogInOrder ==
  \A i, j \in DOMAIN appended :
    i < j /\ by[appended[i]] = by[appended[j]] => appended[i] < appended[j]

(* Handing out an id leaves the emitters of the earlier ones. *)
LEMMA IdsKeepEmitter ==
  ASSUME Typed, NEW t \in Emitter, TakeId(t)
  PROVE  /\ _counter \in Nat /\ _counter' = _counter + 1
         /\ \A id \in 1 .. _counter : by'[id] = by[id]
         /\ by'[_counter + 1] = t
<1>1. _counter \in Nat /\ _counter' = _counter + 1
  BY StoreAssumption DEF Typed, TypeOK, TakeId
<1>2. by \in Seq(Emitter) /\ Len(by) = _counter /\ by' = Append(by, t)
  BY DEF Typed, TypeOK, TakeId
<1> QED BY <1>1, <1>2, AppendProperties

(* Every action keeps the two. *)
LEMMA InFlightStep == Typed /\ InFlight /\ [Next]_vars => InFlight'
<1> SUFFICES ASSUME Typed, InFlight, [Next]_vars PROVE InFlight'
  OBVIOUS
<1>0. /\ _counter \in Nat /\ appended \in Seq(1 .. _counter)
      /\ pc \in [Emitter -> {"idle", "append", "fanout"}]
      /\ event \in [Emitter -> 0 .. _counter]
  BY DEF Typed, TypeOK
<1>1. ASSUME NEW t \in Emitter, TakeId(t) PROVE InFlight'
  <2> SUFFICES ASSUME NEW u \in Emitter, pc'[u] # "idle"
               PROVE  /\ event'[u] \in 1 .. _counter'
                      /\ by'[event'[u]] = u
                      /\ \A id \in 1 .. _counter' : by'[id] = u => id <= event'[u]
                      /\ pc'[u] = "append" <=> event'[u] \notin Elements(appended')
    BY DEF InFlight
  <2>1. /\ _counter' = _counter + 1 /\ by'[_counter + 1] = t
        /\ \A id \in 1 .. _counter : by'[id] = by[id]
    BY <1>1, IdsKeepEmitter
  <2>2. appended' = appended /\ Elements(appended) \subseteq 1 .. _counter
    BY <1>0, <1>1, ElementsType DEF TakeId, ringVars
  <2>3. CASE u = t
    <3>1. event'[u] = _counter + 1 /\ pc'[u] = "append"
      BY <1>0, <1>1, <2>3 DEF TakeId
    <3> QED BY <1>0, <2>1, <2>2, <2>3, <3>1 DEF Elements
  <2>4. CASE u # t
    <3>1. pc'[u] = pc[u] /\ event'[u] = event[u]
      BY <1>0, <1>1, <2>4 DEF TakeId
    <3>2. /\ event[u] \in 1 .. _counter /\ by[event[u]] = u
          /\ \A id \in 1 .. _counter : by[id] = u => id <= event[u]
          /\ pc[u] = "append" <=> event[u] \notin Elements(appended)
      BY <3>1 DEF InFlight
    <3>3. ASSUME NEW id \in 1 .. _counter', by'[id] = u PROVE id <= event[u]
      <4>1. id # _counter + 1
        BY <2>1, <2>4, <3>3
      <4>2. id \in 1 .. _counter
        BY <1>0, <2>1, <4>1
      <4> QED BY <2>1, <3>2, <3>3, <4>2
    <3>4. event[u] \in 1 .. _counter' /\ by'[event[u]] = u
      BY <1>0, <2>1, <3>2
    <3> QED BY <2>2, <3>1, <3>2, <3>3, <3>4 DEF Elements
  <2> QED BY <2>3, <2>4
<1>2. ASSUME NEW t \in Emitter, AppendEvent(t) PROVE InFlight'
  <2>1. /\ pc[t] = "append" /\ pc' = [pc EXCEPT ![t] = "fanout"]
        /\ UNCHANGED <<_counter, by, event>> /\ appended' = Append(appended, event[t])
    BY <1>2 DEF AppendEvent
  <2>2. event[t] \in 1 .. _counter /\ by[event[t]] = t
    BY <2>1 DEF InFlight
  <2>3. Elements(appended') = Elements(appended) \cup {event[t]}
    BY <1>0, <2>1, <2>2, ElementsAppend
  <2>4. \A u \in Emitter : pc'[u] # "idle" => pc[u] # "idle" /\ (pc'[u] = "append" <=> u # t /\ pc[u] = "append")
    BY <1>0, <2>1
  <2> QED BY <2>1, <2>2, <2>3, <2>4 DEF InFlight
<1>3. ASSUME NEW t \in Emitter, Return(t) PROVE InFlight'
  <2>1. UNCHANGED <<_counter, by, event, appended>> /\ pc' = [pc EXCEPT ![t] = "idle"]
    BY <1>3 DEF Return, ringVars
  <2>2. \A u \in Emitter : pc'[u] # "idle" => pc'[u] = pc[u]
    BY <1>0, <2>1
  <2> QED BY <2>1, <2>2 DEF InFlight, Elements
<1>4. CASE UNCHANGED <<_counter, by, event, appended, pc>>
  BY <1>4 DEF InFlight, Elements
<1>5. \/ \E t \in Emitter : TakeId(t) \/ AppendEvent(t) \/ Return(t)
      \/ UNCHANGED <<_counter, by, event, appended, pc>>
  BY DEF Next, Emit, Offer, Subscribe, Get, Close, vars, emitVars, ringVars
<1> QED BY <1>1, <1>2, <1>3, <1>4, <1>5

LEMMA LogStep == Typed /\ InFlight /\ LogInOrder /\ [Next]_vars => LogInOrder'
<1> SUFFICES ASSUME Typed, InFlight, LogInOrder, [Next]_vars PROVE LogInOrder'
  OBVIOUS
<1>0. /\ _counter \in Nat /\ appended \in Seq(1 .. _counter) /\ Len(appended) \in Nat
      /\ DOMAIN appended = 1 .. Len(appended)
      /\ \A k \in 1 .. Len(appended) : appended[k] \in 1 .. _counter
  BY LenProperties, ElementOfSeq DEF Typed, TypeOK
<1>1. ASSUME NEW t \in Emitter, TakeId(t) PROVE LogInOrder'
  <2>1. \A id \in 1 .. _counter : by'[id] = by[id]
    BY <1>1, IdsKeepEmitter
  <2>2. appended' = appended
    BY <1>1 DEF TakeId, ringVars
  <2> QED BY <1>0, <2>1, <2>2 DEF LogInOrder
<1>2. ASSUME NEW t \in Emitter, AppendEvent(t) PROVE LogInOrder'
  <2>1. by' = by /\ appended' = Append(appended, event[t])
    BY <1>2 DEF AppendEvent
  <2>2. /\ event[t] \in 1 .. _counter /\ by[event[t]] = t
        /\ \A id \in 1 .. _counter : by[id] = t => id <= event[t]
        /\ event[t] \notin Elements(appended)
    BY <1>2 DEF InFlight, AppendEvent
  <2>3. /\ Append(appended, event[t]) \in Seq(1 .. _counter)
        /\ Len(appended') = Len(appended) + 1 /\ appended'[Len(appended) + 1] = event[t]
        /\ \A k \in 1 .. Len(appended) : appended'[k] = appended[k]
    BY <1>0, <2>1, <2>2, AppendProperties
  <2>4. DOMAIN appended' = 1 .. Len(appended) + 1
    BY <2>1, <2>3, LenProperties
  <2> SUFFICES ASSUME NEW i \in DOMAIN appended', NEW j \in DOMAIN appended', i < j,
                      by[appended'[i]] = by[appended'[j]]
               PROVE  appended'[i] < appended'[j]
    BY <2>1 DEF LogInOrder
  <2>5. i \in 1 .. Len(appended) /\ appended'[i] = appended[i]
    BY <1>0, <2>3, <2>4
  <2>6. CASE j \in 1 .. Len(appended)
    BY <1>0, <2>3, <2>5, <2>6 DEF LogInOrder
  <2>7. CASE j = Len(appended) + 1
    <3>1. appended[i] \in 1 .. _counter /\ by[appended[i]] = t /\ appended'[j] = event[t]
      BY <1>0, <2>2, <2>3, <2>5, <2>7
    <3>2. appended[i] <= event[t]
      BY <2>2, <3>1
    <3>3. appended[i] # event[t]
      BY <1>0, <2>2, <2>5 DEF Elements
    <3> QED BY <1>0, <2>2, <2>5, <3>1, <3>2, <3>3
  <2> QED BY <1>0, <2>4, <2>6, <2>7
<1>3. CASE UNCHANGED <<by, appended>>
  BY <1>3 DEF LogInOrder
<1>4. \/ \E t \in Emitter : TakeId(t) \/ AppendEvent(t)
      \/ UNCHANGED <<by, appended>>
  BY DEF Next, Emit, Offer, Return, Subscribe, Get, Close, vars, emitVars, ringVars
<1> QED BY <1>1, <1>2, <1>3, <1>4

LEMMA AlwaysInFlight == Spec => [](InFlight /\ LogInOrder)
<1>1. Init => InFlight /\ LogInOrder
  <2>1. DOMAIN <<>> = {}
    OBVIOUS
  <2> QED BY <2>1 DEF Init, InFlight, LogInOrder
<1>2. Typed /\ InFlight /\ [Next]_vars => InFlight'
  BY InFlightStep
<1>3. Typed /\ InFlight /\ LogInOrder /\ [Next]_vars => LogInOrder'
  BY LogStep
<1> QED BY <1>1, <1>2, <1>3, AlwaysTyped, PTL DEF Spec

------------------------------------------------------------------------------
(* Replay, fan-out and readers *)

(* The readers an emitter still has to serve are registered or left after  *)
(* it had copied the list; none is new.                                    *)
Registered ==
  \A r \in Reader :
    /\ r \in _subscribers <=> status[r] = "open"
    /\ \A t \in Emitter : r \in subs[t] => pc[t] = "fanout" /\ status[r] # "new"
    /\ status[r] = "new" => received[r] = <<>>
    /\ since[r] <= Len(appended)

(* A reader sees what was appended, and of the emitter that is about to    *)
(* offer it an event only earlier ones.                                    *)
StreamBehind ==
  \A r \in Reader :
    /\ Elements(Stream(r)) \subseteq Elements(appended)
    /\ \A t \in Emitter : r \in subs[t] =>
         \A k \in DOMAIN Stream(r) : by[Stream(r)[k]] = t => Stream(r)[k] < event[t]

(* A queue that moves from its head to what was taken, or grows at its end. *)
LEMMA ConcatMoves ==
  ASSUME NEW S, NEW s \in Seq(S), NEW t \in Seq(S)
  PROVE  /\ t # <<>> => Append(s, Head(t)) \o Tail(t) = s \o t
         /\ \A e \in S : s \o Append(t, e) = Append(s \o t, e)
<1>1. Len(s) \in Nat /\ Len(t) \in Nat /\ s \o t \in Seq(S) /\ Len(s \o t) = Len(s) + Len(t)
      /\ \A i \in 1 .. Len(s) + Len(t) : (s \o t)[i] = IF i <= Len(s) THEN s[i] ELSE t[i - Len(s)]
  BY LenProperties, ConcatProperties
<1>2. ASSUME t # <<>> PROVE Append(s, Head(t)) \o Tail(t) = s \o t
  <2> DEFINE a == Append(s, Head(t))
  <2>1. /\ Head(t) \in S /\ Head(t) = t[1] /\ Tail(t) \in Seq(S) /\ Len(Tail(t)) = Len(t) - 1
        /\ \A i \in 1 .. Len(Tail(t)) : Tail(t)[i] = t[i + 1]
        /\ Len(t) > 0
    BY <1>2, HeadTailProperties, EmptySeq, LenProperties
  <2>2. a \in Seq(S) /\ Len(a) = Len(s) + 1 /\ a[Len(s) + 1] = t[1]
        /\ \A i \in 1 .. Len(s) : a[i] = s[i]
    BY <2>1, AppendProperties
  <2> HIDE DEF a
  <2>3. a \o Tail(t) \in Seq(S) /\ Len(a \o Tail(t)) = Len(s) + Len(t)
        /\ \A i \in 1 .. Len(s) + Len(t) :
             (a \o Tail(t))[i] = IF i <= Len(s) + 1 THEN a[i] ELSE Tail(t)[i - (Len(s) + 1)]
    <3>1. Len(a) + Len(Tail(t)) = Len(s) + Len(t)
      BY <1>1, <2>1, <2>2
    <3>2. /\ a \o Tail(t) \in Seq(S) /\ Len(a \o Tail(t)) = Len(a) + Len(Tail(t))
          /\ \A i \in 1 .. Len(a) + Len(Tail(t)) :
               (a \o Tail(t))[i] = IF i <= Len(a) THEN a[i] ELSE Tail(t)[i - Len(a)]
      BY <2>1, <2>2, ConcatProperties
    <3> QED BY <2>2, <3>1, <3>2
  <2>4. ASSUME NEW i \in 1 .. Len(s) + Len(t) PROVE (a \o Tail(t))[i] = (s \o t)[i]
    <3>1. CASE i <= Len(s)
      BY <1>1, <2>2, <2>3, <3>1
    <3>2. CASE i = Len(s) + 1
      BY <1>1, <2>2, <2>3, <3>2
    <3>3. CASE i > Len(s) + 1
      <4>1. PICK j \in 1 .. Len(Tail(t)) : j = i - (Len(s) + 1) /\ j + 1 = i - Len(s)
        <5>1. i - (Len(s) + 1) \in 1 .. Len(Tail(t)) /\ (i - (Len(s) + 1)) + 1 = i - Len(s)
          BY <1>1, <2>1, <3>3
        <5> QED BY <5>1
      <4>2. (a \o Tail(t))[i] = Tail(t)[j]
        BY <1>1, <2>3, <3>3, <4>1
      <4>3. (s \o t)[i] = t[j + 1]
        BY <1>1, <3>3, <4>1
      <4>4. Tail(t)[j] = t[j + 1]
        BY <2>1
      <4> QED BY <4>2, <4>3, <4>4
    <3>4. i <= Len(s) \/ i = Len(s) + 1 \/ i > Len(s) + 1
      BY <1>1
    <3> QED BY <3>1, <3>2, <3>3, <3>4
  <2>5. a \o Tail(t) = s \o t
    BY <1>1, <2>3, <2>4, SeqEqual
  <2> QED BY <2>5 DEF a
<1>3. ASSUME NEW e \in S PROVE s \o Append(t, e) = Append(s \o t, e)
  <2>1. <<e>> \in Seq(S) /\ Append(t, e) = t \o <<e>> /\ Append(s \o t, e) = (s \o t) \o <<e>>
    BY <1>1, AppendIsConcat
  <2> QED BY <1>1, <2>1, ConcatAssociative
<1> QED BY <1>2, <1>3

(* A stream is a sequence of ids. *)
LEMMA StreamType ==
  ASSUME Typed, NEW r \in Reader
  PROVE  /\ Stream(r) \in Seq(1 .. _counter) /\ Len(Stream(r)) \in Nat
         /\ DOMAIN Stream(r) = 1 .. Len(Stream(r))
         /\ \A k \in DOMAIN Stream(r) : Stream(r)[k] \in 1 .. _counter
<1>1. received[r] \in Seq(1 .. _counter) /\ _q[r] \in Seq(1 .. _counter)
  BY DEF Typed, TypeOK
<1>2. Stream(r) \in Seq(1 .. _counter)
  BY <1>1, ConcatProperties DEF Stream
<1> QED BY <1>2, LenProperties, ElementOfSeq

(* Taking an event from the queue is no change of the stream. *)
LEMMA GetKeepsStreams ==
  ASSUME Typed, NEW r \in Reader, Get(r), NEW q \in Reader
  PROVE  Stream(q)' = Stream(q)
<1>1. received[r] \in Seq(1 .. _counter) /\ _q[r] \in Seq(1 .. _counter) /\ _q[r] # <<>>
  BY DEF Typed, TypeOK, Get
<1>2. CASE q = r
  <2>1. received'[r] = Append(received[r], Head(_q[r])) /\ _q'[r] = Tail(_q[r])
    BY DEF Get, Typed, TypeOK
  <2>2. Append(received[r], Head(_q[r])) \o Tail(_q[r]) = received[r] \o _q[r]
    BY <1>1, ConcatMoves
  <2>3. Stream(r)' = received'[r] \o _q'[r] /\ Stream(r) = received[r] \o _q[r]
    BY DEF Stream
  <2>4. Stream(r)' = Stream(r)
    BY <2>1, <2>2, <2>3
  <2> QED BY <1>2, <2>4
<1>3. CASE q # r
  <2>1. received'[q] = received[q] /\ _q'[q] = _q[q]
    BY <1>3 DEF Get, Typed, TypeOK
  <2> QED BY <2>1 DEF Stream
<1> QED BY <1>2, <1>3

(* An offer adds its event to the stream it is made to, or to what that    *)
(* reader's queue refused, and touches no other reader.                    *)
LEMMA OfferEffect ==
  ASSUME Typed, NEW t \in Emitter, NEW r \in Reader, Offer(t, r)
  PROVE  /\ \/ Stream(r)' = Append(Stream(r), event[t]) /\ dropped'[r] = dropped[r]
            \/ Stream(r)' = Stream(r) /\ dropped'[r] = dropped[r] \cup {event[t]}
         /\ \A q \in Reader : q # r => Stream(q)' = Stream(q) /\ dropped'[q] = dropped[q]
<1>1. received[r] \in Seq(1 .. _counter) /\ _q[r] \in Seq(1 .. _counter) /\ event[t] \in 1 .. _counter
  BY DEF Typed, TypeOK, Offer
<1>2. CASE HasRoom(r)
  <2>1. /\ _q' = [_q EXCEPT ![r] = Append(_q[r], event[t])] /\ UNCHANGED <<dropped, received>>
    BY <1>2 DEF Offer
  <2>2. _q'[r] = Append(_q[r], event[t]) /\ \A q \in Reader : q # r => _q'[q] = _q[q]
    BY <2>1 DEF Typed, TypeOK
  <2>3. received[r] \o Append(_q[r], event[t]) = Append(received[r] \o _q[r], event[t])
    BY <1>1, ConcatMoves
  <2> QED BY <2>1, <2>2, <2>3 DEF Stream
<1>3. CASE ~HasRoom(r)
  <2>1. dropped' = [dropped EXCEPT ![r] = dropped[r] \cup {event[t]}] /\ UNCHANGED <<_q, received>>
    BY <1>3 DEF Offer
  <2>2. /\ dropped'[r] = dropped[r] \cup {event[t]}
        /\ \A q \in Reader : q # r => dropped'[q] = dropped[q]
    BY <2>1 DEF Typed, TypeOK
  <2> QED BY <2>1, <2>2 DEF Stream
<1> QED BY <1>2, <1>3

(* Every action keeps the registrations consistent. *)
LEMMA RegisteredStep == Typed /\ Registered /\ [Next]_vars => Registered'
<1> SUFFICES ASSUME Typed, Registered, [Next]_vars PROVE Registered'
  OBVIOUS
<1>0. /\ pc \in [Emitter -> {"idle", "append", "fanout"}] /\ subs \in [Emitter -> SUBSET Reader]
      /\ status \in [Reader -> {"new", "open", "closed"}] /\ since \in [Reader -> Nat]
      /\ received \in [Reader -> Seq(1 .. _counter)]
      /\ Len(_events) \in Nat /\ Len(appended) \in Nat /\ appended \in Seq(1 .. _counter)
  BY LenProperties DEF Typed, TypeOK
<1>1. ASSUME NEW t \in Emitter, TakeId(t) PROVE Registered'
  <2>1. /\ pc[t] = "idle" /\ \A u \in Emitter : u # t => pc'[u] = pc[u]
        /\ UNCHANGED <<subs, _subscribers, status, received, since, appended>>
    BY <1>0, <1>1 DEF TakeId, readerVars, ringVars, queueVars
  <2> QED BY <2>1 DEF Registered
<1>2. ASSUME NEW t \in Emitter, AppendEvent(t) PROVE Registered'
  <2>1. /\ pc'[t] = "fanout" /\ subs'[t] = _subscribers
        /\ \A u \in Emitter : u # t => pc'[u] = pc[u] /\ subs'[u] = subs[u]
        /\ UNCHANGED <<_subscribers, status, received, since>>
    BY <1>0, <1>2 DEF AppendEvent, readerVars, queueVars
  <2>2. Len(appended') = Len(appended) + 1
    <3>1. event[t] \in 1 .. _counter /\ appended' = Append(appended, event[t])
      BY <1>2 DEF AppendEvent, Typed
    <3> QED BY <1>0, <3>1, AppendProperties
  <2>3. \A r \in Reader : since[r] \in Nat
    BY <1>0
  <2> SUFFICES ASSUME NEW r \in Reader
               PROVE  /\ r \in _subscribers' <=> status'[r] = "open"
                      /\ \A u \in Emitter : r \in subs'[u] => pc'[u] = "fanout" /\ status'[r] # "new"
                      /\ status'[r] = "new" => received'[r] = <<>>
                      /\ since'[r] <= Len(appended')
    BY DEF Registered
  <2>4. \A u \in Emitter : r \in subs'[u] => pc'[u] = "fanout" /\ status'[r] # "new"
    BY <2>1 DEF Registered
  <2>5. since'[r] <= Len(appended')
    BY <1>0, <2>1, <2>2, <2>3 DEF Registered
  <2> QED BY <2>1, <2>4, <2>5 DEF Registered
<1>3. ASSUME NEW t \in Emitter, NEW r \in Reader, Offer(t, r) PROVE Registered'
  <2>1. /\ \A u \in Emitter : subs'[u] \subseteq subs[u]
        /\ UNCHANGED <<pc, _subscribers, status, received, since, appended>>
    BY <1>0, <1>3 DEF Offer, Remaining, readerVars, ringVars
  <2> QED BY <2>1 DEF Registered
<1>4. ASSUME NEW t \in Emitter, Return(t) PROVE Registered'
  <2>1. /\ subs[t] = {} /\ \A u \in Emitter : u # t => pc'[u] = pc[u]
        /\ UNCHANGED <<subs, _subscribers, status, received, since, appended>>
    BY <1>0, <1>4 DEF Return, readerVars, ringVars, queueVars
  <2> QED BY <2>1 DEF Registered
<1>5. ASSUME NEW r \in Reader, Subscribe(r) PROVE Registered'
  <2>1. /\ status[r] = "new" /\ status'[r] = "open" /\ \A q \in Reader : q # r => status'[q] = status[q]
        /\ _subscribers' = _subscribers \cup {r}
        /\ UNCHANGED <<pc, subs, received, appended>>
    BY <1>0, <1>5 DEF Subscribe, Register, ringVars
  <2>2. since'[r] <= Len(appended) /\ \A q \in Reader : q # r => since'[q] = since[q]
    BY <1>0, <1>5 DEF Subscribe
  <2> QED BY <2>1, <2>2 DEF Registered
<1>6. ASSUME NEW r \in Reader, Get(r) PROVE Registered'
  <2>1. /\ status[r] = "open" /\ \A q \in Reader : q # r => received'[q] = received[q]
        /\ UNCHANGED <<pc, subs, _subscribers, status, since, appended>>
    BY <1>0, <1>6 DEF Get, emitVars, readerVars, ringVars
  <2> QED BY <2>1 DEF Registered
<1>7. ASSUME NEW r \in Reader, Close(r) PROVE Registered'
  <2>1. /\ status'[r] = "closed" /\ \A q \in Reader : q # r => status'[q] = status[q]
        /\ _subscribers' = _subscribers \ {r} /\ status[r] = "open"
        /\ UNCHANGED <<pc, subs, received, since, appended>>
    BY <1>0, <1>7 DEF Close, emitVars, ringVars, queueVars
  <2> QED BY <2>1 DEF Registered
<1>8. CASE UNCHANGED vars
  BY <1>8 DEF Registered, vars, emitVars, ringVars, readerVars, queueVars
<1> QED BY <1>1, <1>2, <1>3, <1>4, <1>5, <1>6, <1>7, <1>8 DEF Next, Emit

(* What a new reader gets to see first: the ring, oldest event first. *)
LEMMA SubscribeEffect ==
  ASSUME Typed, RingIsTail, Registered, NEW r \in Reader, Subscribe(r)
  PROVE  /\ Stream(r)' = Replay
         /\ \A q \in Reader : q # r => Stream(q)' = Stream(q) /\ dropped'[q] = dropped[q]
         /\ DOMAIN Replay = 1 .. Len(Replay) /\ Len(Replay) <= Len(_events)
         /\ \A k \in 1 .. Len(_events) :
              /\ Len(appended) - Len(_events) + k \in DOMAIN appended
              /\ _events[k] = appended[Len(appended) - Len(_events) + k]
         /\ \A k \in DOMAIN Replay : Replay[k] = _events[k]
<1>1. /\ _events \in Seq(1 .. _counter) /\ Len(_events) \in Nat
      /\ appended \in Seq(1 .. _counter) /\ Len(appended) \in Nat /\ DOMAIN appended = 1 .. Len(appended)
      /\ Len(_events) <= Len(appended)
  BY LenProperties DEF Typed, TypeOK
<1>2. /\ Replay \in Seq(1 .. _counter)
      /\ Len(Replay) = IF Len(_events) <= queue_maxsize THEN Len(_events) ELSE queue_maxsize
      /\ \A k \in 1 .. Len(Replay) : Replay[k] = _events[k]
  BY <1>1, ReplayProperties
<1>3. DOMAIN Replay = 1 .. Len(Replay) /\ Len(Replay) <= Len(_events)
  BY <1>1, <1>2, LenProperties, StoreAssumption
<1>4. Stream(r)' = Replay
  <2>1. received'[r] = <<>> /\ _q'[r] = Replay
    BY DEF Subscribe, Registered, Typed, TypeOK
  <2> QED BY <1>2, <2>1, ConcatEmptySeq DEF Stream
<1>5. \A q \in Reader : q # r => Stream(q)' = Stream(q) /\ dropped'[q] = dropped[q]
  BY DEF Subscribe, Stream, Typed, TypeOK
<1>6. ASSUME NEW k \in 1 .. Len(_events)
      PROVE  /\ Len(appended) - Len(_events) + k \in DOMAIN appended
             /\ _events[k] = appended[Len(appended) - Len(_events) + k]
  BY <1>1 DEF RingIsTail
<1> QED BY <1>2, <1>3, <1>4, <1>5, <1>6

(* Every action keeps the readers behind the log and the offers. *)
LEMMA BehindStep ==
  Typed /\ RingIsTail /\ InFlight /\ Registered /\ StreamBehind /\ [Next]_vars => StreamBehind'
<1> SUFFICES ASSUME Typed, RingIsTail, InFlight, Registered, StreamBehind, [Next]_vars
             PROVE  StreamBehind'
  OBVIOUS
<1>0. /\ event \in [Emitter -> 0 .. _counter] /\ subs \in [Emitter -> SUBSET Reader]
      /\ appended \in Seq(1 .. _counter)
  BY DEF Typed, TypeOK
<1>1. ASSUME NEW t \in Emitter, TakeId(t) PROVE StreamBehind'
  <2>1. \A id \in 1 .. _counter : by'[id] = by[id]
    BY <1>1, IdsKeepEmitter
  <2>2. /\ \A u \in Emitter : u # t => event'[u] = event[u]
        /\ \A r \in Reader : r \notin subs[t]
        /\ UNCHANGED <<subs, appended, received, _q>>
    BY <1>0, <1>1 DEF TakeId, Registered, ringVars, queueVars
  <2>3. \A r \in Reader : Stream(r)' = Stream(r)
    BY <2>2 DEF Stream
  <2> SUFFICES ASSUME NEW r \in Reader
               PROVE  /\ Elements(Stream(r)) \subseteq Elements(appended)
                      /\ \A u \in Emitter : r \in subs[u] =>
                           \A k \in DOMAIN Stream(r) : by'[Stream(r)[k]] = u => Stream(r)[k] < event'[u]
    BY <2>2, <2>3 DEF StreamBehind
  <2> QED BY <2>1, <2>2, StreamType DEF StreamBehind
<1>2. ASSUME NEW t \in Emitter, AppendEvent(t) PROVE StreamBehind'
  <2>1. /\ \A u \in Emitter : u # t => subs'[u] = subs[u]
        /\ UNCHANGED <<by, event, received, _q, _counter>>
        /\ appended' = Append(appended, event[t])
    BY <1>0, <1>2 DEF AppendEvent, queueVars
  <2>0. \A r \in Reader : Stream(r)' = Stream(r)
    BY <2>1 DEF Stream
  <2>2. /\ event[t] \in 1 .. _counter /\ event[t] \notin Elements(appended)
        /\ \A id \in 1 .. _counter : by[id] = t => id <= event[t]
    BY <1>2 DEF InFlight, AppendEvent
  <2>3. Elements(appended') = Elements(appended) \cup {event[t]}
    <3> DEFINE Id == 1 .. _counter
    <3>0. appended \in Seq(Id) /\ event[t] \in Id
      BY <1>0, <2>2
    <3> HIDE DEF Id
    <3>1. Elements(Append(appended, event[t])) = Elements(appended) \cup {event[t]}
      BY <3>0, ElementsAppend
    <3> QED BY <2>1, <3>1
  <2> SUFFICES ASSUME NEW r \in Reader
               PROVE  /\ Elements(Stream(r)) \subseteq Elements(appended')
                      /\ \A u \in Emitter : r \in subs'[u] =>
                           \A k \in DOMAIN Stream(r) : by[Stream(r)[k]] = u => Stream(r)[k] < event[u]
    BY <2>0, <2>1 DEF StreamBehind
  <2>4. \A k \in DOMAIN Stream(r) : Stream(r)[k] \in 1 .. _counter /\ Stream(r)[k] # event[t]
    <3>1. Elements(Stream(r)) \subseteq Elements(appended)
      BY DEF StreamBehind
    <3> QED BY <2>2, <3>1, StreamType DEF Elements
  <2>5. \A k \in DOMAIN Stream(r) : by[Stream(r)[k]] = t => Stream(r)[k] < event[t]
    BY <2>2, <2>4
  <2> QED BY <2>1, <2>3, <2>5 DEF StreamBehind
<1>3. ASSUME NEW t \in Emitter, NEW r \in Reader, Offer(t, r) PROVE StreamBehind'
  <2>1. /\ \A u \in Emitter : subs'[u] \subseteq subs[u]
        /\ r \notin subs'[t] /\ r \in subs[t] /\ pc[t] = "fanout"
        /\ UNCHANGED <<by, event, appended>>
    BY <1>0, <1>3 DEF Offer, Remaining, ringVars
  <2> SUFFICES ASSUME NEW q \in Reader
               PROVE  /\ Elements(Stream(q)') \subseteq Elements(appended)
                      /\ \A u \in Emitter : q \in subs'[u] =>
                           \A k \in DOMAIN Stream(q)' : by[Stream(q)'[k]] = u => Stream(q)'[k] < event[u]
    BY <2>1 DEF StreamBehind
  <2>2. CASE Stream(q)' = Stream(q)
    BY <2>1, <2>2 DEF StreamBehind
  <2>3. CASE q = r /\ Stream(r)' = Append(Stream(r), event[t])
    <3>1. event[t] \in 1 .. _counter /\ by[event[t]] = t
      BY <2>1 DEF InFlight
    <3>2. /\ Stream(r) \in Seq(1 .. _counter) /\ Len(Stream(r)) \in Nat
          /\ DOMAIN Stream(r) = 1 .. Len(Stream(r))
      BY StreamType
    <3>3. Elements(Stream(r)') = Elements(Stream(r)) \cup {event[t]}
      <4> DEFINE Id == 1 .. _counter
      <4>0. Stream(r) \in Seq(Id) /\ event[t] \in Id
        BY <3>1, <3>2
      <4> HIDE DEF Id
      <4>1. Elements(Append(Stream(r), event[t])) = Elements(Stream(r)) \cup {event[t]}
        BY <4>0, ElementsAppend
      <4> QED BY <2>3, <4>1
    <3>4. /\ Len(Stream(r)') = Len(Stream(r)) + 1 /\ DOMAIN Stream(r)' = 1 .. Len(Stream(r)) + 1
          /\ \A k \in 1 .. Len(Stream(r)) : Stream(r)'[k] = Stream(r)[k]
          /\ Stream(r)'[Len(Stream(r)) + 1] = event[t]
      <4>1. /\ Append(Stream(r), event[t]) \in Seq(1 .. _counter)
            /\ Len(Append(Stream(r), event[t])) = Len(Stream(r)) + 1
            /\ \A k \in 1 .. Len(Stream(r)) : Append(Stream(r), event[t])[k] = Stream(r)[k]
            /\ Append(Stream(r), event[t])[Len(Stream(r)) + 1] = event[t]
        BY <3>1, <3>2, AppendProperties
      <4>2. DOMAIN Append(Stream(r), event[t]) = 1 .. Len(Stream(r)) + 1
        BY <4>1, LenProperties
      <4> QED BY <2>3, <4>1, <4>2
    <3>5. event[t] \in Elements(appended)
      BY <2>1 DEF InFlight
    <3>6. ASSUME NEW u \in Emitter, r \in subs'[u], NEW k \in DOMAIN Stream(r)',
                 by[Stream(r)'[k]] = u
          PROVE  Stream(r)'[k] < event[u]
      <4>1. u # t /\ r \in subs[u]
        BY <2>1, <3>6
      <4>2. k \in 1 .. Len(Stream(r)) /\ Stream(r)'[k] = Stream(r)[k]
        <5>1. k # Len(Stream(r)) + 1
          BY <3>1, <3>4, <3>6, <4>1
        <5> QED BY <3>2, <3>4, <5>1
      <4> QED BY <3>2, <3>6, <4>1, <4>2 DEF StreamBehind
    <3>7. Elements(Stream(r)) \subseteq Elements(appended)
      BY DEF StreamBehind
    <3> QED BY <2>3, <3>3, <3>5, <3>6, <3>7
  <2> QED BY <1>3, <2>2, <2>3, OfferEffect
<1>4. ASSUME NEW r \in Reader, Subscribe(r) PROVE StreamBehind'
  <2>1. UNCHANGED <<subs, by, event, appended>> /\ status[r] = "new"
    BY <1>4 DEF Subscribe, Register, ringVars
  <2> SUFFICES ASSUME NEW q \in Reader
               PROVE  /\ Elements(Stream(q)') \subseteq Elements(appended)
                      /\ \A u \in Emitter : q \in subs[u] =>
                           \A k \in DOMAIN Stream(q)' : by[Stream(q)'[k]] = u => Stream(q)'[k] < event[u]
    BY <2>1 DEF StreamBehind
  <2>2. CASE q = r
    <3>1. \A u \in Emitter : r \notin subs[u]
      BY <2>1 DEF Registered
    <3>2. \A k \in DOMAIN Replay : \E j \in DOMAIN appended : Replay[k] = appended[j]
      <4> SUFFICES ASSUME NEW k \in DOMAIN Replay PROVE \E j \in DOMAIN appended : Replay[k] = appended[j]
        OBVIOUS
      <4>0. _events \in Seq(1 .. _counter) /\ Len(_events) \in Nat
        BY LenProperties DEF Typed, TypeOK
      <4>1. k \in 1 .. Len(Replay) /\ Len(Replay) <= Len(_events) /\ Replay[k] = _events[k]
        BY <1>4, SubscribeEffect
      <4>2. Len(Replay) \in Nat
        BY <4>0, ReplayProperties, LenProperties
      <4>3. k \in 1 .. Len(_events)
        BY <4>0, <4>1, <4>2
      <4> QED BY <1>4, <4>1, <4>3, SubscribeEffect
    <3>3. Stream(r)' = Replay
      BY <1>4, SubscribeEffect
    <3> QED BY <2>2, <3>1, <3>2, <3>3 DEF Elements
  <2>3. CASE q # r
    <3>1. Stream(q)' = Stream(q)
      BY <1>4, <2>3, SubscribeEffect
    <3> QED BY <3>1 DEF StreamBehind
  <2> QED BY <2>2, <2>3
<1>5. ASSUME NEW r \in Reader, Get(r) PROVE StreamBehind'
  <2>1. \A q \in Reader : Stream(q)' = Stream(q)
    BY <1>5, GetKeepsStreams
  <2>2. UNCHANGED <<subs, by, event, appended>>
    BY <1>5 DEF Get, emitVars, ringVars
  <2> QED BY <2>1, <2>2 DEF StreamBehind
<1>6. CASE UNCHANGED <<subs, by, event, appended, received, _q>>
  <2>1. \A q \in Reader : Stream(q)' = Stream(q)
    BY <1>6 DEF Stream
  <2> QED BY <1>6, <2>1 DEF StreamBehind
<1>7. \/ \E t \in Emitter : TakeId(t) \/ AppendEvent(t) \/ \E r \in Reader : Offer(t, r)
      \/ \E r \in Reader : Subscribe(r) \/ Get(r)
      \/ UNCHANGED <<subs, by, event, appended, received, _q>>
  BY DEF Next, Emit, Return, Close, vars, emitVars, ringVars, queueVars
<1> QED BY <1>1, <1>2, <1>3, <1>4, <1>5, <1>6, <1>7

(* The order the readers see: InOrder, kept by what goes into a stream. *)
LEMMA InOrderStep ==
  Typed /\ RingIsTail /\ InFlight /\ LogInOrder /\ Registered /\ StreamBehind /\ InOrder /\ [Next]_vars
    => InOrder'
<1> SUFFICES ASSUME Typed, RingIsTail, InFlight, LogInOrder, Registered, StreamBehind, InOrder,
                    [Next]_vars
             PROVE  InOrder'
  OBVIOUS
<1>1. ASSUME NEW t \in Emitter, TakeId(t) PROVE InOrder'
  <2>1. \A id \in 1 .. _counter : by'[id] = by[id]
    BY <1>1, IdsKeepEmitter
  <2>2. \A r \in Reader : Stream(r)' = Stream(r)
    BY <1>1 DEF TakeId, queueVars, Stream
  <2> SUFFICES ASSUME NEW r \in Reader, NEW i \in DOMAIN Stream(r), NEW j \in DOMAIN Stream(r),
                      i < j, by'[Stream(r)[i]] = by'[Stream(r)[j]]
               PROVE  Stream(r)[i] < Stream(r)[j]
    BY <2>2 DEF InOrder
  <2>3. Stream(r)[i] \in 1 .. _counter /\ Stream(r)[j] \in 1 .. _counter
    BY StreamType
  <2> QED BY <2>1, <2>3 DEF InOrder
<1>2. ASSUME NEW t \in Emitter, NEW r \in Reader, Offer(t, r) PROVE InOrder'
  <2>1. r \in subs[t] /\ pc[t] = "fanout" /\ by' = by
    BY <1>2 DEF Offer
  <2>2. event[t] \in 1 .. _counter /\ by[event[t]] = t
    BY <2>1 DEF InFlight
  <2> SUFFICES ASSUME NEW q \in Reader
               PROVE  \A i, j \in DOMAIN Stream(q)' :
                        i < j /\ by[Stream(q)'[i]] = by[Stream(q)'[j]] => Stream(q)'[i] < Stream(q)'[j]
    BY <2>1 DEF InOrder
  <2>3. CASE Stream(q)' = Stream(q)
    BY <2>3 DEF InOrder
  <2>4. CASE q = r /\ Stream(r)' = Append(Stream(r), event[t])
    <3>1. /\ Stream(r) \in Seq(1 .. _counter) /\ Len(Stream(r)) \in Nat
          /\ DOMAIN Stream(r) = 1 .. Len(Stream(r))
      BY StreamType
    <3>2. /\ DOMAIN Stream(r)' = 1 .. Len(Stream(r)) + 1
          /\ \A k \in 1 .. Len(Stream(r)) : Stream(r)'[k] = Stream(r)[k]
          /\ Stream(r)'[Len(Stream(r)) + 1] = event[t]
      <4>1. /\ Append(Stream(r), event[t]) \in Seq(1 .. _counter)
            /\ Len(Append(Stream(r), event[t])) = Len(Stream(r)) + 1
            /\ \A k \in 1 .. Len(Stream(r)) : Append(Stream(r), event[t])[k] = Stream(r)[k]
            /\ Append(Stream(r), event[t])[Len(Stream(r)) + 1] = event[t]
        BY <2>2, <3>1, AppendProperties
      <4>2. DOMAIN Append(Stream(r), event[t]) = 1 .. Len(Stream(r)) + 1
        BY <4>1, LenProperties
      <4> QED BY <2>4, <4>1, <4>2
    <3> SUFFICES ASSUME NEW i \in DOMAIN Stream(r)', NEW j \in DOMAIN Stream(r)', i < j,
                        by[Stream(r)'[i]] = by[Stream(r)'[j]]
                 PROVE  Stream(r)'[i] < Stream(r)'[j]
      BY <2>4
    <3>3. i \in 1 .. Len(Stream(r)) /\ Stream(r)'[i] = Stream(r)[i]
      BY <3>1, <3>2
    <3>4. CASE j \in 1 .. Len(Stream(r))
      BY <3>1, <3>2, <3>3, <3>4 DEF InOrder
    <3>5. CASE j = Len(Stream(r)) + 1
      <4>1. by[Stream(r)[i]] = t /\ Stream(r)'[j] = event[t]
        BY <2>2, <3>2, <3>3, <3>5
      <4> QED BY <2>1, <3>1, <3>3, <4>1 DEF StreamBehind
    <3> QED BY <3>1, <3>2, <3>4, <3>5
  <2> QED BY <1>2, <2>3, <2>4, OfferEffect
<1>3. ASSUME NEW r \in Reader, Subscribe(r) PROVE InOrder'
  <2>0. /\ by' = by /\ _events \in Seq(1 .. _counter) /\ Len(_events) \in Nat /\ Len(appended) \in Nat
    BY <1>3, LenProperties DEF Subscribe, Typed, TypeOK
  <2> SUFFICES ASSUME NEW q \in Reader
               PROVE  \A i, j \in DOMAIN Stream(q)' :
                        i < j /\ by[Stream(q)'[i]] = by[Stream(q)'[j]] => Stream(q)'[i] < Stream(q)'[j]
    BY <2>0 DEF InOrder
  <2>1. CASE q # r
    <3>1. Stream(q)' = Stream(q)
      BY <1>3, <2>1, SubscribeEffect
    <3> QED BY <3>1 DEF InOrder
  <2>2. CASE q = r
    <3>1. /\ Stream(r)' = Replay /\ DOMAIN Replay = 1 .. Len(Replay) /\ Len(Replay) <= Len(_events)
          /\ \A k \in 1 .. Len(_events) :
               /\ Len(appended) - Len(_events) + k \in DOMAIN appended
               /\ _events[k] = appended[Len(appended) - Len(_events) + k]
          /\ \A k \in DOMAIN Replay : Replay[k] = _events[k]
      BY <1>3, SubscribeEffect
    <3>2. Len(Replay) \in Nat
      BY <2>0, ReplayProperties, LenProperties
    <3> SUFFICES ASSUME NEW i \in DOMAIN Replay, NEW j \in DOMAIN Replay, i < j,
                        by[Replay[i]] = by[Replay[j]]
                 PROVE  Replay[i] < Replay[j]
      BY <2>2, <3>1
    <3>3. i \in 1 .. Len(_events) /\ j \in 1 .. Len(_events)
      BY <2>0, <3>1, <3>2
    <3> DEFINE from == Len(appended) - Len(_events)
    <3>4. /\ from + i \in DOMAIN appended /\ Replay[i] = appended[from + i]
          /\ from + j \in DOMAIN appended /\ Replay[j] = appended[from + j]
      BY <3>1, <3>3
    <3>5. from + i < from + j
      BY <2>0, <3>3
    <3> HIDE DEF from
    <3> QED BY <3>4, <3>5 DEF LogInOrder
  <2> QED BY <2>1, <2>2
<1>4. ASSUME NEW r \in Reader, Get(r) PROVE InOrder'
  <2>1. \A q \in Reader : Stream(q)' = Stream(q)
    BY <1>4, GetKeepsStreams
  <2>2. by' = by
    BY <1>4 DEF Get, emitVars
  <2> QED BY <2>1, <2>2 DEF InOrder
<1>5. CASE UNCHANGED <<by, received, _q>>
  <2>1. \A q \in Reader : Stream(q)' = Stream(q)
    BY <1>5 DEF Stream
  <2> QED BY <1>5, <2>1 DEF InOrder
<1>6. \/ \E t \in Emitter : TakeId(t) \/ \E r \in Reader : Offer(t, r)
      \/ \E r \in Reader : Subscribe(r) \/ Get(r)
      \/ UNCHANGED <<by, received, _q>>
  BY DEF Next, Emit, AppendEvent, Return, Close, vars, emitVars, ringVars, queueVars
<1> QED BY <1>1, <1>2, <1>3, <1>4, <1>5, <1>6

LEMMA AlwaysRegistered == Spec => [](Registered /\ StreamBehind /\ InOrder)
<1>1. Init => Registered /\ StreamBehind /\ InOrder
  <2> SUFFICES ASSUME Init PROVE Registered /\ StreamBehind /\ InOrder
    OBVIOUS
  <2>1. \A r \in Reader : Stream(r) = <<>>
    <3>1. <<>> \in Seq(Nat)
      BY EmptySeq
    <3> QED BY <3>1, ConcatEmptySeq DEF Init, Stream
  <2>2. DOMAIN <<>> = {} /\ Len(<<>>) = 0
    BY EmptySeq
  <2>3. Registered
    BY <2>2 DEF Init, Registered
  <2>4. StreamBehind /\ InOrder
    BY <2>1, <2>2 DEF StreamBehind, InOrder, Elements
  <2> QED BY <2>3, <2>4
<1>2. Typed /\ Registered /\ [Next]_vars => Registered'
  BY RegisteredStep
<1>3. Typed /\ RingIsTail /\ InFlight /\ Registered /\ StreamBehind /\ [Next]_vars => StreamBehind'
  BY BehindStep
<1>4. Typed /\ RingIsTail /\ InFlight /\ LogInOrder /\ Registered /\ StreamBehind /\ InOrder /\ [Next]_vars
        => InOrder'
  BY InOrderStep
<1> QED BY <1>1, <1>2, <1>3, <1>4, AlwaysTyped, AlwaysTail, AlwaysInFlight, PTL DEF Spec

(* emit and subscribe: what one thread emits reaches a reader in order and  *)
(* no event twice, although replay and fan-out both deliver.                *)
THEOREM ReadersSeeOrder == Spec => []InOrder
BY AlwaysRegistered, PTL

------------------------------------------------------------------------------
(* Nothing falls between replay and fan-out *)

(* What a reader is owed when the log grows, once it is registered. *)
LEMMA OwedGrows ==
  ASSUME Typed, Registered, NEW t \in Emitter, AppendEvent(t), NEW r \in Reader
  PROVE  Owed(r)' = Owed(r) \cup {event[t]}
<1>1. /\ appended \in Seq(1 .. _counter) /\ Len(appended) \in Nat /\ DOMAIN appended = 1 .. Len(appended)
      /\ event[t] \in 1 .. _counter /\ appended' = Append(appended, event[t]) /\ since' = since
      /\ since[r] \in Nat /\ since[r] <= Len(appended)
  BY LenProperties DEF Typed, TypeOK, AppendEvent, readerVars, Registered
<1>2. /\ appended' \in Seq(1 .. _counter) /\ Len(appended') = Len(appended) + 1
      /\ \A k \in 1 .. Len(appended) : appended'[k] = appended[k]
      /\ appended'[Len(appended) + 1] = event[t]
  BY <1>1, AppendProperties
<1>3. DOMAIN appended' = 1 .. Len(appended) + 1
  BY <1>2, LenProperties
<1>4. ASSUME NEW k \in DOMAIN appended', k > since[r] PROVE appended'[k] \in Owed(r) \cup {event[t]}
  <2>1. CASE k \in 1 .. Len(appended)
    BY <1>1, <1>2, <1>4, <2>1 DEF Owed
  <2>2. CASE k = Len(appended) + 1
    BY <1>2, <2>2
  <2> QED BY <1>1, <1>3, <2>1, <2>2
<1>5. ASSUME NEW k \in DOMAIN appended, k > since[r]
      PROVE  \E j \in DOMAIN appended' : j > since[r] /\ appended[k] = appended'[j]
  BY <1>1, <1>2, <1>3, <1>5
<1>6. \E j \in DOMAIN appended' : j > since[r] /\ event[t] = appended'[j]
  <2>1. Len(appended) + 1 \in DOMAIN appended' /\ Len(appended) + 1 > since[r]
    BY <1>1, <1>3
  <2> QED BY <1>2, <2>1
<1>7. Owed(r)' = { appended'[k] : k \in { j \in DOMAIN appended' : j > since[r] } }
  BY <1>1 DEF Owed
<1>8. Owed(r) = { appended[k] : k \in { j \in DOMAIN appended : j > since[r] } }
  BY DEF Owed
<1> QED BY <1>4, <1>5, <1>6, <1>7, <1>8

(* What a new reader is owed is what the ring holds: replayed, or too much *)
(* for its queue.                                                          *)
LEMMA OwedAtFirst ==
  ASSUME Typed, RingIsTail, Registered, NEW r \in Reader, Subscribe(r)
  PROVE  Owed(r)' = Elements(Replay) \cup dropped'[r]
<1>1. /\ _events \in Seq(1 .. _counter) /\ Len(_events) \in Nat
      /\ appended \in Seq(1 .. _counter) /\ Len(appended) \in Nat /\ DOMAIN appended = 1 .. Len(appended)
      /\ Len(_events) <= Len(appended)
  BY LenProperties DEF Typed, TypeOK
<1>2. /\ since'[r] = Len(appended) - Len(_events) /\ appended' = appended
      /\ dropped'[r] = { _events[k] : k \in queue_maxsize + 1 .. Len(_events) }
  BY DEF Subscribe, Typed, TypeOK, ringVars
<1>3. /\ Len(Replay) = IF Len(_events) <= queue_maxsize THEN Len(_events) ELSE queue_maxsize
      /\ DOMAIN Replay = 1 .. Len(Replay)
      /\ \A k \in DOMAIN Replay : Replay[k] = _events[k]
  BY <1>1, ReplayProperties, SubscribeEffect
<1>4. /\ \A k \in 1 .. Len(_events) : _events[k] = appended[Len(appended) - Len(_events) + k]
  BY SubscribeEffect
<1>5. Owed(r)' = { appended[k] : k \in { j \in DOMAIN appended : j > Len(appended) - Len(_events) } }
  BY <1>2 DEF Owed
<1>6. ASSUME NEW k \in DOMAIN appended, k > Len(appended) - Len(_events)
      PROVE  appended[k] \in Elements(Replay) \cup dropped'[r]
  <2>1. PICK j \in 1 .. Len(_events) : k = Len(appended) - Len(_events) + j
    <3>1. k - (Len(appended) - Len(_events)) \in 1 .. Len(_events)
      BY <1>1, <1>6
    <3>2. k = Len(appended) - Len(_events) + (k - (Len(appended) - Len(_events)))
      BY <1>1
    <3> QED BY <3>1, <3>2
  <2>2. appended[k] = _events[j]
    BY <1>4, <2>1
  <2>3. CASE j \in DOMAIN Replay
    BY <1>3, <2>2, <2>3 DEF Elements
  <2>4. CASE j \notin DOMAIN Replay
    <3>1. j \in queue_maxsize + 1 .. Len(_events)
      BY <1>1, <1>3, <2>4, StoreAssumption
    <3> QED BY <1>2, <2>2, <3>1
  <2> QED BY <2>3, <2>4
<1>7. ASSUME NEW k \in 1 .. Len(_events)
      PROVE  _events[k] \in Owed(r)'
  <2>1. /\ Len(appended) - Len(_events) + k \in DOMAIN appended
        /\ Len(appended) - Len(_events) + k > Len(appended) - Len(_events)
    BY <1>1
  <2> QED BY <1>4, <1>5, <2>1
<1>8. Elements(Replay) \subseteq Owed(r)'
  <2> SUFFICES ASSUME NEW k \in DOMAIN Replay PROVE Replay[k] \in Owed(r)'
    BY DEF Elements
  <2>1. k \in 1 .. Len(_events)
    BY <1>1, <1>3, StoreAssumption
  <2> QED BY <1>3, <1>7, <2>1
<1>9. dropped'[r] \subseteq Owed(r)'
  <2> SUFFICES ASSUME NEW k \in queue_maxsize + 1 .. Len(_events) PROVE _events[k] \in Owed(r)'
    BY <1>2
  <2>1. k \in 1 .. Len(_events)
    BY <1>1, StoreAssumption
  <2> QED BY <1>7, <2>1
<1> QED BY <1>5, <1>6, <1>8, <1>9

(* Every action keeps the account. *)
LEMMA AccountedStep == Typed /\ RingIsTail /\ Registered /\ Accounted /\ [Next]_vars => Accounted'
<1> SUFFICES ASSUME Typed, RingIsTail, Registered, Accounted, [Next]_vars PROVE Accounted'
  OBVIOUS
<1>0. /\ pc \in [Emitter -> {"idle", "append", "fanout"}] /\ subs \in [Emitter -> SUBSET Reader]
      /\ event \in [Emitter -> 0 .. _counter] /\ status \in [Reader -> {"new", "open", "closed"}]
  BY DEF Typed, TypeOK
<1>1. ASSUME NEW t \in Emitter, TakeId(t) PROVE Accounted'
  <2>1. /\ UNCHANGED <<status, appended, since, received, _q, dropped, subs>> /\ pc[t] = "idle" /\ pc'[t] = "append"
        /\ \A u \in Emitter : u # t => pc'[u] = pc[u] /\ event'[u] = event[u]
    BY <1>0, <1>1 DEF TakeId, readerVars, ringVars, queueVars
  <2>2. \A r \in Reader : Stream(r)' = Stream(r) /\ Owed(r)' = Owed(r)
    BY <2>1 DEF Stream, Owed
  <2>3. \A r \in Reader : Offering(r)' = Offering(r)
    BY <2>1 DEF Offering
  <2> QED BY <2>1, <2>2, <2>3 DEF Accounted
<1>2. ASSUME NEW t \in Emitter, AppendEvent(t) PROVE Accounted'
  <2>1. /\ UNCHANGED <<status, received, _q, dropped, event>> /\ pc[t] = "append" /\ pc'[t] = "fanout"
        /\ subs'[t] = _subscribers
        /\ \A u \in Emitter : u # t => pc'[u] = pc[u] /\ subs'[u] = subs[u]
    BY <1>0, <1>2 DEF AppendEvent, readerVars, queueVars
  <2> SUFFICES ASSUME NEW r \in Reader, status[r] = "open"
               PROVE  Owed(r)' = Elements(Stream(r)') \cup Offering(r)' \cup dropped'[r]
    BY <2>1 DEF Accounted
  <2>2. Stream(r)' = Stream(r)
    BY <2>1 DEF Stream
  <2>3. Owed(r)' = Owed(r) \cup {event[t]}
    BY <1>2, OwedGrows
  <2>4. r \in subs'[t]
    BY <2>1 DEF Registered
  <2>5. Offering(r)' = Offering(r) \cup {event[t]}
    BY <2>1, <2>4 DEF Offering
  <2> QED BY <2>1, <2>2, <2>3, <2>5 DEF Accounted
<1>3. ASSUME NEW t \in Emitter, NEW r \in Reader, Offer(t, r) PROVE Accounted'
  <2>1. /\ UNCHANGED <<status, appended, since, event, pc>> /\ pc[t] = "fanout" /\ r \in subs[t]
        /\ subs'[t] = subs[t] \ {r} /\ \A u \in Emitter : u # t => subs'[u] = subs[u]
    BY <1>0, <1>3 DEF Offer, Remaining, readerVars, ringVars
  <2> SUFFICES ASSUME NEW q \in Reader, status[q] = "open"
               PROVE  Owed(q)' = Elements(Stream(q)') \cup Offering(q)' \cup dropped'[q]
    BY <2>1 DEF Accounted
  <2>2. Owed(q)' = Owed(q)
    BY <2>1 DEF Owed
  <2>3. CASE q # r
    <3>1. Stream(q)' = Stream(q) /\ dropped'[q] = dropped[q]
      BY <1>3, <2>3, OfferEffect
    <3>2. Offering(q)' = Offering(q)
      BY <2>1, <2>3 DEF Offering
    <3> QED BY <2>2, <3>1, <3>2 DEF Accounted
  <2>4. CASE q = r
    <3>1. Offering(r) = Offering(r)' \cup {event[t]}
      BY <2>1 DEF Offering
    <3>2. \/ Elements(Stream(r)') = Elements(Stream(r)) \cup {event[t]} /\ dropped'[r] = dropped[r]
          \/ Elements(Stream(r)') = Elements(Stream(r)) /\ dropped'[r] = dropped[r] \cup {event[t]}
      <4> DEFINE Id == 1 .. _counter
      <4>1. Stream(r) \in Seq(Id) /\ event[t] \in Id
        BY <2>1, StreamType DEF Typed
      <4> HIDE DEF Id
      <4>2. Elements(Append(Stream(r), event[t])) = Elements(Stream(r)) \cup {event[t]}
        BY <4>1, ElementsAppend
      <4>3. \/ Stream(r)' = Append(Stream(r), event[t]) /\ dropped'[r] = dropped[r]
            \/ Stream(r)' = Stream(r) /\ dropped'[r] = dropped[r] \cup {event[t]}
        BY <1>3, OfferEffect
      <4> QED BY <4>2, <4>3
    <3>3. Owed(r) = Elements(Stream(r)) \cup Offering(r) \cup dropped[r]
      BY <2>4 DEF Accounted
    <3> QED BY <2>2, <2>4, <3>1, <3>2, <3>3
  <2> QED BY <2>3, <2>4
<1>4. ASSUME NEW t \in Emitter, Return(t) PROVE Accounted'
  <2>1. /\ UNCHANGED <<status, appended, since, received, _q, dropped, subs, event>>
        /\ subs[t] = {} /\ pc'[t] = "idle" /\ \A u \in Emitter : u # t => pc'[u] = pc[u]
    BY <1>0, <1>4 DEF Return, readerVars, ringVars, queueVars
  <2>2. \A r \in Reader : Stream(r)' = Stream(r) /\ Owed(r)' = Owed(r)
    BY <2>1 DEF Stream, Owed
  <2>3. \A r \in Reader : Offering(r)' = Offering(r)
    BY <2>1 DEF Offering
  <2> QED BY <2>1, <2>2, <2>3 DEF Accounted
<1>5. ASSUME NEW r \in Reader, Subscribe(r) PROVE Accounted'
  <2>1. /\ UNCHANGED <<pc, subs, event, appended>> /\ status[r] = "new"
        /\ \A q \in Reader : q # r => status'[q] = status[q] /\ since'[q] = since[q]
    BY <1>0, <1>5 DEF Subscribe, Register, ringVars, Typed, TypeOK
  <2> SUFFICES ASSUME NEW q \in Reader, status'[q] = "open"
               PROVE  Owed(q)' = Elements(Stream(q)') \cup Offering(q)' \cup dropped'[q]
    BY DEF Accounted
  <2>2. CASE q # r
    <3>1. Stream(q)' = Stream(q) /\ dropped'[q] = dropped[q]
      BY <1>5, <2>2, SubscribeEffect
    <3>2. Owed(q)' = Owed(q) /\ Offering(q)' = Offering(q)
      BY <2>1, <2>2 DEF Owed, Offering
    <3>3. status[q] = "open"
      BY <2>1, <2>2
    <3> QED BY <3>1, <3>2, <3>3 DEF Accounted
  <2>3. CASE q = r
    <3>1. Stream(r)' = Replay
      BY <1>5, SubscribeEffect
    <3>2. Offering(r)' = {}
      BY <2>1 DEF Offering, Registered
    <3>3. Owed(r)' = Elements(Replay) \cup dropped'[r]
      BY <1>5, OwedAtFirst
    <3> QED BY <2>3, <3>1, <3>2, <3>3
  <2> QED BY <2>2, <2>3
<1>6. ASSUME NEW r \in Reader, Get(r) PROVE Accounted'
  <2>1. UNCHANGED <<status, appended, since, pc, subs, event, dropped>>
    BY <1>6 DEF Get, emitVars, ringVars, readerVars
  <2>2. \A q \in Reader : Owed(q)' = Owed(q) /\ Offering(q)' = Offering(q) /\ Stream(q)' = Stream(q)
    BY <1>6, <2>1, GetKeepsStreams DEF Owed, Offering
  <2> QED BY <2>1, <2>2 DEF Accounted
<1>7. ASSUME NEW r \in Reader, Close(r) PROVE Accounted'
  <2>1. /\ UNCHANGED <<appended, since, pc, subs, event, received, _q, dropped>>
        /\ \A q \in Reader : status'[q] = "open" => status[q] = "open"
    BY <1>0, <1>7 DEF Close, emitVars, ringVars, queueVars
  <2>2. \A q \in Reader : Owed(q)' = Owed(q) /\ Offering(q)' = Offering(q) /\ Stream(q)' = Stream(q)
    BY <2>1 DEF Owed, Offering, Stream
  <2> QED BY <2>1, <2>2 DEF Accounted
<1>8. CASE UNCHANGED vars
  <2>1. UNCHANGED <<status, appended, since, pc, subs, event, received, _q, dropped>>
    BY <1>8 DEF vars, emitVars, ringVars, readerVars, queueVars
  <2>2. \A q \in Reader : Owed(q)' = Owed(q) /\ Offering(q)' = Offering(q) /\ Stream(q)' = Stream(q)
    BY <2>1 DEF Owed, Offering, Stream
  <2> QED BY <2>1, <2>2 DEF Accounted
<1> QED BY <1>1, <1>2, <1>3, <1>4, <1>5, <1>6, <1>7, <1>8 DEF Next, Emit

(* emit and subscribe: every event an open reader is owed was delivered, is *)
(* queued for it, is about to be offered, or was refused by its own full    *)
(* queue.                                                                   *)
THEOREM NothingFallsBetween == Spec => []Accounted
<1>1. Init => Accounted
  BY DEF Init, Accounted
<1>2. Typed /\ RingIsTail /\ Registered /\ Accounted /\ [Next]_vars => Accounted'
  BY AccountedStep
<1> QED BY <1>1, <1>2, AlwaysTyped, AlwaysTail, AlwaysRegistered, PTL DEF Spec

------------------------------------------------------------------------------
(* The store implements the feed *)

(* Places of the second of two sequences in their concatenation. *)
LEMMA Offset ==
  ASSUME NEW n \in Nat, NEW m \in Nat, NEW k \in 1 .. m
  PROVE  n + k \in 1 .. n + m /\ ~(n + k <= n) /\ (n + k) - n = k
OBVIOUS

(* A queue is the end of its reader's stream. *)
LEMMA QueueInStream ==
  ASSUME Typed, NEW r \in Reader, NEW k \in 1 .. Len(_q[r])
  PROVE  /\ Len(received[r]) + k \in DOMAIN Stream(r)
         /\ Stream(r)[Len(received[r]) + k] = _q[r][k]
<1>1. received[r] \in Seq(1 .. _counter) /\ _q[r] \in Seq(1 .. _counter)
  BY DEF Typed, TypeOK
<1>2. Len(received[r]) \in Nat /\ Len(_q[r]) \in Nat
  BY <1>1, LenProperties
<1>3. /\ Len(Stream(r)) = Len(received[r]) + Len(_q[r])
      /\ \A i \in 1 .. Len(received[r]) + Len(_q[r]) :
           Stream(r)[i] = IF i <= Len(received[r]) THEN received[r][i] ELSE _q[r][i - Len(received[r])]
  BY <1>1, ConcatProperties DEF Stream
<1>4. /\ Len(received[r]) + k \in 1 .. Len(received[r]) + Len(_q[r])
      /\ ~(Len(received[r]) + k <= Len(received[r]))
      /\ (Len(received[r]) + k) - Len(received[r]) = k
  BY <1>2, Offset
<1>5. Stream(r)[Len(received[r]) + k] =
        IF Len(received[r]) + k <= Len(received[r]) THEN received[r][Len(received[r]) + k]
                                                    ELSE _q[r][(Len(received[r]) + k) - Len(received[r])]
  BY <1>3, <1>4
<1>6. Stream(r)[Len(received[r]) + k] = _q[r][k]
  BY <1>4, <1>5
<1> QED BY <1>3, <1>4, <1>6, StreamType

(* What one emitter has in a queue or about to be offered is in order: the *)
(* head of the queue first, the event about to be offered last.            *)
LEMMA DueInOrder ==
  ASSUME Typed, InFlight, Registered, StreamBehind, InOrder, NEW r \in Reader
  PROVE  /\ \A i, j \in 1 .. Len(_q[r]) : i < j /\ by[_q[r][i]] = by[_q[r][j]] => _q[r][i] < _q[r][j]
         /\ \A t \in Emitter : r \in subs[t] =>
              /\ event[t] \in 1 .. _counter /\ by[event[t]] = t
              /\ \A k \in 1 .. Len(_q[r]) : by[_q[r][k]] = t => _q[r][k] < event[t]
<1>1. ASSUME NEW i \in 1 .. Len(_q[r]), NEW j \in 1 .. Len(_q[r]), i < j, by[_q[r][i]] = by[_q[r][j]]
      PROVE  _q[r][i] < _q[r][j]
  <2>1. Len(received[r]) \in Nat /\ Len(_q[r]) \in Nat
    BY LenProperties DEF Typed, TypeOK
  <2>2. Len(received[r]) + i < Len(received[r]) + j
    BY <1>1, <2>1
  <2>3. /\ Len(received[r]) + i \in DOMAIN Stream(r) /\ Stream(r)[Len(received[r]) + i] = _q[r][i]
        /\ Len(received[r]) + j \in DOMAIN Stream(r) /\ Stream(r)[Len(received[r]) + j] = _q[r][j]
    BY QueueInStream
  <2> QED BY <1>1, <2>2, <2>3 DEF InOrder
<1>2. ASSUME NEW t \in Emitter, r \in subs[t]
      PROVE  event[t] \in 1 .. _counter /\ by[event[t]] = t
  <2>1. pc[t] # "idle"
    BY <1>2 DEF Registered
  <2> QED BY <2>1 DEF InFlight
<1>3. ASSUME NEW t \in Emitter, r \in subs[t], NEW k \in 1 .. Len(_q[r]), by[_q[r][k]] = t
      PROVE  _q[r][k] < event[t]
  BY <1>3, QueueInStream DEF StreamBehind
<1> QED BY <1>1, <1>2, <1>3

(* A queue has no event twice, and none that is still to be offered. *)
LEMMA DueOnce ==
  ASSUME Typed, InFlight, Registered, StreamBehind, InOrder, NEW r \in Reader
  PROVE  /\ \A i, j \in 1 .. Len(_q[r]) : _q[r][i] = _q[r][j] => i = j
         /\ \A t \in Emitter : r \in subs[t] => event[t] \notin Elements(_q[r])
         /\ \A t, u \in Emitter : r \in subs[t] /\ r \in subs[u] /\ event[t] = event[u] => t = u
<1>1. /\ _q[r] \in Seq(1 .. _counter) /\ Len(_q[r]) \in Nat /\ DOMAIN _q[r] = 1 .. Len(_q[r])
      /\ \A k \in 1 .. Len(_q[r]) : _q[r][k] \in Int
  BY LenProperties, ElementOfSeq DEF Typed, TypeOK
<1>2. ASSUME NEW i \in 1 .. Len(_q[r]), NEW j \in 1 .. Len(_q[r]), _q[r][i] = _q[r][j]
      PROVE  i = j
  <2>1. ~(i < j) /\ ~(j < i)
    BY <1>1, <1>2, DueInOrder
  <2> QED BY <1>1, <2>1
<1>3. ASSUME NEW t \in Emitter, r \in subs[t], NEW k \in 1 .. Len(_q[r])
      PROVE  event[t] # _q[r][k]
  <2>1. event[t] \in 1 .. _counter /\ by[event[t]] = t /\ (by[_q[r][k]] = t => _q[r][k] < event[t])
    BY <1>3, DueInOrder
  <2> QED BY <1>1, <2>1
<1>4. \A t, u \in Emitter : r \in subs[t] /\ r \in subs[u] /\ event[t] = event[u] => t = u
  BY DueInOrder
<1> QED BY <1>1, <1>2, <1>3, <1>4 DEF Elements

(* The head leaves the set of what is queued, and nothing else does. *)
LEMMA TailLosesHead ==
  ASSUME NEW S, NEW s \in Seq(S), s # <<>>,
         \A i, j \in 1 .. Len(s) : s[i] = s[j] => i = j
  PROVE  Head(s) \in Elements(s) /\ Elements(Tail(s)) = Elements(s) \ {Head(s)}
<1>1. /\ Len(s) \in Nat /\ DOMAIN s = 1 .. Len(s) /\ 1 \in 1 .. Len(s) /\ Head(s) = s[1]
  BY LenProperties, EmptySeq, HeadTailProperties
<1>2. /\ Tail(s) \in Seq(S) /\ Len(Tail(s)) = Len(s) - 1
      /\ \A k \in 1 .. Len(Tail(s)) : Tail(s)[k] = s[k + 1]
  BY HeadTailProperties
<1>3. DOMAIN Tail(s) = 1 .. Len(s) - 1
  BY <1>2, LenProperties
<1>4. ASSUME NEW k \in DOMAIN Tail(s)
      PROVE  Tail(s)[k] \in Elements(s) \ {Head(s)}
  <2>1. k + 1 \in 1 .. Len(s) /\ k + 1 # 1 /\ Tail(s)[k] = s[k + 1]
    BY <1>1, <1>2, <1>3
  <2> QED BY <1>1, <2>1 DEF Elements
<1>5. ASSUME NEW k \in DOMAIN s, s[k] # Head(s)
      PROVE  s[k] \in Elements(Tail(s))
  <2>1. k - 1 \in 1 .. Len(s) - 1 /\ (k - 1) + 1 = k
    BY <1>1, <1>5
  <2>2. Tail(s)[k - 1] = s[k]
    BY <1>2, <2>1
  <2> QED BY <1>3, <2>1, <2>2 DEF Elements
<1> QED BY <1>1, <1>4, <1>5 DEF Elements

(* A set that holds a queue without repetitions and one thing more is      *)
(* larger than the queue is long.                                          *)
LEMMA MoreThanQueued ==
  ASSUME NEW n \in Nat, NEW s \in Seq(1 .. n), NEW D \in SUBSET (1 .. n), NEW e \in D,
         \A i, j \in 1 .. Len(s) : s[i] = s[j] => i = j,
         Elements(s) \subseteq D, e \notin Elements(s)
  PROVE  Cardinality(D) > Len(s)
<1>1. Len(s) \in Nat /\ DOMAIN s = 1 .. Len(s)
  BY LenProperties
<1>2. IsFiniteSet(1 .. n) /\ IsFiniteSet(1 .. Len(s)) /\ Cardinality(1 .. Len(s)) = Len(s)
  <2>1. 1 \in Int /\ n \in Int /\ Len(s) \in Int
    BY <1>1
  <2>2. IsFiniteSet(1 .. n)
    BY <2>1, FS_Interval
  <2>3. /\ IsFiniteSet(1 .. Len(s))
        /\ Cardinality(1 .. Len(s)) = IF 1 > Len(s) THEN 0 ELSE Len(s) - 1 + 1
    BY <2>1, FS_Interval
  <2> QED BY <1>1, <2>2, <2>3
<1>3. IsFiniteSet(D)
  BY <1>2, FS_Subset
<1>4. IsFiniteSet(D \ {e}) /\ Cardinality(D \ {e}) = Cardinality(D) - 1 /\ Cardinality(D) \in Nat
  BY <1>3, FS_RemoveElement, FS_CardinalityType
<1> DEFINE f == [k \in 1 .. Len(s) |-> s[k]]
<1>5. f \in Injection(1 .. Len(s), D \ {e})
  <2>1. f \in [1 .. Len(s) -> D \ {e}]
    BY <1>1 DEF Elements
  <2>2. IsInjective(f)
    BY DEF IsInjective
  <2> QED BY <2>1, <2>2 DEF Injection
<1> HIDE DEF f
<1>6. Cardinality(1 .. Len(s)) <= Cardinality(D \ {e})
  BY <1>4, <1>5, FS_Injection
<1> QED BY <1>1, <1>2, <1>4, <1>6

(* What the steps of the feed are argued from. *)
StoreInv ==
  /\ Typed /\ RingIsTail
  /\ InFlight /\ LogInOrder
  /\ Registered /\ StreamBehind /\ InOrder

(* emit's first step, seen from the feed. *)
LEMMA TakeIdDraws ==
  ASSUME StoreInv, NEW t \in Emitter, TakeId(t)
  PROVE  Feed!Draw(t)
<1>1. /\ pc \in [Emitter -> {"idle", "append", "fanout"}]
      /\ event \in [Emitter -> 0 .. _counter]
  BY DEF StoreInv, Typed, TypeOK
<1>2. /\ pc[t] = "idle" /\ pc'[t] = "append"
      /\ \A u \in Emitter : u # t => pc'[u] = pc[u] /\ event'[u] = event[u]
      /\ UNCHANGED <<subs, _q>>
  BY <1>1 DEF TakeId, queueVars
<1>3. \A r \in Reader : Offering(r)' = Offering(r)
  BY <1>2 DEF Offering
<1>4. Due' = Due
  BY <1>2, <1>3 DEF Due
<1>5. by' = Append(by, t) /\ UNCHANGED <<appended, status, received, dropped>>
  BY DEF TakeId, ringVars, readerVars, queueVars
<1> QED BY <1>4, <1>5 DEF Feed!Draw

(* The locked section publishes the event to every registered reader. *)
LEMMA AppendPublishes ==
  ASSUME StoreInv, NEW t \in Emitter, AppendEvent(t)
  PROVE  event[t] \in DOMAIN by /\ Feed!Publish(event[t])
<1>1. /\ pc \in [Emitter -> {"idle", "append", "fanout"}] /\ subs \in [Emitter -> SUBSET Reader]
      /\ by \in Seq(Emitter) /\ Len(by) = _counter /\ _counter \in Nat
      /\ appended \in Seq(1 .. _counter)
  BY StoreAssumption DEF StoreInv, Typed, TypeOK
<1>2. /\ pc[t] = "append" /\ pc'[t] = "fanout" /\ subs'[t] = _subscribers
      /\ \A u \in Emitter : u # t => pc'[u] = pc[u] /\ subs'[u] = subs[u]
      /\ appended' = Append(appended, event[t])
      /\ UNCHANGED <<_counter, by, event, status, _q, received, dropped>>
  BY <1>1 DEF AppendEvent, readerVars, queueVars
<1>3. /\ event[t] \in 1 .. _counter /\ by[event[t]] = t
      /\ \A id \in 1 .. _counter : by[id] = t => id <= event[t]
      /\ event[t] \notin Elements(appended)
  BY <1>2 DEF StoreInv, InFlight
<1>4. event[t] \in DOMAIN by
  BY <1>1, <1>3, LenProperties
<1>5. ASSUME NEW k \in DOMAIN appended, by[appended[k]] = by[event[t]]
      PROVE  appended[k] < event[t]
  <2>1. appended[k] \in 1 .. _counter /\ appended[k] # event[t]
    BY <1>1, <1>3, LenProperties, ElementOfSeq DEF Elements
  <2> QED BY <1>1, <1>3, <1>5, <2>1
<1>6. ASSUME NEW r \in Reader
      PROVE  Due'[r] = IF status[r] = "open" THEN Due[r] \cup {event[t]} ELSE Due[r]
  <2>1. r \in _subscribers <=> status[r] = "open"
    BY DEF StoreInv, Registered
  <2>2. r \notin subs[t]
    BY <1>2 DEF StoreInv, Registered
  <2>3. CASE status[r] = "open"
    <3>1. Offering(r)' = Offering(r) \cup {event[t]}
      BY <1>2, <2>1, <2>2, <2>3 DEF Offering
    <3> QED BY <1>2, <2>3, <3>1 DEF Due
  <2>4. CASE status[r] # "open"
    <3>1. Offering(r)' = Offering(r)
      BY <1>2, <2>1, <2>2, <2>4 DEF Offering
    <3> QED BY <1>2, <2>4, <3>1 DEF Due
  <2> QED BY <2>3, <2>4
<1>7. Due' = [r \in Reader |-> IF status[r] = "open" THEN Due[r] \cup {event[t]} ELSE Due[r]]
  BY <1>6 DEF Due
<1> QED BY <1>2, <1>4, <1>5, <1>7 DEF Feed!Publish

(* An offer keeps the event due, or the reader loses it with its queue     *)
(* full of other ones.                                                     *)
LEMMA OfferKeepsOrLoses ==
  ASSUME StoreInv, NEW t \in Emitter, NEW r \in Reader, Offer(t, r)
  PROVE  UNCHANGED Feed!vars \/ (event[t] \in Due[r] /\ Feed!Lose(r, event[t]))
<1>1. /\ _counter \in Nat /\ subs \in [Emitter -> SUBSET Reader] /\ _q \in [Reader -> Seq(1 .. _counter)]
      /\ _q[r] \in Seq(1 .. _counter) /\ queue_maxsize \in Nat /\ Len(_q[r]) \in Nat
      /\ Len(_q[r]) <= queue_maxsize
  BY StoreAssumption, LenProperties DEF StoreInv, Typed, TypeOK
<1>2. /\ pc[t] = "fanout" /\ r \in subs[t] /\ subs'[t] = subs[t] \ {r}
      /\ \A u \in Emitter : u # t => subs'[u] = subs[u]
      /\ UNCHANGED <<by, pc, event, appended, status, received>>
  BY <1>1 DEF Offer, Remaining, ringVars, readerVars
<1>3. Offering(r) = Offering(r)' \cup {event[t]}
  BY <1>2 DEF Offering
<1>4. \A q \in Reader : q # r => Offering(q)' = Offering(q)
  BY <1>2 DEF Offering
<1>5. event[t] \in 1 .. _counter
  BY <1>2, DueInOrder DEF StoreInv
<1>6. CASE HasRoom(r)
  <2>1. _q'[r] = Append(_q[r], event[t]) /\ \A q \in Reader : q # r => _q'[q] = _q[q]
    BY <1>1, <1>6 DEF Offer
  <2>2. Elements(Append(_q[r], event[t])) = Elements(_q[r]) \cup {event[t]}
    <3> DEFINE Id == 1 .. _counter
    <3>1. _q[r] \in Seq(Id) /\ event[t] \in Id
      BY <1>1, <1>5
    <3> HIDE DEF Id
    <3> QED BY <3>1, ElementsAppend
  <2>3. \A q \in Reader : Elements(_q'[q]) \cup Offering(q)' = Elements(_q[q]) \cup Offering(q)
    BY <1>3, <1>4, <2>1, <2>2
  <2>4. Due' = Due
    BY <2>3 DEF Due
  <2>5. dropped' = dropped
    BY <1>6 DEF Offer
  <2> QED BY <1>2, <2>4, <2>5 DEF Feed!vars
<1>7. CASE ~HasRoom(r)
  <2>1. dropped' = [dropped EXCEPT ![r] = dropped[r] \cup {event[t]}] /\ UNCHANGED _q
    BY <1>7 DEF Offer
  <2>2. Due[r] = Elements(_q[r]) \cup Offering(r) /\ event[t] \in Due[r]
    BY <1>3 DEF Due
  <2>3. event[t] \notin Elements(_q[r])
    BY <1>2, DueOnce DEF StoreInv
  <2>4. event[t] \notin Offering(r)'
    <3> SUFFICES ASSUME NEW u \in Emitter, pc'[u] = "fanout", r \in subs'[u] PROVE event[t] # event'[u]
      BY DEF Offering
    <3>1. u # t /\ r \in subs[u]
      BY <1>2
    <3> QED BY <1>2, <3>1, DueOnce DEF StoreInv
  <2>5. \A q \in Reader : Due'[q] = IF q = r THEN Due[r] \ {event[t]} ELSE Due[q]
    BY <1>3, <1>4, <2>1, <2>3, <2>4 DEF Due
  <2>6. Due' = [Due EXCEPT ![r] = Due[r] \ {event[t]}]
    BY <2>5 DEF Due
  <2>7. Len(_q[r]) = queue_maxsize
    BY <1>1, <1>7 DEF HasRoom
  <2>8. Due[r] \subseteq 1 .. _counter
    <3>1. Elements(_q[r]) \subseteq 1 .. _counter
      BY <1>1, ElementsType
    <3>2. Offering(r) \subseteq 1 .. _counter
      BY DueInOrder DEF StoreInv, Offering
    <3> QED BY <2>2, <3>1, <3>2
  <2>9. \A i, j \in 1 .. Len(_q[r]) : _q[r][i] = _q[r][j] => i = j
    BY DueOnce DEF StoreInv
  <2>10. Cardinality(Due[r]) > queue_maxsize
    <3>1. Elements(_q[r]) \subseteq Due[r]
      BY <2>2
    <3>2. Cardinality(Due[r]) > Len(_q[r])
      BY <1>1, <2>2, <2>3, <2>8, <2>9, <3>1, MoreThanQueued
    <3> QED BY <2>7, <3>2
  <2>11. Feed!Cardinality(Due[r]) = Cardinality(Due[r])
    BY Zenon DEF Cardinality, Feed!Cardinality
  <2> QED BY <1>2, <2>1, <2>2, <2>6, <2>10, <2>11 DEF Feed!Lose
<1> QED BY <1>6, <1>7

(* Nothing is due to a reader because an emitter leaves its fan-out. *)
LEMMA ReturnStutters ==
  ASSUME StoreInv, NEW t \in Emitter, Return(t)
  PROVE  UNCHANGED Feed!vars
<1>1. /\ subs[t] = {} /\ pc'[t] = "idle" /\ \A u \in Emitter : u # t => pc'[u] = pc[u]
      /\ UNCHANGED <<by, event, subs, appended, status, _q, received, dropped>>
  BY DEF Return, ringVars, readerVars, queueVars, StoreInv, Typed, TypeOK
<1>2. \A r \in Reader : Offering(r)' = Offering(r)
  BY <1>1 DEF Offering
<1>3. Due' = Due
  BY <1>1, <1>2 DEF Due
<1> QED BY <1>1, <1>3 DEF Feed!vars

(* The replay is the newest part of the log, cut where the queue is full. *)
LEMMA SubscribeOpens ==
  ASSUME StoreInv, NEW r \in Reader, Subscribe(r)
  PROVE  Feed!Open(r)
<1>1. /\ _events \in Seq(1 .. _counter) /\ Len(_events) \in Nat
      /\ appended \in Seq(1 .. _counter) /\ Len(appended) \in Nat /\ DOMAIN appended = 1 .. Len(appended)
      /\ maxlen \in Nat /\ queue_maxsize \in Nat /\ status \in [Reader -> {"new", "open", "closed"}]
      /\ _q \in [Reader -> Seq(1 .. _counter)] /\ dropped \in [Reader -> SUBSET (1 .. _counter)]
  BY StoreAssumption, LenProperties DEF StoreInv, Typed, TypeOK
<1>2. /\ status[r] = "new" /\ status' = [status EXCEPT ![r] = "open"]
      /\ _q' = [_q EXCEPT ![r] = Replay]
      /\ dropped' = [dropped EXCEPT ![r] = { _events[k] : k \in queue_maxsize + 1 .. Len(_events) }]
      /\ UNCHANGED <<by, pc, event, subs, appended, received>>
  BY DEF Subscribe, Register, ringVars
<1> DEFINE skipped == Len(appended) - Len(_events)
           shown   == { appended[k] : k \in { j \in DOMAIN appended : skipped < j /\ j <= skipped + queue_maxsize } }
           refused == { appended[k] : k \in { j \in DOMAIN appended : skipped + queue_maxsize < j } }
<1>3. skipped \in Nat /\ Feed!Skipped = skipped
  <2>1. Len(_events) = IF Len(appended) < maxlen THEN Len(appended) ELSE maxlen
    BY DEF StoreInv, RingIsTail
  <2> QED BY <1>1, <2>1 DEF Feed!Skipped
<1>4. /\ \A k \in 1 .. Len(_events) : skipped + k \in DOMAIN appended /\ _events[k] = appended[skipped + k]
      /\ DOMAIN Replay = 1 .. Len(Replay)
      /\ \A k \in DOMAIN Replay : Replay[k] = _events[k]
  BY SubscribeEffect DEF StoreInv
<1>5. Len(Replay) = IF Len(_events) <= queue_maxsize THEN Len(_events) ELSE queue_maxsize
  BY <1>1, ReplayProperties
<1>6. ASSUME NEW j \in DOMAIN appended, skipped < j
      PROVE  j - skipped \in 1 .. Len(_events) /\ skipped + (j - skipped) = j
  BY <1>1, <1>3, <1>6
<1>7. Elements(Replay) = shown
  <2>1. ASSUME NEW k \in DOMAIN Replay PROVE Replay[k] \in shown
    <3>1. k \in 1 .. Len(_events) /\ k <= queue_maxsize
      BY <1>1, <1>4, <1>5
    <3>2. skipped < skipped + k /\ skipped + k <= skipped + queue_maxsize
      BY <1>1, <1>3, <3>1
    <3> QED BY <1>4, <3>1, <3>2
  <2>2. ASSUME NEW j \in DOMAIN appended, skipped < j, j <= skipped + queue_maxsize
        PROVE  appended[j] \in Elements(Replay)
    <3>1. j - skipped \in 1 .. Len(_events) /\ skipped + (j - skipped) = j
      BY <1>6, <2>2
    <3>2. j - skipped <= queue_maxsize
      BY <1>1, <1>3, <2>2
    <3>3. j - skipped \in DOMAIN Replay
      BY <1>1, <1>4, <1>5, <3>1, <3>2
    <3>4. appended[j] = Replay[j - skipped]
      BY <1>4, <3>1, <3>3
    <3> QED BY <3>3, <3>4 DEF Elements
  <2> QED BY <2>1, <2>2 DEF Elements
<1>8. { _events[k] : k \in queue_maxsize + 1 .. Len(_events) } = refused
  <2>1. ASSUME NEW k \in queue_maxsize + 1 .. Len(_events) PROVE _events[k] \in refused
    <3>1. k \in 1 .. Len(_events) /\ skipped + queue_maxsize < skipped + k
      BY <1>1, <1>3
    <3> QED BY <1>4, <3>1
  <2>2. ASSUME NEW j \in DOMAIN appended, skipped + queue_maxsize < j
        PROVE  \E k \in queue_maxsize + 1 .. Len(_events) : appended[j] = _events[k]
    <3>1. skipped < j
      BY <1>1, <1>3, <2>2
    <3>2. j - skipped \in 1 .. Len(_events) /\ skipped + (j - skipped) = j
      BY <1>6, <3>1
    <3>3. j - skipped \in queue_maxsize + 1 .. Len(_events)
      BY <1>1, <1>3, <2>2, <3>2
    <3> QED BY <1>4, <3>2, <3>3
  <2> QED BY <2>1, <2>2
<1>9. Due' = [Due EXCEPT ![r] = shown]
  <2>1. \A t \in Emitter : r \notin subs[t]
    BY <1>2 DEF StoreInv, Registered
  <2>2. Offering(r)' = {} /\ \A q \in Reader : q # r => Offering(q)' = Offering(q)
    BY <1>2, <2>1 DEF Offering
  <2>3. _q'[r] = Replay /\ \A q \in Reader : q # r => _q'[q] = _q[q]
    BY <1>1, <1>2
  <2> HIDE DEF shown
  <2>4. \A q \in Reader : Due'[q] = IF q = r THEN shown ELSE Due[q]
    BY <1>7, <2>2, <2>3 DEF Due
  <2> QED BY <2>4 DEF Due
<1>10. /\ Due' = [Due EXCEPT ![r] =
             { appended[k] : k \in { j \in DOMAIN appended :
                 Feed!Skipped < j /\ j <= Feed!Skipped + queue_maxsize } }]
       /\ dropped' = [dropped EXCEPT ![r] =
             { appended[k] : k \in { j \in DOMAIN appended : Feed!Skipped + queue_maxsize < j } }]
  BY <1>2, <1>3, <1>8, <1>9
<1> QED BY <1>2, <1>10 DEF Feed!Open

(* What a reader takes from its queue is the oldest event of its thread    *)
(* that is due to it, and is due no more.                                  *)
LEMMA GetDelivers ==
  ASSUME StoreInv, NEW r \in Reader, Get(r)
  PROVE  \E e \in Due[r] : Feed!Deliver(r, e)
<1> DEFINE e == Head(_q[r])
<1>1. /\ status[r] = "open" /\ _q[r] # <<>>
      /\ received' = [received EXCEPT ![r] = Append(received[r], e)]
      /\ _q' = [_q EXCEPT ![r] = Tail(_q[r])]
      /\ UNCHANGED <<by, pc, event, subs, appended, status, dropped>>
  BY DEF Get, emitVars, ringVars, readerVars
<1>2. /\ _q \in [Reader -> Seq(1 .. _counter)] /\ _q[r] \in Seq(1 .. _counter)
      /\ Len(_q[r]) \in Nat /\ DOMAIN _q[r] = 1 .. Len(_q[r]) /\ _counter \in Nat
      /\ \A k \in 1 .. Len(_q[r]) : _q[r][k] \in 1 .. _counter
  BY StoreAssumption, LenProperties, ElementOfSeq DEF StoreInv, Typed, TypeOK
<1>3. 1 \in 1 .. Len(_q[r]) /\ e = _q[r][1]
  BY <1>1, <1>2, EmptySeq, HeadTailProperties
<1>4. e \in Elements(_q[r]) /\ Elements(Tail(_q[r])) = Elements(_q[r]) \ {e}
  <2> DEFINE Id == 1 .. _counter
  <2>1. _q[r] \in Seq(Id)
    BY <1>2
  <2>2. \A i, j \in 1 .. Len(_q[r]) : _q[r][i] = _q[r][j] => i = j
    BY DueOnce DEF StoreInv
  <2> HIDE DEF Id
  <2> QED BY <1>1, <2>1, <2>2, TailLosesHead
<1> HIDE DEF e
<1>5. Due[r] = Elements(_q[r]) \cup Offering(r) /\ e \in Due[r]
  BY <1>4 DEF Due
<1>6. e \notin Offering(r)
  <2> SUFFICES ASSUME NEW t \in Emitter, r \in subs[t] PROVE event[t] # e
    BY DEF Offering
  <2> QED BY <1>4, DueOnce DEF StoreInv
<1>7. ASSUME NEW d \in Due[r], by[d] = by[e]
      PROVE  e <= d
  <2>1. CASE d \in Elements(_q[r])
    <3>1. PICK k \in 1 .. Len(_q[r]) : d = _q[r][k]
      BY <1>2, <2>1 DEF Elements
    <3>2. k = 1 \/ 1 < k
      BY <1>2
    <3>3. 1 < k => e < d
      BY <1>3, <1>7, <3>1, DueInOrder DEF StoreInv
    <3>4. d \in Int /\ e \in Int
      BY <1>2, <1>3, <3>1
    <3> QED BY <1>3, <3>1, <3>2, <3>3, <3>4
  <2>2. CASE d \in Offering(r)
    <3>1. PICK t \in Emitter : d = event[t] /\ r \in subs[t]
      BY <2>2 DEF Offering
    <3>2. d \in 1 .. _counter /\ by[d] = t /\ \A k \in 1 .. Len(_q[r]) : by[_q[r][k]] = t => _q[r][k] < d
      BY <3>1, DueInOrder DEF StoreInv
    <3>3. e < d
      <4>1. by[_q[r][1]] = t
        BY <1>3, <1>7, <3>2
      <4> QED BY <1>3, <3>2, <4>1
    <3>4. d \in Int /\ e \in Int
      BY <1>2, <1>3, <3>2
    <3> QED BY <3>3, <3>4
  <2> QED BY <1>5, <2>1, <2>2
<1>8. Due' = [Due EXCEPT ![r] = Due[r] \ {e}]
  <2>1. \A q \in Reader : Offering(q)' = Offering(q)
    BY <1>1 DEF Offering
  <2>2. _q'[r] = Tail(_q[r]) /\ \A q \in Reader : q # r => _q'[q] = _q[q]
    BY <1>1, <1>2
  <2>3. Elements(_q'[r]) \cup Offering(r)' = Due[r] \ {e}
    BY <1>4, <1>5, <1>6, <2>1, <2>2
  <2>4. \A q \in Reader : Due'[q] = IF q = r THEN Due[r] \ {e} ELSE Due[q]
    BY <2>1, <2>2, <2>3 DEF Due
  <2> QED BY <2>4 DEF Due
<1>9. Feed!Deliver(r, e)
  BY <1>1, <1>5, <1>7, <1>8 DEF Feed!Deliver
<1> QED BY <1>5, <1>9

LEMMA StoreStepRefines == StoreInv /\ [Next]_vars => [Feed!Next]_(Feed!vars)
<1> SUFFICES ASSUME StoreInv, [Next]_vars PROVE Feed!Next \/ UNCHANGED Feed!vars
  OBVIOUS
<1>1. ASSUME NEW t \in Emitter, TakeId(t) PROVE Feed!Next
  BY <1>1, TakeIdDraws DEF Feed!Next
<1>2. ASSUME NEW t \in Emitter, AppendEvent(t) PROVE Feed!Next
  BY <1>2, AppendPublishes DEF Feed!Next
<1>3. ASSUME NEW t \in Emitter, NEW r \in Reader, Offer(t, r) PROVE Feed!Next \/ UNCHANGED Feed!vars
  BY <1>3, OfferKeepsOrLoses DEF Feed!Next
<1>4. ASSUME NEW t \in Emitter, Return(t) PROVE UNCHANGED Feed!vars
  BY <1>4, ReturnStutters
<1>5. ASSUME NEW r \in Reader, Subscribe(r) PROVE Feed!Next
  BY <1>5, SubscribeOpens DEF Feed!Next
<1>6. ASSUME NEW r \in Reader, Get(r) PROVE Feed!Next
  BY <1>6, GetDelivers DEF Feed!Next
<1>7. ASSUME NEW r \in Reader, Close(r) PROVE Feed!Next
  <2>1. /\ status[r] = "open" /\ status' = [status EXCEPT ![r] = "closed"]
        /\ UNCHANGED <<by, pc, event, subs, appended, _q, received, dropped>>
    BY <1>7 DEF Close, emitVars, ringVars, queueVars
  <2>2. Due' = Due
    BY <2>1 DEF Due, Offering
  <2>3. Feed!Close(r)
    BY <2>1, <2>2 DEF Feed!Close
  <2> QED BY <2>3 DEF Feed!Next
<1>8. CASE UNCHANGED vars
  <2>1. UNCHANGED <<by, pc, event, subs, appended, status, _q, received, dropped>>
    BY <1>8 DEF vars, emitVars, ringVars, readerVars, queueVars
  <2>2. Due' = Due
    BY <2>1 DEF Due, Offering
  <2> QED BY <2>1, <2>2 DEF Feed!vars
<1> QED BY <1>1, <1>2, <1>3, <1>4, <1>5, <1>6, <1>7, <1>8 DEF Next, Emit

(* emit, subscribe and __next__: to every reader the ring, the queues and  *)
(* the fan-out are one feed of the events published since it opened, each  *)
(* delivered once and in its thread's order, or lost to a full queue.      *)
THEOREM StoreRefinesFeed == Spec => ImplementsFeed
<1>1. Init => Feed!Init
  <2> SUFFICES ASSUME Init PROVE Feed!Init
    OBVIOUS
  <2>1. \A r \in Reader : Elements(_q[r]) = {} /\ Offering(r) = {}
    BY EmptySeq DEF Init, Elements, Offering
  <2>2. Due = [r \in Reader |-> {}]
    BY <2>1 DEF Due
  <2> QED BY <2>2 DEF Init, Feed!Init
<1>2. StoreInv /\ [Next]_vars => [Feed!Next]_(Feed!vars)
  BY StoreStepRefines
<1>3. Spec => []StoreInv
  BY AlwaysTyped, AlwaysTail, AlwaysInFlight, AlwaysRegistered, PTL DEF StoreInv
<1> QED BY <1>1, <1>2, <1>3, PTL DEF Spec, ImplementsFeed, Feed!Spec
==============================================================================

-------------------------- MODULE PromptQueueProofs --------------------------
(***************************************************************************)
(* Machine-checked proofs about PromptQueue, for every set of deliveries,  *)
(* every registry size and every number of redeliveries and restarts.      *)
(***************************************************************************)
EXTENDS PromptQueue, SequenceTheorems, TLAPS

(* An id still in the registry belongs to an envelope of this process that *)
(* is queued, ran, or failed: the registry never outlives the queue.       *)
SeenIsCurrent == \A d \in _seen : outcome[d] \in {"queued", "ok", "failed"}

Ordered == RegistryIsWindow /\ DedupWindow /\ FirstInFirstOut

IInv == TypeOK /\ Ordered /\ SeenIsCurrent

------------------------------------------------------------------------------
(* Sequences *)

(* What Head and Tail of a non-empty sequence are, element by element:     *)
(* deque.popleft and Queue.get.                                            *)
LEMMA TailElements ==
  ASSUME NEW S, NEW s \in Seq(S), s # <<>>
  PROVE  /\ Tail(s) \in Seq(S)
         /\ Head(s) \in S
         /\ Head(s) = s[1]
         /\ Len(s) \in Nat \ {0}
         /\ Len(Tail(s)) = Len(s) - 1
         /\ \A k \in 1 .. Len(s) - 1 : Tail(s)[k] = s[k + 1]
  BY HeadTailProperties, EmptySeq

(* What Append makes of a sequence, element by element: deque.append and   *)
(* Queue.put_nowait.                                                       *)
LEMMA AppendElements ==
  ASSUME NEW S, NEW s \in Seq(S), NEW e \in S
  PROVE  /\ Append(s, e) \in Seq(S)
         /\ Len(Append(s, e)) = Len(s) + 1
         /\ \A k \in 1 .. Len(s) : Append(s, e)[k] = s[k]
         /\ Append(s, e)[Len(s) + 1] = e
  BY AppendProperties

------------------------------------------------------------------------------
(* Type correctness *)

LEMMA InitType == Init => TypeOK
  BY QueueAssumption, EmptySeq DEF Init, TypeOK, NoPrompt, Outcome

LEMMA RememberType ==
  ASSUME TypeOK, NEW d \in Qualifying, Remember(d)
  PROVE  _seen_order' \in Seq(Qualifying) /\ _seen' \subseteq Qualifying
<1>1. CASE Full
  <2>1. _seen_order # <<>>
    BY <1>1, QueueAssumption, EmptySeq DEF Full
  <2>2. Tail(_seen_order) \in Seq(Qualifying)
    BY <2>1, TailElements DEF TypeOK
  <2>. QED  BY <1>1, <2>2, AppendProperties DEF Remember, TypeOK
<1>2. CASE ~Full
  BY <1>2, AppendProperties DEF Remember, TypeOK
<1>. QED  BY <1>1, <1>2

LEMMA NextType == TypeOK /\ [Next]_vars => TypeOK'
<1>. SUFFICES ASSUME TypeOK, [Next]_vars PROVE TypeOK'
  OBVIOUS
<1>. USE QueueAssumption DEF processVars, queueVars, historyVars
<1>1. ASSUME NEW d \in Delivery, Filter(d) PROVE TypeOK'
  BY <1>1 DEF Filter, Receive, TypeOK
<1>2. ASSUME NEW d \in Delivery, Accept(d) PROVE TypeOK'
  <2>1. _seen_order' \in Seq(Qualifying) /\ _seen' \subseteq Qualifying
    BY <1>2, RememberType DEF Accept, enqueue
  <2>2. _queue' \in Seq(PromptInfo)
    <3>1. Len(accepted) + 1 \in Nat \ {0}
      BY LenProperties DEF TypeOK
    <3>2. [id |-> Len(accepted) + 1, delivery_id |-> d] \in PromptInfo
      BY <3>1 DEF PromptInfo
    <3>. QED  BY <1>2, <3>2, AppendProperties DEF Accept, enqueue, Put, TypeOK
  <2>3. accepted' \in Seq(Qualifying)
    BY <1>2, AppendProperties DEF Accept, enqueue, TypeOK
  <2>4. outcome' \in [Delivery -> Outcome]
    BY <1>2 DEF Accept, TypeOK, Outcome
  <2>5. sends' \in [Delivery -> 0..MaxSends]
    BY <1>2 DEF Accept, Receive, TypeOK
  <2>. QED  BY <1>2, <2>1, <2>2, <2>3, <2>4, <2>5 DEF Accept, Receive, TypeOK
<1>3. ASSUME NEW d \in Delivery, Duplicate(d) PROVE TypeOK'
  BY <1>3 DEF Duplicate, Receive, TypeOK
<1>4. CASE Take
  BY <1>4, TailElements DEF Take, TypeOK
<1>5. ASSUME NEW ok \in BOOLEAN, Consume(ok) PROVE TypeOK'
  <2>1. consumed' \in Seq([id : Nat \ {0}, ok : BOOLEAN])
    <3>1. [id |-> info.id, ok |-> ok] \in [id : Nat \ {0}, ok : BOOLEAN]
      BY <1>5 DEF Consume, PromptInfo
    <3>. QED  BY <1>5, <3>1, AppendProperties DEF Consume, TypeOK
  <2>2. outcome' \in [Delivery -> Outcome]
    BY <1>5 DEF Consume, TypeOK, Outcome
  <2>. QED  BY <1>5, <2>1, <2>2 DEF Consume, Loop, TypeOK
<1>6. CASE Stop
  BY <1>6, EmptySeq DEF Stop, LoseRegistry, TypeOK, Outcome
<1>7. CASE Boot
  BY <1>7 DEF Boot, TypeOK
<1>8. CASE UNCHANGED vars
  BY <1>8 DEF vars, TypeOK
<1>. QED
  BY <1>1, <1>2, <1>3, <1>4, <1>5, <1>6, <1>7, <1>8 DEF Next

(* Every variable of the queue keeps its type: PromptQueue.__init__,       *)
(* enqueue and consume, across any sequence of deliveries and restarts.    *)
THEOREM TypeCorrect == Spec => []TypeOK
<1>1. Init => TypeOK
  BY InitType
<1>2. TypeOK /\ [Next]_vars => TypeOK'
  BY NextType
<1>. QED  BY <1>1, <1>2, PTL DEF Spec

------------------------------------------------------------------------------
(* The registry and the window *)

LEMMA EvictOldest ==
  ASSUME TypeOK, Full
  PROVE  /\ _seen_order # <<>>
         /\ Tail(_seen_order) \in Seq(Qualifying)
         /\ Head(_seen_order) = _seen_order[1]
         /\ Len(Tail(_seen_order)) = dedup_capacity - 1
         /\ \A k \in 1 .. dedup_capacity - 1 : Tail(_seen_order)[k] = _seen_order[k + 1]
<1>1. _seen_order # <<>>
  BY QueueAssumption, EmptySeq DEF Full
<1>. QED  BY <1>1, TailElements DEF TypeOK, Full

(* What one accepted id does to the registry and the history, spelled out. *)
LEMMA RememberElements ==
  ASSUME TypeOK, RegistryIsWindow, NEW d \in Qualifying, enqueue(d),
         NEW N, N = Len(accepted), NEW M, M = Len(_seen_order)
  PROVE  /\ N \in Nat /\ M \in Nat
         /\ Full => M = dedup_capacity /\ N >= dedup_capacity
         /\ ~Full => M = N /\ N < dedup_capacity
         /\ Len(accepted') = N + 1
         /\ \A i \in 1 .. N : accepted'[i] = accepted[i]
         /\ accepted'[N + 1] = d
         /\ Full => /\ Len(_seen_order') = M
                    /\ \A k \in 1 .. M - 1 : _seen_order'[k] = _seen_order[k + 1]
                    /\ _seen_order'[M] = d
         /\ ~Full => /\ Len(_seen_order') = M + 1
                     /\ \A k \in 1 .. M : _seen_order'[k] = _seen_order[k]
                     /\ _seen_order'[M + 1] = d
         /\ DOMAIN accepted = 1 .. N
         /\ DOMAIN accepted' = 1 .. N + 1
         /\ DOMAIN _seen_order = 1 .. M
         /\ DOMAIN _seen_order' = 1 .. Len(_seen_order')
<1>1. /\ N \in Nat /\ M \in Nat
      /\ DOMAIN accepted = 1 .. N
      /\ DOMAIN _seen_order = 1 .. M
  BY LenProperties DEF TypeOK
<1>2. /\ Full => M = dedup_capacity /\ N >= dedup_capacity
      /\ ~Full => M = N /\ N < dedup_capacity
  BY <1>1, QueueAssumption DEF Full, RegistryIsWindow
<1>3. /\ accepted' \in Seq(Qualifying)
      /\ Len(accepted') = N + 1
      /\ \A i \in 1 .. N : accepted'[i] = accepted[i]
      /\ accepted'[N + 1] = d
  BY AppendElements DEF enqueue, TypeOK
<1>4. ASSUME Full
      PROVE  /\ _seen_order' \in Seq(Qualifying)
             /\ Len(_seen_order') = M
             /\ \A k \in 1 .. M - 1 : _seen_order'[k] = _seen_order[k + 1]
             /\ _seen_order'[M] = d
  <2>1. _seen_order' = Append(Tail(_seen_order), d)
    BY <1>4 DEF enqueue, Remember
  <2>2. Len(Tail(_seen_order)) = M - 1
    BY <1>2, <1>4, EvictOldest
  <2>. QED  BY <1>1, <1>2, <1>4, <2>1, <2>2, EvictOldest, AppendElements
<1>5. ASSUME ~Full
      PROVE  /\ _seen_order' \in Seq(Qualifying)
             /\ Len(_seen_order') = M + 1
             /\ \A k \in 1 .. M : _seen_order'[k] = _seen_order[k]
             /\ _seen_order'[M + 1] = d
  BY <1>5, AppendElements DEF enqueue, Remember, TypeOK
<1>. QED  BY <1>1, <1>2, <1>3, <1>4, <1>5, LenProperties

LEMMA EnqueueKeepsWindow ==
  ASSUME TypeOK, RegistryIsWindow, DedupWindow, NEW d \in Qualifying, enqueue(d)
  PROVE  RegistryIsWindow' /\ DedupWindow'
<1>. DEFINE N == Len(accepted)
            M == Len(_seen_order)
            C == dedup_capacity
<1>1. C \in Nat \ {0}
  BY QueueAssumption
<1>2. /\ N \in Nat /\ M \in Nat
      /\ Full => M = C /\ N >= C
      /\ ~Full => M = N /\ N < C
  BY RememberElements
<1>3. /\ Len(accepted') = N + 1
      /\ \A i \in 1 .. N : accepted'[i] = accepted[i]
      /\ accepted'[N + 1] = d
  BY RememberElements
<1>4. ASSUME Full
      PROVE  /\ Len(_seen_order') = M
             /\ \A k \in 1 .. M - 1 : _seen_order'[k] = _seen_order[k + 1]
             /\ _seen_order'[M] = d
  BY <1>4, RememberElements
<1>5. ASSUME ~Full
      PROVE  /\ Len(_seen_order') = M + 1
             /\ \A k \in 1 .. M : _seen_order'[k] = _seen_order[k]
             /\ _seen_order'[M + 1] = d
  BY <1>5, RememberElements
<1>6. /\ DOMAIN accepted = 1 .. N
      /\ DOMAIN accepted' = 1 .. N + 1
      /\ DOMAIN _seen_order = 1 .. M
      /\ DOMAIN _seen_order' = 1 .. Len(_seen_order')
  BY RememberElements
<1>7. \A k \in 1 .. M : _seen_order[k] = accepted[N - M + k]
  BY <1>6 DEF RegistryIsWindow
<1>8. \A i, j \in 1 .. N : i < j /\ j - i <= C => accepted[i] # accepted[j]
  BY <1>6 DEF DedupWindow
<1>9. _seen = { _seen_order[k] : k \in 1 .. M }
  BY <1>6 DEF RegistryIsWindow, Registry
<1>10. d \notin _seen
  BY DEF enqueue
<1>11. Registry' = { _seen_order'[k] : k \in 1 .. Len(_seen_order') }
  BY <1>6 DEF Registry
<1>. HIDE DEF N, M, C
<1>12. Len(_seen_order') = IF Len(accepted') < C THEN Len(accepted') ELSE C
  <2>1. CASE Full
    <3>1. Len(accepted') = N + 1 /\ N + 1 > C /\ Len(_seen_order') = C
      BY <1>1, <1>2, <1>3, <1>4, <2>1
    <3>. QED  BY <1>1, <1>2, <3>1
  <2>2. CASE ~Full
    <3>1. Len(accepted') = N + 1 /\ N + 1 <= C /\ Len(_seen_order') = N + 1
      BY <1>1, <1>2, <1>3, <1>5, <2>2
    <3>. QED  BY <1>1, <1>2, <3>1
  <2>. QED  BY <2>1, <2>2
<1>13. \A k \in 1 .. Len(_seen_order') :
         _seen_order'[k] = accepted'[Len(accepted') - Len(_seen_order') + k]
  <2>1. CASE Full
    <3>1. ASSUME NEW k \in 1 .. M - 1
          PROVE  _seen_order'[k] = accepted'[N + 1 - M + k]
      <4>1. /\ k + 1 \in 1 .. M
            /\ N - M + (k + 1) = N + 1 - M + k
            /\ N + 1 - M + k \in 1 .. N
        BY <1>1, <1>2, <2>1
      <4>. QED  BY <1>3, <1>4, <1>7, <2>1, <4>1
    <3>2. _seen_order'[M] = accepted'[N + 1 - M + M]
      <4>1. N + 1 - M + M = N + 1
        BY <1>2
      <4>. QED  BY <1>3, <1>4, <2>1, <4>1
    <3>3. Len(accepted') - Len(_seen_order') = N + 1 - M /\ Len(_seen_order') = M
      <4>1. Len(accepted') = N + 1 /\ Len(_seen_order') = M
        BY <1>3, <1>4, <2>1
      <4>. QED  BY <1>2, <4>1
    <3>. QED  BY <1>2, <3>1, <3>2, <3>3
  <2>2. CASE ~Full
    <3>1. Len(_seen_order') = N + 1 /\ Len(accepted') - Len(_seen_order') = 0
      BY <1>2, <1>3, <1>5, <2>2
    <3>2. ASSUME NEW k \in 1 .. N
          PROVE  _seen_order'[k] = accepted'[k]
      <4>1. N - M + k = k /\ k \in 1 .. M
        BY <1>2, <2>2
      <4>. QED  BY <1>3, <1>5, <1>7, <2>2, <4>1
    <3>3. _seen_order'[N + 1] = accepted'[N + 1]
      BY <1>2, <1>3, <1>5, <2>2
    <3>. QED  BY <1>2, <3>1, <3>2, <3>3
  <2>. QED  BY <2>1, <2>2
<1>14. _seen' = Registry'
  <2>1. CASE Full
    <3>1. \A k \in 2 .. M : _seen_order[k] # _seen_order[1]
      BY <1>1, <1>2, <1>7, <1>8, <2>1
    <3>2. _seen' = (_seen \ {_seen_order[1]}) \cup {d}
      BY <2>1, EvictOldest DEF enqueue, Remember, Evicted
    <3>3. _seen \ {_seen_order[1]} = { _seen_order[k] : k \in 2 .. M }
      <4>1. 1 .. M = {1} \cup 2 .. M
        BY <1>1, <1>2, <2>1
      <4>. QED  BY <1>9, <3>1, <4>1
    <3>4. Registry' = { _seen_order'[k] : k \in 1 .. M - 1 } \cup {d}
      <4>1. 1 .. Len(_seen_order') = (1 .. M - 1) \cup {M}
        BY <1>1, <1>2, <1>4, <2>1
      <4>2. _seen_order'[M] = d
        BY <1>4, <2>1
      <4>. QED  BY <1>11, <4>1, <4>2
    <3>5. { _seen_order'[k] : k \in 1 .. M - 1 } = { _seen_order[k] : k \in 2 .. M }
      <4>1. \A k \in 2 .. M : k - 1 \in 1 .. M - 1 /\ _seen_order'[k - 1] = _seen_order[k]
        BY <1>2, <1>4, <2>1
      <4>2. \A k \in 1 .. M - 1 : k + 1 \in 2 .. M /\ _seen_order'[k] = _seen_order[k + 1]
        BY <1>2, <1>4, <2>1
      <4>. QED  BY <4>1, <4>2
    <3>. QED  BY <3>2, <3>3, <3>4, <3>5
  <2>2. CASE ~Full
    <3>1. _seen' = _seen \cup {d}
      BY <2>2 DEF enqueue, Remember, Evicted
    <3>2. 1 .. Len(_seen_order') = (1 .. M) \cup {M + 1}
      BY <1>2, <1>5, <2>2
    <3>3. Registry' = { _seen_order[k] : k \in 1 .. M } \cup {d}
      BY <1>5, <1>11, <2>2, <3>2
    <3>. QED  BY <1>9, <3>1, <3>3
  <2>. QED  BY <2>1, <2>2
<1>15. ASSUME NEW i \in 1 .. N, N + 1 - i <= C
       PROVE  accepted[i] # d
  <2>. DEFINE k == i - (N - M)
  <2>1. k \in 1 .. M /\ N - M + k = i
    <3>1. CASE Full
      BY <1>1, <1>2, <1>15, <3>1
    <3>2. CASE ~Full
      BY <1>1, <1>2, <1>15, <3>2
    <3>. QED  BY <3>1, <3>2
  <2>. HIDE DEF k
  <2>2. accepted[i] = _seen_order[k]
    BY <1>7, <2>1
  <2>. QED  BY <1>9, <1>10, <2>1, <2>2
<1>16. ASSUME NEW i \in 1 .. N + 1, NEW j \in 1 .. N + 1, i < j, j - i <= C
       PROVE  accepted'[i] # accepted'[j]
  <2>1. i \in 1 .. N
    BY <1>2, <1>16
  <2>2. accepted'[i] = accepted[i]
    BY <1>3, <2>1
  <2>3. CASE j = N + 1
    <3>1. accepted'[j] = d
      BY <1>3, <2>3
    <3>2. N + 1 - i <= C
      BY <1>2, <1>16, <2>3
    <3>. QED  BY <1>15, <2>1, <2>2, <3>1, <3>2
  <2>4. CASE j # N + 1
    <3>1. j \in 1 .. N
      BY <1>2, <2>4
    <3>2. accepted'[j] = accepted[j]
      BY <1>3, <3>1
    <3>. QED  BY <1>8, <1>16, <2>1, <2>2, <3>1, <3>2
  <2>. QED  BY <2>3, <2>4
<1>17. RegistryIsWindow'
  BY <1>6, <1>12, <1>13, <1>14 DEF RegistryIsWindow, C
<1>18. DedupWindow'
  BY <1>6, <1>16 DEF DedupWindow, C
<1>. QED  BY <1>17, <1>18

------------------------------------------------------------------------------
(* Order of execution *)

LEMMA FifoElements ==
  ASSUME TypeOK
  PROVE  /\ Len(accepted) \in Nat /\ Len(_queue) \in Nat /\ Len(consumed) \in Nat
         /\ DOMAIN _queue = 1 .. Len(_queue)
         /\ DOMAIN consumed = 1 .. Len(consumed)
  BY LenProperties DEF TypeOK

LEMMA AcceptKeepsOrder ==
  ASSUME TypeOK, TypeOK', FirstInFirstOut, NEW d \in Delivery, Accept(d)
  PROVE  FirstInFirstOut'
<1>. DEFINE N == Len(accepted)
            Q == Len(_queue)
            e == [id |-> N + 1, delivery_id |-> d]
<1>1. /\ N \in Nat /\ Q \in Nat
      /\ DOMAIN _queue = 1 .. Q /\ DOMAIN _queue' = 1 .. Len(_queue')
  BY FifoElements, LenProperties DEF TypeOK
<1>2. e \in PromptInfo
  BY <1>1 DEF PromptInfo
<1>3. /\ Len(_queue') = Q + 1
      /\ \A k \in 1 .. Q : _queue'[k] = _queue[k]
      /\ _queue'[Q + 1] = e
  BY <1>2, AppendElements DEF Accept, enqueue, Put, TypeOK
<1>4. /\ Len(accepted') = N + 1
      /\ \A k \in 1 .. N : accepted'[k] = accepted[k]
      /\ accepted'[N + 1] = d
  BY AppendElements DEF Accept, enqueue, TypeOK
<1>. DEFINE begun == N - Q
<1>5. UNCHANGED <<info, consumed>>
  BY DEF Accept, Receive
<1>. HIDE DEF N, Q
<1>6. /\ \A k \in DOMAIN consumed : consumed[k].id = k
      /\ Len(consumed) = IF info = NoPrompt THEN begun ELSE begun - 1
      /\ info # NoPrompt => info.id = begun /\ info.delivery_id = accepted[begun]
      /\ \A k \in 1 .. Q :
           _queue[k] = [id |-> begun + k, delivery_id |-> accepted[begun + k]]
  BY <1>1 DEF FirstInFirstOut, N, Q
<1>7. begun \in Nat /\ begun <= N /\ (info # NoPrompt => begun \in 1 .. N)
  <2>1. Len(consumed) \in Nat
    BY FifoElements
  <2>. QED  BY <1>1, <1>6, <2>1
<1>8. Len(accepted') - Len(_queue') = begun
  BY <1>1, <1>3, <1>4
<1>9. ASSUME NEW k \in 1 .. Q + 1
      PROVE  _queue'[k] = [id |-> begun + k, delivery_id |-> accepted'[begun + k]]
  <2>1. CASE k = Q + 1
    <3>1. begun + k = N + 1
      BY <1>1, <2>1
    <3>. QED  BY <1>3, <1>4, <2>1, <3>1 DEF N
  <2>2. CASE k # Q + 1
    <3>1. k \in 1 .. Q /\ begun + k \in 1 .. N
      BY <1>1, <1>7, <2>2
    <3>. QED  BY <1>3, <1>4, <1>6, <3>1
  <2>. QED  BY <2>1, <2>2
<1>10. info # NoPrompt => accepted'[begun] = accepted[begun]
  BY <1>4, <1>7
<1>. QED
  BY <1>1, <1>3, <1>5, <1>6, <1>8, <1>9, <1>10 DEF FirstInFirstOut

LEMMA TakeKeepsOrder ==
  ASSUME TypeOK, TypeOK', FirstInFirstOut, Take
  PROVE  FirstInFirstOut'
<1>. DEFINE N == Len(accepted)
            Q == Len(_queue)
            begun == N - Q
<1>1. /\ N \in Nat /\ Q \in Nat \ {0}
      /\ DOMAIN _queue = 1 .. Q /\ DOMAIN _queue' = 1 .. Len(_queue')
  BY FifoElements, TailElements, LenProperties DEF TypeOK, Take
<1>2. /\ Len(_queue') = Q - 1
      /\ \A k \in 1 .. Q - 1 : _queue'[k] = _queue[k + 1]
      /\ info' = _queue[1]
  BY TailElements DEF Take, TypeOK
<1>. HIDE DEF N, Q
<1>3. /\ \A k \in DOMAIN consumed : consumed[k].id = k
      /\ Len(consumed) = begun
      /\ \A k \in 1 .. Q :
           _queue[k] = [id |-> begun + k, delivery_id |-> accepted[begun + k]]
  BY <1>1 DEF FirstInFirstOut, N, Q, Take
<1>4. UNCHANGED <<accepted, consumed>>
  BY DEF Take, historyVars
<1>5. Len(accepted') - Len(_queue') = begun + 1
  BY <1>1, <1>2, <1>4 DEF N
<1>6. info' = [id |-> begun + 1, delivery_id |-> accepted[begun + 1]]
  BY <1>1, <1>2, <1>3
<1>7. info' # NoPrompt
  <2>1. info' \in PromptInfo
    BY TailElements DEF Take, TypeOK
  <2>2. info'.id # 0
    BY <2>1 DEF PromptInfo
  <2>. QED  BY <2>2 DEF NoPrompt
<1>8. ASSUME NEW k \in 1 .. Q - 1
      PROVE  _queue'[k] = [id |-> begun + 1 + k, delivery_id |-> accepted[begun + 1 + k]]
  <2>1. k + 1 \in 1 .. Q /\ begun + (k + 1) = begun + 1 + k
    BY <1>1
  <2>. QED  BY <1>2, <1>3, <2>1
<1>9. begun \in Int /\ Len(consumed') = begun + 1 - 1
  BY <1>1, <1>3, <1>4
<1>10. DOMAIN _queue' = 1 .. Q - 1
  BY <1>1, <1>2
<1>. QED
  BY <1>3, <1>4, <1>5, <1>6, <1>7, <1>8, <1>9, <1>10 DEF FirstInFirstOut

LEMMA ConsumeKeepsOrder ==
  ASSUME TypeOK, TypeOK', FirstInFirstOut, NEW ok \in BOOLEAN, Consume(ok)
  PROVE  FirstInFirstOut'
<1>. DEFINE begun == Len(accepted) - Len(_queue)
            K == Len(consumed)
            r == [id |-> info.id, ok |-> ok]
<1>1. info # NoPrompt
  <2>1. info \in PromptInfo
    BY DEF Consume
  <2>2. info.id # 0
    BY <2>1 DEF PromptInfo
  <2>. QED  BY <2>2 DEF NoPrompt
<1>2. begun \in Int /\ K \in Nat /\ K = begun - 1 /\ info.id = begun
  BY <1>1, FifoElements DEF FirstInFirstOut
<1>3. r \in [id : Nat \ {0}, ok : BOOLEAN]
  BY DEF Consume, PromptInfo
<1>4. /\ Len(consumed') = K + 1
      /\ \A k \in 1 .. K : consumed'[k] = consumed[k]
      /\ consumed'[K + 1] = r
      /\ DOMAIN consumed = 1 .. K /\ DOMAIN consumed' = 1 .. K + 1
  BY <1>3, AppendElements, FifoElements, LenProperties DEF Consume, TypeOK
<1>5. ASSUME NEW k \in 1 .. K + 1
      PROVE  consumed'[k].id = k
  <2>1. CASE k = K + 1
    BY <1>2, <1>4, <2>1
  <2>2. CASE k # K + 1
    <3>1. k \in 1 .. K
      BY <1>2, <2>2
    <3>. QED  BY <1>4, <3>1 DEF FirstInFirstOut
  <2>. QED  BY <2>1, <2>2
<1>6. UNCHANGED <<accepted, _queue>> /\ info' = NoPrompt
  BY DEF Consume, Loop, queueVars
<1>. QED
  BY <1>2, <1>4, <1>5, <1>6 DEF FirstInFirstOut

------------------------------------------------------------------------------
(* The inductive invariant *)

LEMMA InitInvariant == Init => IInv
<1>. SUFFICES ASSUME Init PROVE IInv
  OBVIOUS
<1>1. TypeOK
  BY InitType
<1>2. /\ DOMAIN accepted = {} /\ DOMAIN _queue = {} /\ DOMAIN consumed = {}
      /\ DOMAIN _seen_order = {}
      /\ Len(accepted) = 0 /\ Len(_queue) = 0 /\ Len(consumed) = 0 /\ Len(_seen_order) = 0
  BY EmptySeq DEF Init
<1>3. RegistryIsWindow
  BY <1>2, QueueAssumption DEF Init, RegistryIsWindow, Registry
<1>4. DedupWindow
  BY <1>2 DEF DedupWindow
<1>5. FirstInFirstOut
  BY <1>2 DEF Init, FirstInFirstOut
<1>. QED  BY <1>1, <1>3, <1>4, <1>5 DEF Init, IInv, Ordered, SeenIsCurrent

LEMMA NextOrder == IInv /\ [Next]_vars => Ordered'
<1>. SUFFICES ASSUME IInv, [Next]_vars PROVE Ordered'
  OBVIOUS
<1>0. TypeOK /\ TypeOK' /\ RegistryIsWindow /\ DedupWindow /\ FirstInFirstOut
  BY NextType DEF IInv, Ordered
<1>1. ASSUME NEW d \in Delivery, Filter(d) \/ Duplicate(d) PROVE Ordered'
  <2>1. UNCHANGED <<_seen_order, _seen, _queue, accepted, info, consumed>>
    BY <1>1 DEF Filter, Duplicate, Receive, queueVars
  <2>2. RegistryIsWindow'
    BY <1>0, <2>1 DEF RegistryIsWindow, Registry
  <2>3. DedupWindow'
    BY <1>0, <2>1 DEF DedupWindow
  <2>4. FirstInFirstOut'
    BY <1>0, <2>1 DEF FirstInFirstOut
  <2>. QED  BY <2>2, <2>3, <2>4 DEF Ordered
<1>2. ASSUME NEW d \in Delivery, Accept(d) PROVE Ordered'
  <2>1. RegistryIsWindow' /\ DedupWindow'
    BY <1>0, <1>2, EnqueueKeepsWindow DEF Accept
  <2>. QED  BY <1>0, <1>2, <2>1, AcceptKeepsOrder DEF Ordered
<1>3. CASE Take
  <2>1. RegistryIsWindow' /\ DedupWindow'
    BY <1>0, <1>3 DEF Take, RegistryIsWindow, Registry, DedupWindow
  <2>. QED  BY <1>0, <1>3, <2>1, TakeKeepsOrder DEF Ordered
<1>4. ASSUME NEW ok \in BOOLEAN, Consume(ok) PROVE Ordered'
  <2>1. RegistryIsWindow' /\ DedupWindow'
    BY <1>0, <1>4 DEF Consume, queueVars, RegistryIsWindow, Registry, DedupWindow
  <2>. QED  BY <1>0, <1>4, <2>1, ConsumeKeepsOrder DEF Ordered
<1>5. CASE Stop
  <2>1. /\ DOMAIN accepted' = {} /\ DOMAIN _queue' = {} /\ DOMAIN consumed' = {}
        /\ DOMAIN _seen_order' = {}
        /\ Len(accepted') = 0 /\ Len(_queue') = 0 /\ Len(consumed') = 0
        /\ Len(_seen_order') = 0
    BY <1>5, EmptySeq DEF Stop, LoseRegistry
  <2>2. RegistryIsWindow'
    BY <1>5, <2>1, QueueAssumption DEF Stop, LoseRegistry, RegistryIsWindow, Registry
  <2>3. DedupWindow'
    BY <2>1 DEF DedupWindow
  <2>4. FirstInFirstOut'
    BY <1>5, <2>1 DEF Stop, FirstInFirstOut
  <2>. QED  BY <2>2, <2>3, <2>4 DEF Ordered
<1>6. CASE Boot
  BY <1>0, <1>6 DEF Boot, queueVars, historyVars, Ordered, RegistryIsWindow, Registry,
                    DedupWindow, FirstInFirstOut
<1>7. CASE UNCHANGED vars
  BY <1>0, <1>7 DEF vars, Ordered, RegistryIsWindow, Registry, DedupWindow, FirstInFirstOut
<1>. QED
  BY <1>1, <1>2, <1>3, <1>4, <1>5, <1>6, <1>7 DEF Next

LEMMA NextSeen == IInv /\ [Next]_vars => SeenIsCurrent'
<1>. SUFFICES ASSUME IInv, [Next]_vars PROVE SeenIsCurrent'
  OBVIOUS
<1>. USE DEF SeenIsCurrent
<1>0. TypeOK /\ SeenIsCurrent /\ _seen \subseteq Delivery
  BY QueueAssumption DEF IInv, TypeOK
<1>1. ASSUME NEW d \in Delivery, Filter(d) \/ Duplicate(d) PROVE SeenIsCurrent'
  BY <1>0, <1>1 DEF Filter, Duplicate, queueVars
<1>2. ASSUME NEW d \in Delivery, Accept(d) PROVE SeenIsCurrent'
  <2>1. _seen' \subseteq _seen \cup {d}
    BY <1>2 DEF Accept, enqueue, Remember
  <2>2. outcome' = [outcome EXCEPT ![d] = "queued"]
    BY <1>2 DEF Accept
  <2>. QED  BY <1>0, <2>1, <2>2 DEF TypeOK
<1>3. CASE Take
  BY <1>0, <1>3 DEF Take, historyVars
<1>4. ASSUME NEW ok \in BOOLEAN, Consume(ok) PROVE SeenIsCurrent'
  BY <1>0, <1>4 DEF Consume, queueVars, TypeOK
<1>5. CASE Stop
  BY <1>5 DEF Stop, LoseRegistry
<1>6. CASE Boot
  BY <1>0, <1>6 DEF Boot, queueVars, historyVars
<1>7. CASE UNCHANGED vars
  BY <1>0, <1>7 DEF vars
<1>. QED
  BY <1>1, <1>2, <1>3, <1>4, <1>5, <1>6, <1>7 DEF Next

LEMMA Invariant == Spec => []IInv
<1>1. Init => IInv
  BY InitInvariant
<1>2. IInv /\ [Next]_vars => IInv'
  BY NextType, NextOrder, NextSeen DEF IInv
<1>. QED  BY <1>1, <1>2, PTL DEF Spec

------------------------------------------------------------------------------
(* What the queue promises *)

(* However many deliveries arrive and however often, enqueue refuses one   *)
(* exactly while it is among the last dedup_capacity accepted: the set and *)
(* the bounded deque never disagree and evict neither early nor late.      *)
THEOREM RefusalIsExact == Spec => []RefusedExactlyInWindow
<1>1. IInv => RefusedExactlyInWindow
  BY DEF IInv, Ordered, RefusedExactlyInWindow
<1>. QED  BY <1>1, Invariant, PTL

(* Envelopes are executed in the order accepted, each exactly once, none   *)
(* lost or duplicated between enqueue and consume.                         *)
THEOREM ExecutedInOrder == Spec => []FirstInFirstOut
<1>1. IInv => FirstInFirstOut
  BY DEF IInv, Ordered
<1>. QED  BY <1>1, Invariant, PTL

(* A delivery whose envelope was dropped with its process is never answered *)
(* webhook_duplicate by the next one.                                       *)
THEOREM LostIsNotDuplicate == Spec => LostEnvelopeRecovers
<1>1. IInv /\ [Next]_vars =>
        [\A d \in Delivery : Duplicate(d) => outcome[d] \in {"queued", "ok", "failed"}]_vars
  BY DEF IInv, SeenIsCurrent, Duplicate
<1>. QED  BY <1>1, Invariant, PTL DEF Spec, LostEnvelopeRecovers

------------------------------------------------------------------------------
(* Refinement *)

LEMMA WindowIsSeen ==
  ASSUME IInv
  PROVE  Log!Recent \subseteq _seen
<1>1. TypeOK /\ RegistryIsWindow
  BY DEF IInv, Ordered
<1>. DEFINE N == Len(accepted)
            M == Len(_seen_order)
<1>2. /\ N \in Nat /\ M \in Nat /\ dedup_capacity \in Nat
      /\ DOMAIN accepted = 1 .. N /\ DOMAIN _seen_order = 1 .. M
      /\ M = IF N < dedup_capacity THEN N ELSE dedup_capacity
  BY <1>1, QueueAssumption, LenProperties DEF TypeOK, RegistryIsWindow
<1>. SUFFICES ASSUME NEW i \in 1 .. N, i > N - dedup_capacity
              PROVE  accepted[i] \in _seen
  BY <1>2 DEF Log!Recent
<1>. HIDE DEF N, M
<1>3. i - (N - M) \in 1 .. M /\ N - M + (i - (N - M)) = i
  BY <1>2
<1>4. _seen_order[i - (N - M)] = accepted[N - M + (i - (N - M))]
  BY <1>1, <1>2, <1>3 DEF RegistryIsWindow, N, M
<1>. QED  BY <1>1, <1>2, <1>3, <1>4 DEF RegistryIsWindow, Registry

LEMMA StepRefines == IInv /\ [Next]_vars => [Log!Next]_(Log!vars)
<1>. SUFFICES ASSUME IInv, [Next]_vars PROVE Log!Next \/ UNCHANGED Log!vars
  OBVIOUS
<1>. USE DEF Log!vars
<1>0. TypeOK /\ FirstInFirstOut /\ Len(accepted) \in Nat /\ Len(_queue) \in Nat
  BY FifoElements DEF IInv, Ordered
<1>1. ASSUME NEW d \in Delivery, Filter(d) \/ Duplicate(d) PROVE UNCHANGED Log!vars
  BY <1>1 DEF Filter, Duplicate, Receive, queueVars
<1>2. ASSUME NEW d \in Delivery, Accept(d) PROVE Log!Accept(d)
  <2>1. d \notin Log!Recent
    BY <1>2, WindowIsSeen DEF Accept, enqueue
  <2>2. accepted' = Append(accepted, d) /\ info' = info
    BY <1>2 DEF Accept, enqueue, Receive
  <2>3. Len(accepted') = Len(accepted) + 1
    BY <1>0, <1>2, <2>2, AppendElements DEF TypeOK, Accept
  <2>4. [id |-> Len(accepted) + 1, delivery_id |-> d] \in PromptInfo
    BY <1>0 DEF PromptInfo
  <2>5. Len(_queue') = Len(_queue) + 1
    BY <1>0, <1>2, <2>4, AppendElements DEF Accept, enqueue, Put, TypeOK
  <2>6. Len(accepted') - Len(_queue') = Len(accepted) - Len(_queue)
    BY <1>0, <2>3, <2>5
  <2>. QED  BY <2>1, <2>2, <2>6 DEF Log!Accept
<1>3. CASE Take
  <2>. DEFINE begun == Len(accepted) - Len(_queue)
  <2>1. /\ Len(_queue) \in Nat \ {0}
        /\ Len(_queue') = Len(_queue) - 1
        /\ info' = _queue[1]
        /\ info' \in PromptInfo
        /\ DOMAIN _queue = 1 .. Len(_queue)
        /\ accepted' = accepted
    BY <1>0, <1>3, TailElements, FifoElements DEF Take, TypeOK
  <2>2. Len(accepted') - Len(_queue') = begun + 1
    BY <1>0, <2>1
  <2>3. info'.delivery_id = accepted[begun + 1]
    <3>1. _queue[1] = [id |-> begun + 1, delivery_id |-> accepted[begun + 1]]
      BY <1>0, <2>1 DEF FirstInFirstOut
    <3>. QED  BY <2>1, <3>1
  <2>4. info' # NoPrompt
    <3>1. info'.id # 0
      BY <2>1 DEF PromptInfo
    <3>. QED  BY <3>1 DEF NoPrompt
  <2>5. begun < Len(accepted)
    BY <1>0, <2>1
  <2>6. info = NoPrompt
    BY <1>3 DEF Take
  <2>. QED  BY <2>1, <2>2, <2>3, <2>4, <2>5, <2>6 DEF Log!Next, Log!Start
<1>4. ASSUME NEW ok \in BOOLEAN, Consume(ok) PROVE Log!End
  <2>1. info # NoPrompt
    <3>1. info \in PromptInfo
      BY <1>4 DEF Consume
    <3>2. info.id # 0
      BY <3>1 DEF PromptInfo
    <3>. QED  BY <3>2 DEF NoPrompt
  <2>2. info' = NoPrompt /\ UNCHANGED <<accepted, _queue>>
    BY <1>4 DEF Consume, Loop, queueVars
  <2>. QED  BY <2>1, <2>2 DEF Log!End
<1>5. CASE Stop
  <2>1. accepted' = <<>> /\ info' = NoPrompt /\ Len(accepted') = 0 /\ Len(_queue') = 0
    BY <1>5, EmptySeq DEF Stop
  <2>. QED  BY <2>1 DEF Log!Next, Log!Forget
<1>6. CASE Boot \/ UNCHANGED vars
  BY <1>6 DEF Boot, queueVars, vars
<1>. QED
  BY <1>1, <1>2, <1>3, <1>4, <1>5, <1>6 DEF Next, Log!Next

(* The listener's queue implements the dispatch log: registry and queue    *)
(* together behave as one append-only log executed in order.               *)
THEOREM QueueRefinesLog == Spec => ImplementsDispatchLog
<1>1. Init => Log!Init
  BY EmptySeq DEF Init, Log!Init
<1>2. IInv /\ [Next]_vars => [Log!Next]_(Log!vars)
  BY StepRefines
<1>. QED  BY <1>1, <1>2, Invariant, PTL DEF Spec, ImplementsDispatchLog, Log!Spec

==============================================================================

----------------------- MODULE ReconcileQueueProofs -----------------------
(***************************************************************************)
(* Proofs about ReconcileQueue, for any bindings, objects, strategies and  *)
(* number of events.                                                       *)
(***************************************************************************)
EXTENDS ReconcileQueue, SequenceTheorems, TLAPS

Number == 1..Len(event)

\* A queue holds events of its own key, oldest first.
QueueContents ==
  \A k \in Key : \A i \in 1..Len(queue[k]) :
    IsQueued(queue[k][i]) /\ KeyOf(queue[k][i]) = k
QueueSorted ==
  \A k \in Key : \A i, j \in 1..Len(queue[k]) : i < j => queue[k][i] < queue[k][j]

\* An event that waits is in its queue.
WaitingIsQueued ==
  \A n \in Number : status[n] = "waiting" =>
    IsQueued(n) /\ \E i \in 1..Len(queue[KeyOf(n)]) : queue[KeyOf(n)][i] = n

\* The pending flag says whether a callback of the queue is running, and an
\* idle queue is empty.
BusyMeansRunning ==
  \A k \in Key :
    busy[k] <=> \E n \in Number : IsQueued(n) /\ KeyOf(n) = k /\ status[n] = "running"
IdleMeansEmpty == \A k \in Key : ~busy[k] => queue[k] = << >>

\* Events of one queue begin in order, each after all earlier ones are settled.
LaneOrder ==
  \A m, n \in Number :
    /\ m < n /\ IsQueued(m) /\ IsQueued(n) /\ KeyOf(m) = KeyOf(n)
    /\ status[n] # "waiting"
    => status[m] \in Settled

\* The inductive invariant. ObjectOrder alone is not inductive: that the head of
\* a queue may begin when the running callback ends takes the queue's contents,
\* their order and the meaning of the flag.
IInv ==
  /\ TypeOK
  /\ QueueContents
  /\ QueueSorted
  /\ WaitingIsQueued
  /\ BusyMeansRunning
  /\ IdleMeansEmpty
  /\ LaneOrder

\* What TypeOK says of single events and of single places of a queue.
LEMMA TypeFacts ==
  ASSUME TypeOK
  PROVE  /\ Len(event) \in Nat /\ DOMAIN event = Number /\ DOMAIN status = Number
         /\ \A n \in Number : event[n] \in Event /\ status[n] \in Status
         /\ \A k \in Key : queue[k] \in Seq(1..MaxEvents) /\ Len(queue[k]) \in Nat
         /\ \A k \in Key : \A i \in 1..Len(queue[k]) :
              queue[k][i] \in Number /\ status[queue[k][i]] = "waiting"
<1>1. /\ Len(event) \in Nat /\ DOMAIN event = Number /\ DOMAIN status = Number
      /\ \A n \in Number : event[n] \in Event /\ status[n] \in Status
  BY DEF TypeOK, Number
<1>2. \A k \in Key : queue[k] \in Seq(1..MaxEvents) /\ Len(queue[k]) \in Nat
  BY DEF TypeOK
<1>3. ASSUME NEW k \in Key, NEW i \in 1..Len(queue[k])
      PROVE  queue[k][i] \in Number /\ status[queue[k][i]] = "waiting"
  <2>1. queue[k][i] \in 1..MaxEvents
    BY <1>2, ElementOfSeq
  <2>2. queue[k][i] <= Len(event) /\ status[queue[k][i]] = "waiting"
    BY DEF TypeOK
  <2> QED BY <1>1, <2>1, <2>2, EventAssumption DEF Number
<1> QED BY <1>1, <1>2, <1>3

\* The key made from an event is a key.
LEMMA KeyInKey ==
  ASSUME TypeOK, NEW e \in Event
  PROVE  EventKey(e) \in Key
BY DEF TypeOK, Event, EventKey, queueKey, Key, DeliveredObject

\* So is the key of an event that has been delivered.
LEMMA KeyOfInKey ==
  ASSUME TypeOK, NEW n \in Number
  PROVE  KeyOf(n) \in Key
BY KeyInKey, TypeFacts DEF KeyOf

\* Events keep their binding and their key.
LEMMA EventsStay ==
  ASSUME TypeOK, UNCHANGED strategy,
         event' = event \/ \E e \in Event : event' = Append(event, e)
  PROVE  /\ Len(event') >= Len(event)
         /\ \A n \in Number : /\ event'[n] = event[n]
                              /\ IsQueued(n)' = IsQueued(n)
                              /\ KeyOf(n)' = KeyOf(n)
                              /\ KeyOf(n) \in Key
<1>1. Len(event') >= Len(event) /\ \A n \in Number : event'[n] = event[n]
  BY DEF TypeOK, Number
<1>2. ASSUME NEW n \in Number
      PROVE  IsQueued(n)' = IsQueued(n) /\ KeyOf(n)' = KeyOf(n)
  BY <1>1 DEF IsQueued, KeyOf, EventKey, queueKey
<1>3. \A n \in Number : KeyOf(n) \in Key
  BY KeyOfInKey
<1> QED BY <1>1, <1>2, <1>3

\* The invariant holds before the first event.
LEMMA InitIInv == Init => IInv
<1> SUFFICES ASSUME Init PROVE IInv
  OBVIOUS
<1>1. TypeOK
  BY EventAssumption DEF Init, TypeOK
<1> QED BY <1>1 DEF Init, IInv, QueueContents, QueueSorted, WaitingIsQueued,
             BusyMeansRunning, IdleMeansEmpty, LaneOrder, Number

\* What a handler does to the events that were there before.
LEMMA Arrival ==
  ASSUME TypeOK, NEW e \in Event, NEW st, Len(event) < MaxEvents,
         UNCHANGED strategy, event' = Append(event, e), st \in Status,
         status' = Append(status, st)
  PROVE  /\ event' \in Seq(Event) /\ Len(event') = Len(event) + 1
         /\ Len(event') <= MaxEvents
         /\ status' \in Seq(Status) /\ Len(status') = Len(event')
         /\ status'[Len(event) + 1] = st /\ event'[Len(event) + 1] = e
         /\ Number' = Number \cup {Len(event) + 1} /\ Len(event) + 1 \notin Number
         /\ \A n \in Number : status'[n] = status[n]
         /\ \A n \in Number : /\ IsQueued(n)' = IsQueued(n)
                              /\ KeyOf(n)' = KeyOf(n)
                              /\ KeyOf(n) \in Key
<1>1. /\ event' \in Seq(Event) /\ Len(event') = Len(event) + 1
      /\ event'[Len(event) + 1] = e
  BY DEF TypeOK
<1>2. Len(event') <= MaxEvents
  BY <1>1, EventAssumption DEF TypeOK
<1>3. /\ status' \in Seq(Status) /\ Len(status') = Len(event')
      /\ status'[Len(event) + 1] = st
      /\ \A n \in Number : status'[n] = status[n]
  BY <1>1 DEF TypeOK, Number
<1>4. Number' = Number \cup {Len(event) + 1} /\ Len(event) + 1 \notin Number
  BY <1>1, TypeFacts DEF Number
<1> QED BY <1>1, <1>2, <1>3, <1>4, EventsStay

\* A Watch binding's event takes no part in any queue.
LEMMA WatchIInv ==
  ASSUME IInv, NEW e \in Event, Watch(e)
  PROVE  IInv'
<1>t. TypeOK
  BY DEF IInv
<1>n. PICK N \in Nat : N = Len(event) + 1
  BY <1>t, TypeFacts
<1>1. /\ event' \in Seq(Event) /\ Len(event') <= MaxEvents
      /\ status' \in Seq(Status) /\ Len(status') = Len(event')
      /\ status'[N] = "running" /\ event'[N] = e
      /\ Number' = Number \cup {N} /\ N \notin Number
      /\ \A n \in Number : status'[n] = status[n]
      /\ \A n \in Number : /\ IsQueued(n)' = IsQueued(n)
                           /\ KeyOf(n)' = KeyOf(n)
                           /\ KeyOf(n) \in Key
  BY <1>n, <1>t, Arrival DEF Watch, Status
<1>2. UNCHANGED <<strategy, queue, busy>> /\ ~IsQueued(N)' /\ Len(event') >= Len(event)
  BY <1>1, <1>t, EventsStay DEF Watch, IsQueued
<1>3. Key' = Key
  OBVIOUS
<1>5. TypeOK'
  <2>1. strategy' \in Strategies /\ queue' \in [Key -> Seq(1..MaxEvents)]
        /\ busy' \in [Key -> BOOLEAN]
    BY <1>t, <1>2 DEF TypeOK
  <2>2. ASSUME NEW k \in Key, NEW i \in 1..Len(queue[k])
        PROVE  queue[k][i] <= Len(event') /\ status'[queue[k][i]] = "waiting"
    BY <1>t, <1>1, TypeFacts DEF Number
  <2> QED BY <2>1, <2>2, <1>1, <1>2 DEF TypeOK
<1>6. QueueContents' /\ QueueSorted'
  BY <1>1, <1>2, <1>t, TypeFacts DEF IInv, QueueContents, QueueSorted
<1>7. WaitingIsQueued'
  BY <1>1, <1>2 DEF IInv, WaitingIsQueued
<1>8. BusyMeansRunning'
  BY <1>1, <1>2 DEF IInv, BusyMeansRunning
<1>9. IdleMeansEmpty'
  BY <1>2 DEF IInv, IdleMeansEmpty
<1>10. LaneOrder'
  BY <1>1, <1>2 DEF IInv, LaneOrder
<1> QED BY <1>5, <1>6, <1>7, <1>8, <1>9, <1>10 DEF IInv

\* An arriving event waits if its queue is busy and begins if it is idle: an idle
\* queue is empty, so what #dequeue shifts is the event just pushed.
LEMMA EnqueueEffect ==
  ASSUME IInv, NEW e \in Event, Enqueue(e), NEW k \in Key, k = EventKey(e)
  PROVE  /\ busy[k] =>
              /\ queue' = [queue EXCEPT ![k] = Append(queue[k], Len(event) + 1)]
              /\ busy' = [busy EXCEPT ![k] = TRUE]
              /\ status' = Append(status, "waiting")
         /\ ~busy[k] =>
              /\ queue' = queue
              /\ busy' = [busy EXCEPT ![k] = TRUE]
              /\ status' = Append(status, "running")
<1>t. TypeOK
  BY DEF IInv
<1>n. PICK N \in Nat : N = Len(event) + 1
  BY <1>t, TypeFacts
<1>u. Dequeue(k, Append(queue[k], N), busy[k], Append(status, "waiting"))
  BY <1>n DEF Enqueue
<1>1. CASE busy[k]
  BY <1>1, <1>n, <1>u DEF Dequeue
<1>2. CASE ~busy[k]
  <2>1. queue[k] = << >>
    BY <1>2 DEF IInv, IdleMeansEmpty
  <2>2. /\ Append(queue[k], N) # << >> /\ Head(Append(queue[k], N)) = N
        /\ Tail(Append(queue[k], N)) = << >>
    BY <2>1
  <2>3. /\ queue' = [queue EXCEPT ![k] = << >>]
        /\ busy' = [busy EXCEPT ![k] = TRUE]
        /\ status' = [Append(status, "waiting") EXCEPT ![N] = "running"]
    BY <1>2, <1>u, <2>2 DEF Dequeue
  <2>4. queue' = queue
    BY <2>1, <2>3, <1>t DEF TypeOK
  <2>5. status' = Append(status, "running")
    <3> DEFINE old == Append(status, "waiting")
               new == Append(status, "running")
    <3>1. /\ old \in Seq(Status) /\ new \in Seq(Status)
          /\ Len(old) = N /\ Len(new) = N /\ new[N] = "running"
          /\ \A n \in 1..N : n # N => old[n] = new[n]
      BY <1>n, <1>t DEF TypeOK, Status
    <3>2. /\ status' \in Seq(Status) /\ Len(status') = N
          /\ \A n \in 1..N : status'[n] = IF n = N THEN "running" ELSE old[n]
      <4>1. status' = [old EXCEPT ![N] = "running"] /\ "running" \in Status
            /\ N \in 1..Len(old)
        BY <2>3, <3>1, <1>n DEF Status
      <4> HIDE DEF old
      <4> QED BY <4>1, <3>1, ExceptSeq
    <3> HIDE DEF old, new
    <3>3. status' = new
      BY <3>1, <3>2, SeqEqual
    <3> QED BY <3>3 DEF new
  <2> QED BY <1>2, <2>3, <2>4, <2>5
<1> QED BY <1>1, <1>2

\* A Reconcile binding's event joins its queue when the queue is busy, and
\* begins at once when it is not.
LEMMA EnqueueIInv ==
  ASSUME IInv, NEW e \in Event, Enqueue(e)
  PROVE  IInv'
<1>t. TypeOK
  BY DEF IInv
<1>n. PICK N \in Nat : N = Len(event) + 1
  BY <1>t, TypeFacts
<1>k. PICK k \in Key : k = EventKey(e)
  BY <1>t, KeyInKey
<1>u. /\ Len(event) < MaxEvents /\ UNCHANGED strategy /\ event' = Append(event, e)
      /\ e.binding \in Queued
  BY DEF Enqueue
<1>q. queue[k] \in Seq(1..MaxEvents) /\ Len(queue[k]) \in Nat /\ N \in 1..MaxEvents
  BY <1>t, <1>n, <1>u, TypeFacts, EventAssumption
<1>1. CASE busy[k]
  <2>1. /\ queue' = [queue EXCEPT ![k] = Append(queue[k], N)]
        /\ busy' = [busy EXCEPT ![k] = TRUE]
        /\ status' = Append(status, "waiting")
    BY <1>1, <1>n, <1>k, EnqueueEffect
  <2>2. /\ event' \in Seq(Event) /\ Len(event') <= MaxEvents /\ Len(event') = N
        /\ status' \in Seq(Status) /\ Len(status') = Len(event')
        /\ status'[N] = "waiting" /\ event'[N] = e
        /\ Number' = Number \cup {N} /\ N \notin Number
        /\ \A n \in Number : status'[n] = status[n]
        /\ \A n \in Number : /\ IsQueued(n)' = IsQueued(n)
                             /\ KeyOf(n)' = KeyOf(n)
                             /\ KeyOf(n) \in Key
    BY <2>1, <1>n, <1>t, <1>u, Arrival DEF Status
  <2>3. IsQueued(N)' /\ KeyOf(N)' = k
    BY <1>k, <1>u, <2>2 DEF IsQueued, KeyOf, EventKey, queueKey
  <2>4. busy' = busy
    BY <1>1, <1>t, <2>1 DEF TypeOK
  <2>5. /\ queue'[k] \in Seq(1..MaxEvents)
        /\ Len(queue'[k]) = Len(queue[k]) + 1
        /\ queue'[k][Len(queue[k]) + 1] = N
        /\ \A i \in 1..Len(queue[k]) : queue'[k][i] = queue[k][i]
        /\ \A j \in Key : j # k => queue'[j] = queue[j]
    BY <1>q, <1>t, <2>1 DEF TypeOK
  <2>6. \A i \in 1..Len(queue'[k]) : i \in 1..Len(queue[k]) \/ i = Len(queue[k]) + 1
    BY <2>5, <1>q
  <2>7. \A j \in Key : \A i \in 1..Len(queue[j]) :
          /\ queue[j][i] \in Number /\ status[queue[j][i]] = "waiting"
          /\ queue[j][i] \in Nat /\ queue[j][i] < N
    BY <1>t, <1>n, TypeFacts DEF Number
  <2>8. TypeOK'
    <3>1. strategy' \in Strategies /\ busy' \in [Key -> BOOLEAN]
      BY <1>t, <1>u, <2>4 DEF TypeOK
    <3>2. queue' \in [Key -> Seq(1..MaxEvents)]
      BY <1>t, <2>1, <2>5 DEF TypeOK
    <3>3. ASSUME NEW j \in Key, NEW i \in 1..Len(queue'[j])
          PROVE  queue'[j][i] <= Len(event') /\ status'[queue'[j][i]] = "waiting"
      <4>1. CASE j # k \/ i \in 1..Len(queue[k])
        <5>1. i \in 1..Len(queue[j]) /\ queue'[j][i] = queue[j][i]
          BY <4>1, <2>5
        <5>2. PICK n \in Number : n = queue[j][i] /\ status[n] = "waiting" /\ n \in Nat /\ n < N
          BY <5>1, <2>7
        <5>3. status'[n] = "waiting" /\ n <= Len(event')
          BY <5>2, <2>2, <1>n
        <5> QED BY <5>1, <5>2, <5>3
      <4>2. CASE j = k /\ i = Len(queue[k]) + 1
        BY <4>2, <2>2, <2>5
      <4> QED BY <4>1, <4>2, <2>6
    <3> QED BY <3>1, <3>2, <3>3, <2>2 DEF TypeOK
  <2>9. QueueContents'
    <3>1. ASSUME NEW j \in Key, NEW i \in 1..Len(queue'[j])
          PROVE  IsQueued(queue[j][i])' /\ KeyOf(queue[j][i])' = j
      <4>1. CASE j # k \/ i \in 1..Len(queue[k])
        <5>1. i \in 1..Len(queue[j]) /\ queue'[j][i] = queue[j][i]
          BY <4>1, <2>5
        <5>2. PICK n \in Number : n = queue[j][i] /\ IsQueued(n) /\ KeyOf(n) = j
          BY <5>1, <2>7 DEF IInv, QueueContents
        <5>3. IsQueued(n)' /\ KeyOf(n)' = j
          BY <5>2, <2>2
        <5> QED BY <5>1, <5>2, <5>3
      <4>2. CASE j = k /\ i = Len(queue[k]) + 1
        BY <4>2, <2>3, <2>5
      <4> QED BY <4>1, <4>2, <2>6
    <3> QED BY <3>1 DEF QueueContents
  <2>10. QueueSorted'
    <3>1. ASSUME NEW j \in Key, NEW a \in 1..Len(queue'[j]), NEW b \in 1..Len(queue'[j]), a < b
          PROVE  queue'[j][a] < queue'[j][b]
      <4>1. CASE j # k
        BY <3>1, <4>1, <2>5 DEF IInv, QueueSorted
      <4>2. CASE j = k
        <5>1. a \in 1..Len(queue[k]) /\ queue'[k][a] = queue[k][a]
          BY <3>1, <4>2, <1>q, <2>5, <2>6
        <5>2. CASE b \in 1..Len(queue[k])
          BY <3>1, <4>2, <5>1, <5>2, <2>5 DEF IInv, QueueSorted
        <5>3. CASE b = Len(queue[k]) + 1
          BY <4>2, <5>1, <5>3, <2>5, <2>7
        <5> QED BY <4>2, <5>2, <5>3, <2>6
      <4> QED BY <4>1, <4>2
    <3> QED BY <3>1 DEF QueueSorted
  <2>11. WaitingIsQueued'
    <3>1. ASSUME NEW n \in Number, status'[n] = "waiting"
          PROVE  IsQueued(n)' /\ \E i \in 1..Len(queue'[KeyOf(n)]) : queue'[KeyOf(n)][i] = n
      <4>1. PICK i \in 1..Len(queue[KeyOf(n)]) : IsQueued(n) /\ queue[KeyOf(n)][i] = n
        BY <2>2, <3>1 DEF IInv, WaitingIsQueued
      <4>2. PICK j \in Key : j = KeyOf(n) /\ KeyOf(n)' = j /\ IsQueued(n)'
        BY <4>1, <2>2
      <4>3. i \in 1..Len(queue'[j]) /\ queue'[j][i] = n
        <5>1. CASE j = k
          BY <4>1, <4>2, <5>1, <2>5, <1>q
        <5>2. CASE j # k
          BY <4>1, <4>2, <5>2, <2>5
        <5> QED BY <5>1, <5>2
      <4> QED BY <4>2, <4>3
    <3>2. \E i \in 1..Len(queue'[k]) : queue'[k][i] = N
      BY <2>5, <1>q
    <3> QED BY <3>1, <3>2, <2>2, <2>3 DEF WaitingIsQueued
  <2>12. BusyMeansRunning'
    BY <2>2, <2>4 DEF IInv, BusyMeansRunning
  <2>13. IdleMeansEmpty'
    BY <1>1, <2>4, <2>5 DEF IInv, IdleMeansEmpty
  <2>14. LaneOrder'
    BY <2>2, <1>n DEF IInv, LaneOrder, Number
  <2> QED BY <2>8, <2>9, <2>10, <2>11, <2>12, <2>13, <2>14 DEF IInv
<1>2. CASE ~busy[k]
  <2>1. queue[k] = << >>
    BY <1>2 DEF IInv, IdleMeansEmpty
  <2>3. queue' = queue /\ busy' = [busy EXCEPT ![k] = TRUE]
    BY <1>2, <1>k, EnqueueEffect
  <2>4. queue' = queue
    BY <2>3
  <2>5. status' = Append(status, "running")
    BY <1>2, <1>k, EnqueueEffect
  <2>6. /\ event' \in Seq(Event) /\ Len(event') <= MaxEvents /\ Len(event') = N
        /\ status' \in Seq(Status) /\ Len(status') = Len(event')
        /\ status'[N] = "running" /\ event'[N] = e
        /\ Number' = Number \cup {N} /\ N \notin Number
        /\ \A n \in Number : status'[n] = status[n]
        /\ \A n \in Number : /\ IsQueued(n)' = IsQueued(n)
                             /\ KeyOf(n)' = KeyOf(n)
                             /\ KeyOf(n) \in Key
    BY <2>5, <1>n, <1>t, <1>u, Arrival DEF Status
  <2>7. IsQueued(N)' /\ KeyOf(N)' = k
    BY <1>k, <1>u, <2>6 DEF IsQueued, KeyOf, EventKey, queueKey
  <2>8. \A j \in Key : \A i \in 1..Len(queue[j]) :
          /\ queue[j][i] \in Number /\ status[queue[j][i]] = "waiting"
          /\ queue[j][i] \in Nat /\ queue[j][i] < N
    BY <1>t, <1>n, TypeFacts DEF Number
  <2>9. busy' \in [Key -> BOOLEAN] /\ busy'[k] /\ \A j \in Key : j # k => busy'[j] = busy[j]
    BY <2>3, <1>t DEF TypeOK
  <2>10. TypeOK'
    <3>1. strategy' \in Strategies /\ queue' \in [Key -> Seq(1..MaxEvents)]
      BY <1>t, <1>u, <2>4 DEF TypeOK
    <3>2. ASSUME NEW j \in Key, NEW i \in 1..Len(queue'[j])
          PROVE  queue'[j][i] <= Len(event') /\ status'[queue'[j][i]] = "waiting"
      BY <2>4, <2>6, <2>8, <1>n
    <3> QED BY <3>1, <3>2, <2>6, <2>9 DEF TypeOK
  <2>11. QueueContents' /\ QueueSorted'
    BY <2>4, <2>6, <2>8 DEF IInv, QueueContents, QueueSorted
  <2>12. WaitingIsQueued'
    BY <2>4, <2>6 DEF IInv, WaitingIsQueued
  <2>13. BusyMeansRunning'
    BY <2>6, <2>7, <2>9 DEF IInv, BusyMeansRunning
  <2>14. IdleMeansEmpty'
    BY <2>1, <2>4, <2>9 DEF IInv, IdleMeansEmpty
  <2>15. LaneOrder'
    <3>1. ASSUME NEW m \in Number, IsQueued(m), KeyOf(m) = k
          PROVE  status[m] \in Settled
      <4>1. status[m] # "waiting"
        BY <2>1, <3>1 DEF IInv, WaitingIsQueued
      <4>2. status[m] # "running"
        BY <1>2, <3>1 DEF IInv, BusyMeansRunning
      <4> QED BY <4>1, <4>2, <1>t, TypeFacts DEF Status, Settled
    <3> QED BY <3>1, <2>6, <2>7, <1>n DEF IInv, LaneOrder, Number
  <2> QED BY <2>10, <2>11, <2>12, <2>13, <2>14, <2>15 DEF IInv
<1> QED BY <1>1, <1>2

\* The end of an unqueued callback touches no queue.
LEMMA WatchedIInv ==
  ASSUME IInv, NEW w \in DOMAIN event, Watched(w)
  PROVE  IInv'
<1>t. TypeOK
  BY DEF IInv
<1>1. /\ w \in Number /\ ~IsQueued(w) /\ Verdict(w) \in Settled
      /\ status' = [status EXCEPT ![w] = Verdict(w)] /\ status[w] = "running"
      /\ UNCHANGED <<strategy, event, queue, busy>>
  BY <1>t, TypeFacts DEF Watched, Verdict, Settled
<1>2. /\ status' \in Seq(Status) /\ Len(status') = Len(status)
      /\ \A n \in Number : n # w => status'[n] = status[n]
      /\ status'[w] \in Settled
  BY <1>1, <1>t, TypeFacts DEF TypeOK, Number, Status, Settled
<1>3. /\ Number' = Number
      /\ \A n \in Number : IsQueued(n)' = IsQueued(n) /\ KeyOf(n)' = KeyOf(n)
  BY <1>1 DEF Number, IsQueued, KeyOf, EventKey, queueKey
<1>4. TypeOK'
  <2>1. ASSUME NEW k \in Key, NEW i \in 1..Len(queue[k])
        PROVE  queue[k][i] <= Len(event') /\ status'[queue[k][i]] = "waiting"
    BY <1>t, <1>1, <1>2, TypeFacts DEF Number
  <2> QED BY <2>1, <1>t, <1>1, <1>2 DEF TypeOK
<1>5. QueueContents' /\ QueueSorted'
  BY <1>1, <1>3, <1>t, TypeFacts DEF IInv, QueueContents, QueueSorted
<1>6. WaitingIsQueued'
  BY <1>1, <1>2, <1>3 DEF IInv, WaitingIsQueued, Settled
<1>7. BusyMeansRunning'
  BY <1>1, <1>2, <1>3 DEF IInv, BusyMeansRunning
<1>8. IdleMeansEmpty'
  BY <1>1 DEF IInv, IdleMeansEmpty
<1>9. LaneOrder'
  BY <1>1, <1>2, <1>3 DEF IInv, LaneOrder
<1> QED BY <1>4, <1>5, <1>6, <1>7, <1>8, <1>9 DEF IInv

\* A queue runs one callback: the running one comes after no unsettled event of
\* its queue and before every waiting one.
LEMMA OneRunning ==
  ASSUME IInv, NEW m \in Number, NEW n \in Number, IsQueued(m), IsQueued(n),
         KeyOf(m) = KeyOf(n), status[m] = "running", status[n] \notin Settled
  PROVE  m = n \/ (m < n /\ status[n] = "waiting")
<1>1. m \in Nat /\ n \in Nat /\ status[n] \in {"waiting", "running"}
  BY TypeFacts DEF IInv, Number, Status, Settled
<1>2. CASE n < m
  BY <1>1, <1>2 DEF IInv, LaneOrder
<1>3. CASE m < n
  BY <1>1, <1>3 DEF IInv, LaneOrder, Settled
<1> QED BY <1>1, <1>2, <1>3

\* When a queued callback ends, the queue goes idle if it is empty, and its
\* oldest event begins if it is not.
LEMMA ReconciledIInv ==
  ASSUME IInv, NEW w \in DOMAIN event, Reconciled(w)
  PROVE  IInv'
<1>t. TypeOK
  BY DEF IInv
<1>w. w \in Number
  BY <1>t, TypeFacts
<1>k. PICK k \in Key : k = KeyOf(w)
  BY <1>t, <1>w, KeyOfInKey
<1> DEFINE settled == [status EXCEPT ![w] = Verdict(w)]
<1>u. /\ status[w] = "running" /\ IsQueued(w)
      /\ Dequeue(k, queue[k], FALSE, settled)
      /\ UNCHANGED <<strategy, event>>
  BY <1>k DEF Reconciled
<1>v. /\ settled \in Seq(Status) /\ Len(settled) = Len(status)
      /\ settled[w] \in Settled
      /\ \A n \in Number : n # w => settled[n] = status[n]
  BY <1>t, <1>w, <1>u, TypeFacts DEF TypeOK, Number, Verdict, Status, Settled
<1>1. /\ Number' = Number
      /\ \A n \in Number : IsQueued(n)' = IsQueued(n) /\ KeyOf(n)' = KeyOf(n)
  BY <1>u DEF Number, IsQueued, KeyOf, EventKey, queueKey
<1>2. busy[k]
  BY <1>u, <1>w, <1>k DEF IInv, BusyMeansRunning
\* Other than w, no event of the queue is running, and the settled ones are those
\* before w.
<1>3. \A n \in Number : IsQueued(n) /\ KeyOf(n) = k /\ status[n] \notin Settled =>
        n = w \/ (w < n /\ status[n] = "waiting")
  BY <1>u, <1>w, <1>k, OneRunning
<1>4. \A j \in Key : \A i \in 1..Len(queue[j]) :
        queue[j][i] \in Number /\ status[queue[j][i]] = "waiting" /\ queue[j][i] # w
  BY <1>t, <1>u, TypeFacts
<1> HIDE DEF settled
<1>5. CASE queue[k] = << >>
  <2>1. /\ queue' = [queue EXCEPT ![k] = queue[k]]
        /\ busy' = [busy EXCEPT ![k] = FALSE]
        /\ status' = settled
    BY <1>5, <1>u DEF Dequeue
  <2>2. /\ queue' = queue /\ busy' \in [Key -> BOOLEAN] /\ ~busy'[k]
        /\ \A j \in Key : j # k => busy'[j] = busy[j]
    BY <2>1, <1>t DEF TypeOK
  <2>3. TypeOK'
    <3>1. ASSUME NEW j \in Key, NEW i \in 1..Len(queue[j])
          PROVE  queue[j][i] <= Len(event') /\ status'[queue[j][i]] = "waiting"
      BY <1>t, <1>u, <1>v, <1>4, <2>1, TypeFacts DEF Number
    <3> QED BY <3>1, <1>t, <1>u, <1>v, <2>1, <2>2 DEF TypeOK
  <2>4. QueueContents' /\ QueueSorted'
    BY <1>1, <1>4, <2>2 DEF IInv, QueueContents, QueueSorted
  <2>5. WaitingIsQueued'
    BY <1>1, <1>v, <2>1, <2>2 DEF IInv, WaitingIsQueued, Settled
  <2>6. BusyMeansRunning'
    <3>1. \A n \in Number : IsQueued(n) /\ KeyOf(n) = k => status'[n] # "running"
      BY <1>3, <1>v, <2>1 DEF Settled
    <3> QED BY <3>1, <1>1, <1>k, <1>v, <2>1, <2>2 DEF IInv, BusyMeansRunning, Settled
  <2>7. IdleMeansEmpty'
    BY <1>5, <2>2 DEF IInv, IdleMeansEmpty
  <2>8. LaneOrder'
    BY <1>1, <1>u, <1>v, <2>1 DEF IInv, LaneOrder
  <2> QED BY <2>3, <2>4, <2>5, <2>6, <2>7, <2>8 DEF IInv
<1>6. CASE queue[k] # << >>
  <2>h. PICK h \in Number : h = Head(queue[k]) /\ h = queue[k][1] /\ h # w
    <3>1. Len(queue[k]) >= 1 /\ Head(queue[k]) = queue[k][1]
      BY <1>6, <1>t, TypeFacts, EmptySeq
    <3> QED BY <3>1, <1>4, <1>t, TypeFacts
  <2>1. /\ queue' = [queue EXCEPT ![k] = Tail(queue[k])]
        /\ busy' = [busy EXCEPT ![k] = TRUE]
        /\ status' = [settled EXCEPT ![h] = "running"]
    BY <1>6, <1>u, <2>h DEF Dequeue
  <2>2. busy' = busy
    BY <2>1, <1>2, <1>t DEF TypeOK
  <2>3. /\ queue'[k] \in Seq(1..MaxEvents) /\ Len(queue'[k]) = Len(queue[k]) - 1
        /\ Len(queue[k]) \in Nat
        /\ \A i \in 1..Len(queue'[k]) : queue'[k][i] = queue[k][i + 1]
        /\ \A j \in Key : j # k => queue'[j] = queue[j]
    BY <1>6, <2>1, <1>t, TypeFacts, HeadTailProperties DEF TypeOK
  <2>4. /\ status' \in Seq(Status) /\ Len(status') = Len(status)
        /\ status'[h] = "running" /\ status'[w] \in Settled
        /\ \A n \in Number : n # w /\ n # h => status'[n] = status[n]
    BY <2>1, <2>h, <1>v, <1>w, <1>t, TypeFacts DEF TypeOK, Status, Number
  <2>5. IsQueued(h) /\ KeyOf(h) = k /\ status[h] = "waiting" /\ w < h
    <3>1. 1 \in 1..Len(queue[k])
      BY <2>3, <1>6, <1>t, TypeFacts, EmptySeq
    <3> QED BY <3>1, <2>h, <1>3, <1>4 DEF IInv, QueueContents, Settled
  <2>6. \A i \in 1..Len(queue'[k]) : i + 1 \in 1..Len(queue[k]) /\ queue'[k][i] > h
    BY <2>3, <2>h DEF IInv, QueueSorted
  <2>7. TypeOK'
    <3>1. queue' \in [Key -> Seq(1..MaxEvents)]
      BY <2>1, <2>3, <1>t DEF TypeOK
    <3>2. ASSUME NEW j \in Key, NEW i \in 1..Len(queue'[j])
          PROVE  queue'[j][i] <= Len(event') /\ status'[queue'[j][i]] = "waiting"
      <4>1. queue'[j][i] \in Number /\ status'[queue'[j][i]] = "waiting"
        <5>1. CASE j = k
          <6>1. /\ i + 1 \in 1..Len(queue[k]) /\ queue'[k][i] = queue[k][i + 1]
                /\ queue'[k][i] > h
            BY <5>1, <2>3, <2>6
          <6>2. queue[k][i + 1] \in Number /\ status[queue[k][i + 1]] = "waiting"
                /\ queue[k][i + 1] # w
            BY <6>1, <1>4
          <6>3. queue[k][i + 1] # h
            BY <6>1, <6>2, <2>h, <1>t, TypeFacts DEF Number
          <6> QED BY <5>1, <6>1, <6>2, <6>3, <2>4
        <5>2. CASE j # k
          <6>1. KeyOf(queue[j][i]) = j
            BY <5>2, <2>3 DEF IInv, QueueContents
          <6>2. queue'[j] = queue[j]
            BY <5>2, <2>3
          <6>3. /\ queue[j][i] \in Number /\ status[queue[j][i]] = "waiting"
                /\ queue[j][i] # w
            BY <6>2, <1>4
          <6>4. queue[j][i] # h
            BY <5>2, <6>1, <2>5
          <6> QED BY <6>2, <6>3, <6>4, <2>4
        <5> QED BY <5>1, <5>2
      <4> QED BY <4>1, <1>t, <1>u, TypeFacts DEF Number
    <3> QED BY <3>1, <3>2, <1>t, <1>u, <2>2, <2>4 DEF TypeOK
  <2>8. QueueContents' /\ QueueSorted'
    <3>1. QueueContents'
      <4>1. ASSUME NEW j \in Key, NEW i \in 1..Len(queue'[j])
            PROVE  /\ queue'[j][i] \in Number
                   /\ IsQueued(queue'[j][i]) /\ KeyOf(queue'[j][i]) = j
        <5>1. CASE j = k
          <6>1. i + 1 \in 1..Len(queue[k]) /\ queue'[k][i] = queue[k][i + 1]
            BY <5>1, <2>3, <2>6
          <6> QED BY <5>1, <6>1, <1>4 DEF IInv, QueueContents
        <5>2. CASE j # k
          BY <5>2, <2>3, <1>4 DEF IInv, QueueContents
        <5> QED BY <5>1, <5>2
      <4> QED BY <4>1, <1>1 DEF QueueContents
    <3>2. ASSUME NEW j \in Key, NEW a \in 1..Len(queue'[j]), NEW b \in 1..Len(queue'[j]), a < b
          PROVE  queue'[j][a] < queue'[j][b]
      <4>1. CASE j # k
        BY <3>2, <4>1, <2>3 DEF IInv, QueueSorted
      <4>2. CASE j = k
        <5>1. /\ a + 1 \in 1..Len(queue[k]) /\ queue'[k][a] = queue[k][a + 1]
              /\ b + 1 \in 1..Len(queue[k]) /\ queue'[k][b] = queue[k][b + 1]
          BY <3>2, <4>2, <2>3, <2>6
        <5>2. a + 1 < b + 1
          BY <3>2, <4>2, <2>3
        <5> QED BY <4>2, <5>1, <5>2 DEF IInv, QueueSorted
      <4> QED BY <4>1, <4>2
    <3>3. QueueSorted'
      BY <3>2 DEF QueueSorted
    <3> QED BY <3>1, <3>3
  <2>9. WaitingIsQueued'
    <3>1. ASSUME NEW n \in Number, status'[n] = "waiting"
          PROVE  IsQueued(n) /\ \E i \in 1..Len(queue'[KeyOf(n)]) : queue'[KeyOf(n)][i] = n
      <4>1. n # w /\ n # h /\ status[n] = "waiting"
        BY <3>1, <2>4 DEF Settled
      <4>2. PICK i \in 1..Len(queue[KeyOf(n)]) : IsQueued(n) /\ queue[KeyOf(n)][i] = n
        BY <4>1 DEF IInv, WaitingIsQueued
      <4>3. CASE KeyOf(n) = k
        <5>1. i # 1 /\ i - 1 \in 1..Len(queue'[k]) /\ queue'[k][i - 1] = n
          BY <4>1, <4>2, <4>3, <2>h, <2>3
        <5> QED BY <5>1, <4>2, <4>3
      <4>4. CASE KeyOf(n) # k
        <5>1. KeyOf(n) \in Key
          BY <1>t, <1>u, EventsStay
        <5> QED BY <5>1, <4>2, <4>4, <2>3
      <4> QED BY <4>3, <4>4
    <3> QED BY <3>1, <1>1 DEF WaitingIsQueued
  <2>10. BusyMeansRunning'
    <3>1. \A j \in Key : j # k =>
            \A n \in Number : IsQueued(n) /\ KeyOf(n) = j => status'[n] = status[n]
      BY <2>4, <2>5, <1>k
    <3> QED BY <3>1, <1>1, <1>2, <2>2, <2>4, <2>5 DEF IInv, BusyMeansRunning
  <2>11. IdleMeansEmpty'
    BY <1>2, <2>2, <2>3 DEF IInv, IdleMeansEmpty
  <2>12. LaneOrder'
    <3>1. ASSUME NEW m \in Number, m < h, IsQueued(m), KeyOf(m) = k
          PROVE  status'[m] \in Settled
      <4>1. status[m] # "waiting"
        <5>1. ASSUME status[m] = "waiting" PROVE FALSE
          <6>1. PICK i \in 1..Len(queue[k]) : queue[k][i] = m
            BY <5>1, <3>1 DEF IInv, WaitingIsQueued
          <6>2. i = 1 \/ (1 < i /\ 1 \in 1..Len(queue[k]))
            BY <6>1, <2>3
          <6>3. h <= m
            BY <6>1, <6>2, <2>h DEF IInv, QueueSorted, Number
          <6> QED BY <6>3, <3>1, <1>t, TypeFacts DEF Number
        <5> QED BY <5>1
      <4>2. m = w \/ status[m] \in Settled
        BY <4>1, <3>1, <1>3
      <4> QED BY <4>2, <3>1, <2>4 DEF Number
    <3>2. ASSUME NEW m \in Number, NEW n \in Number, m < n, IsQueued(m), IsQueued(n),
                 KeyOf(m) = KeyOf(n), status'[n] # "waiting"
          PROVE  status'[m] \in Settled
      <4>1. CASE n = h
        BY <4>1, <3>1, <3>2, <2>5
      <4>2. CASE n # h
        <5>1. status[n] # "waiting"
          BY <4>2, <3>2, <2>4, <1>u
        <5>2. status[m] \in Settled
          BY <5>1, <3>2 DEF IInv, LaneOrder
        <5> QED BY <5>2, <2>4, <2>5 DEF Settled
      <4> QED BY <4>1, <4>2
    <3> QED BY <3>2, <1>1 DEF LaneOrder
  <2> QED BY <2>7, <2>8, <2>9, <2>10, <2>11, <2>12 DEF IInv
<1> QED BY <1>5, <1>6

\* The invariant holds of every reachable state.
THEOREM Invariance == Spec => []IInv
<1>1. Init => IInv
  BY InitIInv
<1>2. IInv /\ [Next]_vars => IInv'
  <2> SUFFICES ASSUME IInv, [Next]_vars PROVE IInv'
    OBVIOUS
  <2>1. ASSUME NEW e \in Event, Enqueue(e) PROVE IInv'
    BY <2>1, EnqueueIInv
  <2>2. ASSUME NEW e \in Event, Watch(e) PROVE IInv'
    BY <2>2, WatchIInv
  <2>3. ASSUME NEW n \in DOMAIN event, Reconciled(n) PROVE IInv'
    BY <2>3, ReconciledIInv
  <2>4. ASSUME NEW n \in DOMAIN event, Watched(n) PROVE IInv'
    BY <2>4, WatchedIInv
  <2>5. CASE UNCHANGED vars
    BY <2>5 DEF vars, IInv, TypeOK, QueueContents, QueueSorted, WaitingIsQueued,
                BusyMeansRunning, IdleMeansEmpty, LaneOrder, Number, IsQueued, KeyOf,
                EventKey, queueKey
  <2> QED BY <2>1, <2>2, <2>3, <2>4, <2>5 DEF Next
<1> QED BY <1>1, <1>2, PTL DEF Spec

\* The queues and promises always have the types the code gives them.
THEOREM TypeCorrect == Spec => []TypeOK
<1>1. IInv => TypeOK
  BY DEF IInv
<1> QED BY <1>1, Invariance, PTL

\* Reconcile callbacks on one object run one at a time, in the order of its
\* events, under every strategy, provided every object carries its kind.
THEOREM ObjectsInOrder ==
  ASSUME KindShown = {TRUE}
  PROVE  Spec => []ObjectOrder
<1>1. IInv => ObjectOrder
  <2> SUFFICES ASSUME IInv, NEW m \in Number, NEW n \in Number,
                      m < n, IsQueued(m), IsQueued(n),
                      event[m].object = event[n].object, status[n] # "waiting"
               PROVE  status[m] \in Settled
    BY TypeFacts DEF IInv, ObjectOrder
  <2>1. event[m].shown = event[n].shown
    BY TypeFacts DEF IInv, Event
  <2>2. KeyOf(m) = KeyOf(n)
    BY <2>1 DEF KeyOf, EventKey
  <2> QED BY <2>2 DEF IInv, LaneOrder
<1> QED BY <1>1, Invariance, PTL

\* No event is left waiting in an idle queue.
THEOREM NothingStranded == Spec => []NoIdleBacklog
<1>1. IInv => NoIdleBacklog
  <2> SUFFICES ASSUME IInv, NEW n \in Number, status[n] = "waiting"
               PROVE  \E m \in Number : m < n /\ IsQueued(m) /\ KeyOf(m) = KeyOf(n)
                                        /\ status[m] = "running"
    BY TypeFacts DEF IInv, NoIdleBacklog
  <2>k. PICK k \in Key : k = KeyOf(n)
    BY KeyOfInKey DEF IInv
  <2>1. PICK i \in 1..Len(queue[k]) : IsQueued(n) /\ queue[k][i] = n
    BY <2>k DEF IInv, WaitingIsQueued
  <2>2. queue[k] # << >>
    BY <2>1, EmptySeq
  <2>3. PICK m \in Number : IsQueued(m) /\ KeyOf(m) = k /\ status[m] = "running"
    BY <2>2 DEF IInv, IdleMeansEmpty, BusyMeansRunning
  <2>4. m < n
    BY <2>1, <2>3, <2>k, OneRunning DEF Settled
  <2> QED BY <2>1, <2>3, <2>4, <2>k
<1> QED BY <1>1, Invariance, PTL

(***************************************************************************)
(* The queues implement serial lanes.                                      *)
(***************************************************************************)

\* LaneOrder in the terms of SerialLanes.
LanesInOrder ==
  \A m, n \in Number :
    m < n /\ LaneOf(m) = LaneOf(n) /\ status[n] # "waiting" => status[m] \in Settled

\* No event of a lane begins before the earlier ones of the lane have settled.
LEMMA LanesInOrderInvariant == Spec => []LanesInOrder
<1>1. IInv => LanesInOrder
  <2> SUFFICES ASSUME IInv, NEW m \in Number, NEW n \in Number, m < n,
                      LaneOf(m) = LaneOf(n), status[n] # "waiting"
               PROVE  status[m] \in Settled
    BY DEF LanesInOrder
  <2>1. m \in Nat \ {0} /\ n \in Nat \ {0} /\ m # n
    BY TypeFacts DEF IInv, Number
  <2>2. /\ KeyOf(m) = KeyOf(n)
        /\ (IF IsQueued(m) THEN 0 ELSE m) = (IF IsQueued(n) THEN 0 ELSE n)
    BY DEF LaneOf
  <2>3. IsQueued(m) /\ IsQueued(n)
    BY <2>1, <2>2
  <2> QED BY <2>2, <2>3 DEF IInv, LaneOrder
<1> QED BY <1>1, Invariance, PTL

LaneSeq == [n \in DOMAIN event |-> LaneOf(n)]

LaneSeqIsSeq ==
  /\ LaneSeq \in Seq(Lane) /\ Len(LaneSeq) = Len(event)
  /\ \A n \in 1..Len(event) : LaneSeq[n] = LaneOf(n)

\* The lanes of the events are a sequence, as SerialLanes has them.
LEMMA LaneSeqInvariant == Spec => []LaneSeqIsSeq
<1>1. TypeOK => LaneSeqIsSeq
  <2> SUFFICES ASSUME TypeOK PROVE LaneSeqIsSeq
    OBVIOUS
  <2>1. \A n \in Number : LaneOf(n) \in Lane
    <3> SUFFICES ASSUME NEW n \in Number PROVE LaneOf(n) \in Lane
      OBVIOUS
    <3>1. n \in 0..MaxEvents /\ 0 \in 0..MaxEvents
      BY TypeFacts, EventAssumption DEF TypeOK, Number
    <3> QED BY <3>1, KeyOfInKey DEF LaneOf, Lane
  <2>2. LaneSeq = [n \in 1..Len(event) |-> LaneOf(n)] /\ Len(event) \in Nat
    BY TypeFacts DEF LaneSeq, Number
  <2>3. LaneSeq \in [1..Len(event) -> Lane]
    BY <2>1, <2>2 DEF Number
  <2>4. LaneSeq \in Seq(Lane)
    BY <2>2, <2>3, SeqDef
  <2> QED BY <2>2, <2>3, <2>4 DEF LaneSeqIsSeq
<1> QED BY <1>1, TypeCorrect, PTL

\* An arriving event takes the next place in the lanes.
LEMMA ArrivalLane ==
  ASSUME TypeOK, LaneSeqIsSeq, LaneSeqIsSeq', UNCHANGED strategy,
         NEW e \in Event, event' = Append(event, e)
  PROVE  \E l \in Lane :
           LaneSeq' = Append(LaneSeq, l) /\ l = LaneSeq'[Len(event) + 1]
<1>1. PICK N \in Nat : N = Len(event) + 1 /\ N = Len(event')
  BY TypeFacts DEF TypeOK
<1>2. /\ LaneSeq' \in Seq(Lane) /\ Len(LaneSeq') = N
      /\ \A n \in 1..N : LaneSeq'[n] = LaneOf(n)'
  BY <1>1 DEF LaneSeqIsSeq
<1>3. /\ LaneSeq \in Seq(Lane) /\ Len(LaneSeq) = N - 1
      /\ \A n \in 1..N - 1 : LaneSeq[n] = LaneOf(n)
  BY <1>1, TypeFacts DEF LaneSeqIsSeq
<1>4. \A n \in 1..N - 1 : LaneOf(n)' = LaneOf(n)
  BY <1>1, EventsStay DEF LaneOf, Number
<1>5. PICK l \in Lane : l = LaneSeq'[N]
  BY <1>1, <1>2
<1>6. /\ Append(LaneSeq, l) \in Seq(Lane) /\ Len(Append(LaneSeq, l)) = N
      /\ \A n \in 1..N : Append(LaneSeq, l)[n] = IF n = N THEN l ELSE LaneSeq[n]
  BY <1>3, <1>1
<1>7. \A n \in 1..N : LaneSeq'[n] = Append(LaneSeq, l)[n]
  BY <1>1, <1>2, <1>3, <1>4, <1>5, <1>6
<1>8. LaneSeq' = Append(LaneSeq, l)
  BY <1>2, <1>6, <1>7, SeqEqual
<1> QED BY <1>1, <1>5, <1>8

\* Handing an event to its queue, or running it at once, is an arrival in its lane.
LEMMA ArrivalStep ==
  ASSUME IInv, LaneSeqIsSeq, LaneSeqIsSeq', LanesInOrder', NEW e \in Event,
         Enqueue(e) \/ Watch(e)
  PROVE  \E l \in Lane : Lanes!Arrive(l)
<1>t. TypeOK /\ UNCHANGED strategy /\ event' = Append(event, e)
  BY DEF IInv, Enqueue, Watch
<1>1. PICK l \in Lane : LaneSeq' = Append(LaneSeq, l) /\ l = LaneSeq'[Len(event) + 1]
  BY <1>t, ArrivalLane
<1>n. PICK N \in Nat : N = Len(event) + 1 /\ N = Len(status) + 1 /\ N = Len(event')
  BY <1>t, TypeFacts DEF TypeOK
<1>2. status' = Append(status, "waiting") \/ status' = Append(status, "running")
  <2>1. PICK k \in Key : k = EventKey(e)
    BY <1>t, KeyInKey
  <2> QED BY <2>1, EnqueueEffect DEF Watch
<1>3. CASE status' = Append(status, "waiting")
  BY <1>1, <1>3 DEF Lanes!Arrive, LaneSeq
<1>4. CASE status' = Append(status, "running")
  <2>1. status'[N] = "running" /\ LaneSeq'[N] = LaneOf(N)' /\ N \in Number'
    BY <1>t, <1>4, <1>n DEF TypeOK, Number, LaneSeqIsSeq
  <2>2. ASSUME NEW m \in DOMAIN status, m < N, LaneSeq[m] = l
        PROVE  status'[m] \in Settled
    <3>1. m \in Number /\ m \in Number' /\ LaneSeq'[m] = LaneOf(m)'
      BY <2>2, <1>t, <1>n, TypeFacts DEF Number, LaneSeqIsSeq
    <3>2. LaneSeq'[m] = LaneSeq[m]
      BY <3>1, <1>1, <1>t, TypeFacts DEF LaneSeqIsSeq, Number
    <3>3. LaneOf(m)' = LaneOf(N)'
      BY <1>1, <1>n, <2>1, <2>2, <3>1, <3>2
    <3> QED BY <3>1, <3>3, <2>1, <2>2 DEF LanesInOrder
  <2>3. Lanes!Clear(l, Len(status) + 1)
    BY <2>2, <1>n DEF Lanes!Clear, LaneSeq, Lanes!Settled, Settled
  <2> QED BY <1>1, <1>4, <2>3 DEF Lanes!Arrive, LaneSeq
<1> QED BY <1>2, <1>3, <1>4

\* The end of a callback finishes its event, and begins at most the next one.
LEMMA ProgressStep ==
  ASSUME IInv, IInv', LanesInOrder', LaneSeqIsSeq, LaneSeqIsSeq',
         NEW w \in DOMAIN event, Reconciled(w) \/ Watched(w)
  PROVE  Lanes!Progress
<1>t. TypeOK /\ TypeOK' /\ w \in Number /\ UNCHANGED <<strategy, event>>
  BY TypeFacts DEF IInv, Reconciled, Watched
<1>1. LaneSeq' = LaneSeq /\ Number' = Number
  BY <1>t DEF LaneSeq, LaneOf, KeyOf, EventKey, queueKey, IsQueued, Number
<1>2. DOMAIN status' = Number /\ DOMAIN status = Number
  BY <1>t, TypeFacts DEF TypeOK, Number
<1>3. Verdict(w) \in Settled /\ status[w] = "running"
  BY DEF Verdict, Settled, Reconciled, Watched
<1>4. \A n \in Number : n # w => status'[n] = status[n]
                                \/ (status[n] = "waiting" /\ status'[n] = "running")
  <2>1. CASE Watched(w)
    BY <2>1, <1>t, <1>2 DEF Watched, TypeOK
  <2>2. CASE Reconciled(w)
    <3>1. PICK k \in Key : k = KeyOf(w)
      BY <1>t, KeyOfInKey
    <3>2. Dequeue(k, queue[k], FALSE, [status EXCEPT ![w] = Verdict(w)])
      BY <2>2, <3>1 DEF Reconciled
    <3>3. CASE queue[k] = << >>
      BY <3>2, <3>3, <1>2 DEF Dequeue
    <3>4. CASE queue[k] # << >>
      <4>1. Head(queue[k]) = queue[k][1] /\ 1 \in 1..Len(queue[k])
        BY <3>4, <1>t, TypeFacts, EmptySeq
      <4>2. Head(queue[k]) \in Number /\ status[Head(queue[k])] = "waiting"
        BY <4>1, <1>t, TypeFacts
      <4>3. status' = [[status EXCEPT ![w] = Verdict(w)] EXCEPT ![Head(queue[k])] = "running"]
        BY <3>2, <3>4 DEF Dequeue
      <4> QED BY <4>2, <4>3, <1>2
    <3> QED BY <3>3, <3>4
  <2> QED BY <2>1, <2>2
<1>5. status'[w] \in Settled
  <2>1. CASE Watched(w)
    BY <2>1, <1>t, <1>2, <1>3 DEF Watched
  <2>2. CASE Reconciled(w)
    <3>1. PICK k \in Key : k = KeyOf(w)
      BY <1>t, KeyOfInKey
    <3>2. Dequeue(k, queue[k], FALSE, [status EXCEPT ![w] = Verdict(w)])
      BY <2>2, <3>1 DEF Reconciled
    <3>3. CASE queue[k] = << >>
      BY <3>2, <3>3, <1>t, <1>2, <1>3 DEF Dequeue
    <3>4. CASE queue[k] # << >>
      <4>1. Head(queue[k]) = queue[k][1] /\ 1 \in 1..Len(queue[k])
        BY <3>4, <1>t, TypeFacts, EmptySeq
      <4>2. Head(queue[k]) # w
        BY <4>1, <1>t, <1>3, TypeFacts
      <4> QED BY <3>2, <3>4, <4>2, <1>t, <1>2, <1>3 DEF Dequeue
    <3> QED BY <3>3, <3>4
  <2> QED BY <2>1, <2>2
<1>6. ASSUME NEW n \in Number
      PROVE  status'[n] = status[n] \/ Lanes!Begin(n) \/ Lanes!Finish(n)
  <2>1. CASE n = w
    BY <2>1, <1>3, <1>5 DEF Lanes!Finish, Lanes!Settled, Settled
  <2>2. CASE n # w /\ status[n] = "waiting" /\ status'[n] = "running"
    <3>1. ASSUME NEW m \in Number, m < n, LaneSeq[m] = LaneSeq[n]
          PROVE  status'[m] \in Settled
      <4>1. LaneOf(m)' = LaneOf(n)'
        BY <3>1, <1>1 DEF LaneSeqIsSeq, Number
      <4> QED BY <4>1, <3>1, <2>2, <1>1 DEF LanesInOrder
    <3>2. Lanes!Clear(LaneSeq[n], n)
      BY <3>1, <1>2 DEF Lanes!Clear, LaneSeq, Lanes!Settled, Settled
    <3> QED BY <2>2, <3>2 DEF Lanes!Begin, LaneSeq
  <2> QED BY <2>1, <2>2, <1>4
<1> QED BY <1>1, <1>2, <1>6 DEF Lanes!Progress, LaneSeq

\* The handler and its queues implement SerialLanes: callbacks of one queue are
\* serial and in order, and no queue waits for another.
THEOREM ImplementsSerialLanes == Spec => ImplementsLanes
<1>1. Init => Lanes!Init
  BY DEF Init, Lanes!Init
<1>2. ASSUME IInv, IInv', LanesInOrder', LaneSeqIsSeq, LaneSeqIsSeq', [Next]_vars
      PROVE  [Lanes!Next]_Lanes!vars
  <2>1. ASSUME NEW e \in Event, Enqueue(e) \/ Watch(e) PROVE Lanes!Next
    BY <1>2, <2>1, ArrivalStep DEF Lanes!Next
  <2>2. ASSUME NEW w \in DOMAIN event, Reconciled(w) \/ Watched(w) PROVE Lanes!Next
    BY <1>2, <2>2, ProgressStep DEF Lanes!Next
  <2>3. CASE UNCHANGED vars
    BY <2>3 DEF vars, Lanes!vars, LaneOf, KeyOf, EventKey, queueKey, IsQueued
  <2> QED BY <1>2, <2>1, <2>2, <2>3 DEF Next
<1> QED BY <1>1, <1>2, Invariance, LanesInOrderInvariant, LaneSeqInvariant, PTL
        DEF Spec, ImplementsLanes, Lanes!Spec
=============================================================================

-------------------------- MODULE ReconcileQueue --------------------------
(***************************************************************************)
(* The Watch and Reconcile half of the watch controller: the handler that  *)
(* runBinding hands to the Kubernetes client, the queues it shares between *)
(* bindings, and the Queue class that runs their callbacks                 *)
(* (src/lib/processors/watch-processor.ts, src/lib/core/queue.ts).         *)
(*                                                                         *)
(* One step is one uninterrupted stretch of the JavaScript event loop.     *)
(* Queue.enqueue pushes and calls #dequeue before it yields, and after a   *)
(* callback settles #dequeue clears its flag and takes the next element    *)
(* before it yields, so each is a single action; what interleaves is the   *)
(* time between a callback's start and the settling of its promise.        *)
(***************************************************************************)
EXTENDS Naturals, Sequences

CONSTANTS
  Binding,      \* the watch bindings of all capabilities
  Queued,       \* those made with Reconcile(): binding.isQueue
  Object,       \* the objects of the cluster, as [kind, ns, name] records
  Delivers,     \* Delivers[b]: those the client watches for b (model, filters)
  PhaseMatch,   \* PhaseMatch[b]: the phases of its event, eventToPhaseMap
  FilterMatch,  \* FilterMatch[b]: the objects that pass filterNoMatchReason
  KindShown,    \* whether a delivered object carries its kind, a subset of BOOLEAN
  Strategies,   \* the values PEPR_RECONCILE_STRATEGY may have
  Absent,       \* an optional field that is not set
  MaxEvents     \* bound on the events the client delivers

Phase == {"Added", "Modified", "Deleted"}

ASSUME BindingAssumption ==
  /\ Queued \subseteq Binding
  /\ Delivers \in [Binding -> SUBSET Object]
  /\ PhaseMatch \in [Binding -> SUBSET Phase]
  /\ FilterMatch \in [Binding -> SUBSET Object]
ASSUME EventAssumption == KindShown \subseteq BOOLEAN /\ MaxEvents \in Nat

VARIABLES
  strategy,  \* the value of PEPR_RECONCILE_STRATEGY in this process
  event,     \* event[n]: the n-th event delivered, to any binding
  status,    \* status[n]: the state of the promise the handler returned for it
  queue,     \* queue[k]: Queue.#queue of the queue with key k, as event numbers
  busy       \* busy[k]: Queue.#pendingPromise of that queue

vars == <<strategy, event, status, queue, busy>>

(***************************************************************************)
(* Queue keys.                                                             *)
(***************************************************************************)
Strategy == {"kind", "kindNs", "kindNsName", "global"}

OrElse(field, default) == IF field = Absent THEN default ELSE field

\* The key of the queue an object belongs to under strategy s.
KeyUnder(s, o) ==
  LET kind == OrElse(o.kind, "UnknownKind")
      ns == OrElse(o.ns, "cluster-scoped")
      effective == IF s \in Strategy THEN s ELSE "kindNsName"
  IN CASE effective = "kind" -> <<kind>>
       [] effective = "kindNs" -> <<kind, ns>>
       [] effective = "kindNsName" -> <<kind, ns, o.name>>
       [] effective = "global" -> <<"global">>

queueKey(o) == KeyUnder(strategy, o)

\* An object as the client delivers it, with or without its kind.
Delivered(o, shown) == IF shown THEN o ELSE [o EXCEPT !.kind = Absent]

DeliveredObject == {Delivered(o, s) : o \in Object, s \in KindShown}

Key == {KeyUnder(s, o) : s \in Strategies, o \in DeliveredObject}

(***************************************************************************)
(* Events. The outcome of the user's callback is drawn when the event is   *)
(* delivered; an event the binding does not match never reaches the user's *)
(* callback, and its promise resolves.                                     *)
(***************************************************************************)
Outcome == {"return", "throw", "hang"}

Runs(b, o, phase) == phase \in PhaseMatch[b] /\ o \in FilterMatch[b]

Event ==
  {e \in [binding : Binding, object : Object, shown : KindShown,
          phase : Phase, outcome : Outcome] :
     /\ e.object \in Delivers[e.binding]
     /\ Runs(e.binding, e.object, e.phase) \/ e.outcome = "return"}

EventKey(e) == queueKey(Delivered(e.object, e.shown))
KeyOf(n) == EventKey(event[n])
IsQueued(n) == event[n].binding \in Queued

Status == {"waiting", "running", "resolved", "rejected"}
Settled == {"resolved", "rejected"}

Init ==
  /\ strategy \in Strategies
  /\ event = << >>
  /\ status = << >>
  /\ queue = [k \in Key |-> << >>]
  /\ busy = [k \in Key |-> FALSE]

\* Mutants of Dequeue: the flag is not read; the newest element is taken.
DequeueUnflagged(k, q, pending, st) ==
  /\ queue' = [queue EXCEPT ![k] = IF q = << >> THEN q ELSE Tail(q)]
  /\ busy' = [busy EXCEPT ![k] = q # << >>]
  /\ status' = IF q = << >> THEN st ELSE [st EXCEPT ![Head(q)] = "running"]

DequeuePops(k, q, pending, st) ==
  LET begins == ~pending /\ q # << >>
  IN /\ queue' = [queue EXCEPT ![k] = IF begins THEN SubSeq(q, 1, Len(q) - 1) ELSE q]
     /\ busy' = [busy EXCEPT ![k] = pending \/ begins]
     /\ status' = IF begins THEN [st EXCEPT ![q[Len(q)]] = "running"] ELSE st

\* Queue.#dequeue of queue k, with q as its content, st as the promises' states
\* and pending as #pendingPromise: begin the head unless a callback is running
\* or there is nothing to run.
Dequeue(k, q, pending, st) ==
  IF pending \/ q = << >>
  THEN /\ queue' = [queue EXCEPT ![k] = q]
       /\ busy' = [busy EXCEPT ![k] = pending]
       /\ status' = st
  ELSE /\ queue' = [queue EXCEPT ![k] = Tail(q)]
       /\ busy' = [busy EXCEPT ![k] = TRUE]
       /\ status' = [st EXCEPT ![Head(q)] = "running"]

\* The handler of a Reconcile binding: Queue.enqueue on the object's queue.
Enqueue(e) ==
  /\ Len(event) < MaxEvents
  /\ e.binding \in Queued
  /\ event' = Append(event, e)
  /\ LET k == EventKey(e)
     IN Dequeue(k, Append(queue[k], Len(event) + 1), busy[k], Append(status, "waiting"))
  /\ UNCHANGED strategy

\* The handler of a Watch binding: the callback runs at once, whatever else runs.
Watch(e) ==
  /\ Len(event) < MaxEvents
  /\ e.binding \notin Queued
  /\ event' = Append(event, e)
  /\ status' = Append(status, "running")
  /\ UNCHANGED <<strategy, queue, busy>>

\* How the promise of event n ends when its callback ends.
Verdict(n) == IF event[n].outcome = "throw" THEN "rejected" ELSE "resolved"

\* Mutants of Reconciled: nothing is taken next; the flag is cleared and the next
\* element taken after the await, with no finally.
ReconciledThenRests(n) ==
  /\ status[n] = "running" /\ IsQueued(n) /\ event[n].outcome # "hang"
  /\ status' = [status EXCEPT ![n] = Verdict(n)]
  /\ busy' = [busy EXCEPT ![KeyOf(n)] = FALSE]
  /\ UNCHANGED <<strategy, event, queue>>

ReconciledNoFinally(n) ==
  /\ status[n] = "running" /\ IsQueued(n) /\ event[n].outcome # "hang"
  /\ Dequeue(KeyOf(n), queue[KeyOf(n)], event[n].outcome = "throw",
             [status EXCEPT ![n] = Verdict(n)])
  /\ UNCHANGED <<strategy, event>>

\* The callback of a queued event ends: its promise settles, the finally block
\* clears the flag and takes the next element.
Reconciled(n) ==
  /\ status[n] = "running"
  /\ IsQueued(n)
  /\ event[n].outcome # "hang"
  /\ Dequeue(KeyOf(n), queue[KeyOf(n)], FALSE, [status EXCEPT ![n] = Verdict(n)])
  /\ UNCHANGED <<strategy, event>>

\* The callback of an unqueued event ends.
Watched(n) ==
  /\ status[n] = "running"
  /\ ~IsQueued(n)
  /\ event[n].outcome # "hang"
  /\ status' = [status EXCEPT ![n] = Verdict(n)]
  /\ UNCHANGED <<strategy, event, queue, busy>>

Next ==
  \/ \E e \in Event : Enqueue(e)
  \/ \E e \in Event : Watch(e)
  \/ \E n \in DOMAIN event : Reconciled(n)
  \/ \E n \in DOMAIN event : Watched(n)

\* Node runs the continuation of every callback that ends. Nothing makes a
\* callback end, and nothing makes the client deliver an event.
Fairness ==
  \A n \in 1..MaxEvents :
    /\ WF_vars(n \in DOMAIN event /\ Reconciled(n))
    /\ WF_vars(n \in DOMAIN event /\ Watched(n))

Spec == Init /\ [][Next]_vars
FairSpec == Spec /\ Fairness

(***************************************************************************)
(* Properties.                                                             *)
(***************************************************************************)

\* Queues and promises hold what the code puts in them; a queue holds only
\* events whose callback has not begun.
TypeOK ==
  /\ strategy \in Strategies
  /\ event \in Seq(Event) /\ Len(event) <= MaxEvents
  /\ status \in Seq(Status) /\ Len(status) = Len(event)
  /\ queue \in [Key -> Seq(1..MaxEvents)]
  /\ \A k \in Key : \A i \in 1..Len(queue[k]) :
       queue[k][i] <= Len(event) /\ status[queue[k][i]] = "waiting"
  /\ busy \in [Key -> BOOLEAN]

\* Reconcile callbacks on one object never overlap and run in the order of its
\* events, whatever the strategy, also when two bindings reconcile it: each
\* begins only after all earlier ones have been settled.
ObjectOrder ==
  \A m, n \in DOMAIN event :
    /\ m < n /\ IsQueued(m) /\ IsQueued(n)
    /\ event[m].object = event[n].object
    /\ status[n] # "waiting"
    => status[m] \in Settled

\* No event waits in an idle queue: nothing but the end of a callback or a new
\* event of the same queue would ever start it. An event that waits does so
\* behind a running callback of its own queue.
NoIdleBacklog ==
  \A n \in DOMAIN event :
    status[n] = "waiting" =>
      \E m \in DOMAIN event :
        m < n /\ IsQueued(m) /\ KeyOf(m) = KeyOf(n) /\ status[m] = "running"

\* Queues keep lanes apart: the handler and the queues implement one serial
\* lane for each key, and a lane of its own for each unqueued event.
Lane == [key : Key, alone : 0..MaxEvents]
LaneOf(n) == [key |-> KeyOf(n), alone |-> IF IsQueued(n) THEN 0 ELSE n]
Lanes ==
  INSTANCE SerialLanes WITH lane <- [n \in DOMAIN event |-> LaneOf(n)]
ImplementsLanes == Lanes!Spec

\* Every event is handled in the end unless a callback hangs in its own lane,
\* at it or before it: a callback that throws does not stop the ones behind it,
\* and one that never ends does not hold up the other queues.
Unhindered(n) ==
  \A m \in DOMAIN event :
    m <= n /\ LaneOf(m) = LaneOf(n) => event[m].outcome # "hang"
HandledUnlessHung ==
  \A n \in 1..MaxEvents :
    (n \in DOMAIN event /\ Unhindered(n))
      ~> (n \in DOMAIN event /\ status[n] \in Settled)
=============================================================================

----------------------------- MODULE PeprStore -----------------------------
(***************************************************************************)
(* The Pepr Store of one capability: the Storage instances of the module's *)
(* pods (core/storage.ts), the StoreController that batches their writes   *)
(* and feeds them from the watch (controller/store.ts), and the API server *)
(* that holds the store resource.                                          *)
(*                                                                         *)
(* A pod's writes go to its cache; a 4 s interval sends the cache as one   *)
(* JSON patch; the answer flushes the cache. Every accepted patch makes a  *)
(* new revision of the resource (updateCacheID changes a label with each); *)
(* the watch brings each revision to every pod, which holds the newest for *)
(* the debounce time and then takes it over and tells its subscribers.     *)
(*                                                                         *)
(* Timers are not clocked: one that is set may fire at any time.           *)
(***************************************************************************)
EXTENDS StoreCache

CONSTANTS
  Pod,           \* the admission and watch pods of the module
  Awaited,       \* the keys that calls may wait for
  MaxCalls,      \* bound on the calls capabilities make
  MaxInFlight,   \* bound on a pod's unanswered patches; 1: answers take under 4 s
  MaxFailures,   \* bound on the patches that fail for a reason other than 422
  MaxRestarts,   \* bound on pod restarts
  TimersFire,    \* whether MAX_WAIT_TIME may elapse
  RedactValues,  \* PEPR_STORE_REDACT_VALUES
  Liberty        \* what the capabilities' code may do, a subset of Liberties

\* overlap: write while a patch of the pod is unanswered
\* rewrite: write a key, or clear the store, while an earlier write is not settled:
\*          clear removes the keys the replica has, and a write on its way stays
\* missing: remove a key that is not in the store
\* clear:   clear a store of several keys
\* race:    write a key while a call waits for it
Liberties == {"overlap", "rewrite", "missing", "clear", "race"}

ASSUME BoundsAssumption ==
  /\ {MaxCalls, MaxInFlight, MaxFailures, MaxRestarts} \subseteq Nat
  /\ {TimersFire, RedactValues} \subseteq BOOLEAN
  /\ Liberty \subseteq Liberties
  /\ Awaited \subseteq Key /\ IsFiniteSet(Key)
ASSUME ValueAssumption == Absent \notin Value /\ Undefined \notin Operation

VARIABLES
  log,       \* log[r]: the data of revision r of the store resource
  cache,     \* cache[p]: storeCache of the sender, a sequence of entries
  wire,      \* wire[p]: the unanswered patches p sent
  watched,   \* watched[p]: the last revision the watch delivered to p, or 0
  debounced, \* debounced[p]: the revision held by p's debounce timer, or 0
  replica,   \* replica[p]: the revision in p's Storage.#store, 0 for the empty {}
  waits,     \* waits[p]: the setItemAndWait and removeItemAndWait calls of p
  want,      \* want[k]: what the last call on k, on any pod, asked it to be
  calls, failures, restarts  \* counters of what is bounded

vars == <<log, cache, wire, watched, debounced, replica, waits, want,
          calls, failures, restarts>>

Latest == Len(log)
Empty == [k \in Key |-> Absent]
Store(p) == IF replica[p] = 0 THEN Empty ELSE log[replica[p]]
Present(data) == {k \in Key : data[k] # Absent}

Stage == {"sent", "ok", "unprocessable", "error"}

\* A call waits for the key to have the value, or to be absent.
Wait == [key : Key, value : Value \cup {Absent},
         outcome : {"waiting", "ok", "timeout"}]
Satisfied(w, data) == data[w.key] = w.value

Init ==
  /\ log = <<Empty>>
  /\ cache = [p \in Pod |-> << >>]
  /\ wire = [p \in Pod |-> << >>]
  /\ watched = [p \in Pod |-> 0]
  /\ debounced = [p \in Pod |-> 0]
  /\ replica = [p \in Pod |-> 0]
  /\ waits = [p \in Pod |-> << >>]
  /\ want = Empty
  /\ calls = 0 /\ failures = 0 /\ restarts = 0

(***************************************************************************)
(* The calls of the capabilities' code.                                    *)
(***************************************************************************)

\* An operation on key k is in a cache, or sent and not yet answered.
Unsettled(k) ==
  \E p \in Pod :
    \/ \E i \in DOMAIN cache[p] :
         cache[p][i].operation = Undefined \/ k \in cache[p][i].operation.path
    \/ \E j \in DOMAIN wire[p] : \E i \in DOMAIN wire[p][j].sent :
         LET o == wire[p][j].sent[i].operation IN o = Undefined \/ k \in o.path

AwaitedSomewhere(k) ==
  \E p \in Pod : \E i \in DOMAIN waits[p] :
    waits[p][i].key = k /\ waits[p][i].outcome = "waiting"

\* Whether the calling code keeps to the uses Liberty allows.
Permitted(p, ks) ==
  /\ "overlap" \in Liberty \/ wire[p] = << >>
  /\ "rewrite" \in Liberty \/ \A k \in ks : ~Unsettled(k)
  /\ "race" \in Liberty \/ \A k \in ks : ~AwaitedSomewhere(k)

Write(p, o, settled) ==
  /\ calls < MaxCalls
  /\ Permitted(p, o.path)
  /\ calls' = calls + 1
  /\ cache' = [cache EXCEPT ![p] = fillStoreCache(@, o)]
  /\ want' = settled
  /\ UNCHANGED <<log, wire, watched, debounced, replica, failures, restarts>>

\* A waiting call subscribes after it has written, so no earlier notification
\* can settle it.
Subscribe(p, k, v) ==
  waits' = [waits EXCEPT ![p] =
    Append(@, [key |-> k, value |-> v, outcome |-> "waiting"])]

setItem(p, k, v) ==
  /\ Write(p, Add(k, v), [want EXCEPT ![k] = v])
  /\ UNCHANGED waits

setItemAndWait(p, k, v) ==
  /\ Write(p, Add(k, v), [want EXCEPT ![k] = v])
  /\ Subscribe(p, k, v)

MayRemove(k) == "missing" \in Liberty \/ log[Latest][k] # Absent

removeItem(p, k) ==
  /\ MayRemove(k)
  /\ Write(p, Remove({k}), [want EXCEPT ![k] = Absent])
  /\ UNCHANGED waits

removeItemAndWait(p, k) ==
  /\ MayRemove(k)
  /\ Write(p, Remove({k}), [want EXCEPT ![k] = Absent])
  /\ Subscribe(p, k, Absent)

\* One remove operation for all the keys of the replica; none, no operation.
clear(p) ==
  LET ks == Present(Store(p))
  IN /\ ks # {}
     /\ Cardinality(ks) > 1 => "clear" \in Liberty
     /\ "missing" \in Liberty \/ Store(p) = log[Latest]
     /\ "rewrite" \in Liberty \/ \A k \in Key : ~Unsettled(k)
     /\ Write(p, Remove(ks), Empty)
     /\ UNCHANGED waits

(***************************************************************************)
(* Sending.                                                                *)
(***************************************************************************)

\* Mutant of Reset: the watch goes on from the last revision instead of listing.
ResetResumes(p) ==
  /\ cache' = [cache EXCEPT ![p] = << >>]
  /\ wire' = [wire EXCEPT ![p] = [j \in DOMAIN @ |-> [@[j] EXCEPT !.awaited = FALSE]]]
  /\ debounced' = [debounced EXCEPT ![p] = 0]
  /\ replica' = [replica EXCEPT ![p] = 0]
  /\ waits' = [waits EXCEPT ![p] = << >>]
  /\ UNCHANGED <<log, watched, want, calls, failures>>

\* A pod that starts over: its memory is lost; what it sent may still arrive,
\* and nobody awaits the answer.
Reset(p) ==
  /\ cache' = [cache EXCEPT ![p] = << >>]
  /\ wire' = [wire EXCEPT ![p] = [j \in DOMAIN @ |-> [@[j] EXCEPT !.awaited = FALSE]]]
  /\ watched' = [watched EXCEPT ![p] = 0]
  /\ debounced' = [debounced EXCEPT ![p] = 0]
  /\ replica' = [replica EXCEPT ![p] = 0]
  /\ waits' = [waits EXCEPT ![p] = << >>]
  /\ UNCHANGED <<log, want, calls, failures>>

HoldsUndefined(entries) == \E i \in DOMAIN entries : entries[i].operation = Undefined

Send(p) ==
  /\ Cardinality({j \in DOMAIN wire[p] : wire[p][j].awaited}) < MaxInFlight
  /\ wire' = [wire EXCEPT ![p] =
       Append(@, [sent |-> cache[p], stage |-> "sent", awaited |-> TRUE])]
  /\ UNCHANGED <<log, cache, watched, debounced, replica, waits, want,
                 calls, failures, restarts>>

\* The interval of #send: log the cache, then send it. redactedPatch asks every
\* operation whether it has a value, which throws on undefined.
SendInterval(p) ==
  /\ cache[p] # << >>
  /\ IF RedactValues /\ HoldsUndefined(cache[p])
     THEN Reset(p) /\ UNCHANGED restarts
     ELSE Send(p)

SetStage(p, j, stage) == wire' = [wire EXCEPT ![p][j].stage = stage]

\* Mutant of updateCacheID: without the label a patch that changes no data makes no
\* revision.
updateCacheIDNever(revisions, data) ==
  IF data = revisions[Len(revisions)] THEN revisions ELSE Append(revisions, data)

\* Every patch also sets a label to the time, so that each makes a revision.
updateCacheID(revisions, data) == Append(revisions, data)

\* The API server takes the patch, or refuses it as unprocessable.
ServePatch(p, j) ==
  LET ops == Operations(wire[p][j].sent)
  IN /\ wire[p][j].stage = "sent"
     /\ IF Unprocessable(log[Latest], ops)
        THEN SetStage(p, j, "unprocessable") /\ UNCHANGED log
        ELSE SetStage(p, j, "ok") /\ log' = updateCacheID(log, Patched(log[Latest], ops))
     /\ UNCHANGED <<cache, watched, debounced, replica, waits, want,
                    calls, failures, restarts>>

\* Any other failure, before the patch was applied or with its answer lost after.
FailPatch(p, j) ==
  /\ failures < MaxFailures
  /\ wire[p][j].stage \in {"sent", "ok"}
  /\ SetStage(p, j, "error")
  /\ failures' = failures + 1
  /\ UNCHANGED <<log, cache, watched, debounced, replica, waits, want, calls, restarts>>

\* The continuation of sendUpdatesAndFlushCache after its await.
Answer(p, j) ==
  LET patch == wire[p][j]
  IN /\ patch.stage # "sent"
     /\ wire' = [wire EXCEPT ![p] = SubSeq(@, 1, j - 1) \o SubSeq(@, j + 1, Len(@))]
     /\ cache' = IF patch.awaited
                 THEN [cache EXCEPT ![p] = afterAnswer(@, patch.sent, patch.stage)]
                 ELSE cache
     /\ UNCHANGED <<log, watched, debounced, replica, waits, want,
                    calls, failures, restarts>>

(***************************************************************************)
(* Receiving.                                                              *)
(***************************************************************************)

\* Mutant of Receive: only the resource's first event is taken.
ReceiveOnce(p) ==
  /\ watched[p] = 0
  /\ watched' = [watched EXCEPT ![p] = Latest]
  /\ debounced' = [debounced EXCEPT ![p] = Latest]
  /\ UNCHANGED <<log, cache, wire, replica, waits, want, calls, failures, restarts>>

\* #receive: the watch delivers the next revision, or after a start the latest;
\* the debounce timer starts over with it.
Receive(p) ==
  /\ watched[p] < Latest
  /\ watched' = [watched EXCEPT ![p] = IF @ = 0 THEN Latest ELSE @ + 1]
  /\ debounced' = [debounced EXCEPT ![p] = watched'[p]]
  /\ UNCHANGED <<log, cache, wire, replica, waits, want, calls, failures, restarts>>

\* Mutant of Debounced: clearTimeout is left out, so that the timer of every
\* revision fires, in any order.
DebouncedUncleared(p, r) ==
  /\ r \in 1..watched[p]
  /\ replica' = [replica EXCEPT ![p] = r]
  /\ UNCHANGED <<log, cache, wire, watched, debounced, waits, want,
                 calls, failures, restarts>>

\* The debounce timer: Storage.receive replaces the store and notifies every
\* subscriber; a waiting call that sees what it waits for unsubscribes.
Debounced(p, r) ==
  /\ debounced[p] = r /\ r # 0
  /\ replica' = [replica EXCEPT ![p] = r]
  /\ debounced' = [debounced EXCEPT ![p] = 0]
  /\ waits' = [waits EXCEPT ![p] =
       [i \in DOMAIN @ |-> IF @[i].outcome = "waiting" /\ Satisfied(@[i], log[r])
                           THEN [@[i] EXCEPT !.outcome = "ok"] ELSE @[i]]]
  /\ UNCHANGED <<log, cache, wire, watched, want, calls, failures, restarts>>

\* MAX_WAIT_TIME elapses: unsubscribe and reject.
Timeout(p, i) ==
  /\ TimersFire
  /\ waits[p][i].outcome = "waiting"
  /\ waits' = [waits EXCEPT ![p][i].outcome = "timeout"]
  /\ UNCHANGED <<log, cache, wire, watched, debounced, replica, want,
                 calls, failures, restarts>>

Restart(p) ==
  /\ restarts < MaxRestarts
  /\ restarts' = restarts + 1
  /\ Reset(p)

Call(p) ==
  \/ \E k \in Key, v \in Value : setItem(p, k, v)
  \/ \E k \in Awaited, v \in Value : setItemAndWait(p, k, v)
  \/ \E k \in Key : removeItem(p, k)
  \/ \E k \in Awaited : removeItemAndWait(p, k)
  \/ clear(p)

Next ==
  \E p \in Pod :
    \/ Call(p)
    \/ SendInterval(p)
    \/ \E j \in DOMAIN wire[p] : ServePatch(p, j)
    \/ \E j \in DOMAIN wire[p] : FailPatch(p, j)
    \/ \E j \in DOMAIN wire[p] : Answer(p, j)
    \/ Receive(p)
    \/ \E r \in 1..Latest : Debounced(p, r)
    \/ \E i \in DOMAIN waits[p] : Timeout(p, i)
    \/ Restart(p)

Spec == Init /\ [][Next]_vars

\* No more revisions than this are made: a cache is sent at most MaxInFlight times
\* before it is flushed, and filled only by calls and failures.
MaxRevision == 1 + MaxInFlight * (MaxCalls + MaxFailures)

\* Intervals and timers fire, the API server answers, and the watch stays up.
\* Nothing makes a capability call, and nothing makes a pod or a patch fail. A
\* debounce timer that is set again before it fires need not fire.
Fairness ==
  \A p \in Pod :
    /\ WF_vars(SendInterval(p))
    /\ WF_vars(\E j \in DOMAIN wire[p] : ServePatch(p, j))
    /\ WF_vars(\E j \in DOMAIN wire[p] : Answer(p, j))
    /\ WF_vars(Receive(p))
    /\ \A r \in 1..MaxRevision : WF_vars(Debounced(p, r))
    /\ WF_vars(\E i \in DOMAIN waits[p] : Timeout(p, i))

FairSpec == Spec /\ Fairness

(***************************************************************************)
(* Properties.                                                             *)
(***************************************************************************)

\* A pod holds only revisions the watch has delivered, and its debounce timer the
\* newest of them.
TypeOK ==
  /\ log # << >>
  /\ watched \in [Pod -> Nat] /\ debounced \in [Pod -> Nat] /\ replica \in [Pod -> Nat]
  /\ \A p \in Pod :
       /\ debounced[p] # 0 => debounced[p] = watched[p]
       /\ replica[p] <= watched[p] /\ watched[p] <= Latest

Idle == \A p \in Pod : cache[p] = << >> /\ wire[p] = << >>

\* When there is nothing left to send or to answer, the store holds what the
\* last call on each key asked for: no write was lost on the way, none was
\* overtaken by an earlier one.
PersistedWhenIdle == Idle => log[Latest] = want

\* A pod's view of the store never goes back to an older revision, but for a
\* pod that starts over.
MonotonicReads == [][\A p \in Pod : replica'[p] >= replica[p] \/ replica'[p] = 0]_vars

\* Caches empty in the end, also after failures: a patch is not retried for ever.
Drains == <>[]Idle

\* Every pod ends up with the latest revision, whatever became of the patches.
Converges == <>[](\A p \in Pod : replica[p] = Latest)

\* A set or remove that waits is answered once what it wrote is in the store.
Waiting(p, i) == i \in DOMAIN waits[p] /\ waits[p][i].outcome = "waiting"
Answered(p, i) == i \in DOMAIN waits[p] /\ waits[p][i].outcome = "ok"
WaitsAnswered ==
  \A p \in Pod, i \in 1..MaxCalls : Waiting(p, i) ~> Answered(p, i)

\* The store is an eventually consistent shared map, for capabilities that take
\* no liberties and an API server that does not fail.
Register == INSTANCE EventualRegister WITH history <- log, view <- replica
ImplementsRegister == Register!Spec
=============================================================================

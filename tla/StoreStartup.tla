---------------------------- MODULE StoreStartup ----------------------------
(***************************************************************************)
(* How the pods of a module start on the two store resources of the module *)
(* (controller/store.ts, controller/migrateStore.ts, controller/index.ts): *)
(* each reads or creates the resource of the capabilities' stores, moves   *)
(* the keys an older Pepr wrote to their new names, watches it, becomes    *)
(* ready with the first revision, and does the same with the resource of   *)
(* the schedules.                                                          *)
(*                                                                         *)
(* Keys are strings with a structure that matters here: a capability's     *)
(* name, a dash, for the new keys "v2" and a dash, and the item's name.    *)
(* They are sequences of parts. The data of a resource is a function on    *)
(* the keys that are there. How a ready pod batches its writes is the      *)
(* subject of PeprStore; here a write is one step.                         *)
(*                                                                         *)
(* Names are apart from those of Schedule, so that one module can extend   *)
(* both.                                                                   *)
(***************************************************************************)
EXTENDS Integers, SequencesExt

CONSTANTS
  Pod,
  Name,         \* the names of the capabilities
  Scheduled,    \* those with hasSchedule
  Item,         \* the names of their items
  Value,
  NoValue,      \* the item is not in the store
  Failing,      \* the requests that may fail, as <<store, request>>
  MaxFailures, MaxStarts, MaxWrites  \* bounds

Store == {"store", "schedule"}
Controller == Pod \X Store  \* the StoreControllers

\* The capabilities whose storage the controllers of a resource hold.
NamesOf(s) == IF s = "schedule" THEN Scheduled ELSE Name

Requests == {"get", "label", "migrate", "apply"}

ASSUME StartupAssumption ==
  /\ Name \subseteq Seq(STRING) /\ Scheduled \subseteq Name /\ Item \subseteq Seq(STRING)
  /\ Failing \subseteq Store \X Requests
  /\ {MaxFailures, MaxStarts, MaxWrites} \subseteq Nat
  /\ NoValue \notin Value

VARIABLES
  exists,   \* exists[s]: the resource is there
  data,     \* data[s]: its data
  stage,    \* stage[c]: how far the controller is
  copy,     \* copy[c]: the data it read
  want,     \* want[s][n, i]: what the last write made of the item
  failures, starts, writes

startupVars == <<exists, data, stage, copy, want, failures, starts, writes>>

Stage == {"start", "labelling", "migrating", "creating", "watching", "ready", "stuck"}

OldKey(n, i) == n \o <<"-">> \o i
NewKey(n, i) == n \o <<"-", "v2", "-">> \o i
OwnedItem == Name \X Item

Empty == [k \in {} |-> NoValue]

\* A resource that exists holds some items, each under its old key or its new
\* one; that of the schedules also some of capabilities that have no schedules any
\* more. What they hold at first does not matter.
StartupInit ==
  /\ exists \in [Store -> BOOLEAN]
  /\ \E held \in [Store -> SUBSET OwnedItem], new \in SUBSET OwnedItem, v \in Value :
       LET KeyOf(o) == IF o \in new THEN NewKey(o[1], o[2]) ELSE OldKey(o[1], o[2])
       IN /\ \A s \in Store : ~exists[s] => held[s] = {}
          /\ want = [s \in Store |->
               [o \in OwnedItem |-> IF o \in held[s] THEN v ELSE NoValue]]
          /\ data = [s \in Store |-> [k \in {KeyOf(o) : o \in held[s]} |-> v]]
  /\ stage = [c \in Controller |-> "start"]
  /\ copy = [c \in Controller |-> Empty]
  /\ failures = 0 /\ starts = 0 /\ writes = 0

(***************************************************************************)
(* The start of a controller.                                              *)
(***************************************************************************)

Reaches(c, there) == stage' = [stage EXCEPT ![c] = there]

Fail(c, request) ==
  /\ <<c[2], request>> \in Failing
  /\ failures < MaxFailures
  /\ failures' = failures + 1

\* The controller of the schedules is made when that of the stores is ready.
Begun(c) == c[2] = "schedule" => stage[<<c[1], "store">>] = "ready"

Get(c) ==
  /\ stage[c] = "start" /\ Begun(c)
  /\ \/ /\ exists[c[2]]
        /\ copy' = [copy EXCEPT ![c] = data[c[2]]]
        /\ Reaches(c, "labelling")
        /\ UNCHANGED failures
     \/ ~exists[c[2]] /\ Reaches(c, "creating") /\ UNCHANGED <<copy, failures>>
     \/ Fail(c, "get") /\ Reaches(c, "creating") /\ UNCHANGED copy
  /\ UNCHANGED <<exists, data, want, starts, writes>>

\* Mutant of Label: nothing is migrated.
LabelOnly(c) ==
  /\ stage[c] = "labelling"
  /\ Reaches(c, "watching")
  /\ UNCHANGED <<exists, data, copy, want, failures, starts, writes>>

\* The patch with the cacheID label; its failure is taken for a missing resource.
Label(c) ==
  /\ stage[c] = "labelling"
  /\ \/ Reaches(c, "migrating") /\ UNCHANGED failures
     \/ Reaches(c, "creating") /\ Fail(c, "label")
  /\ UNCHANGED <<exists, data, copy, want, starts, writes>>

\* The keys that migrateAndSetupWatch takes for those of capability n.
KeysToMove(n, read) ==
  {k \in DOMAIN read : IsPrefix(n, k) /\ ~IsPrefix(n \o <<"-", "v2">>, k)}

\* What follows the name and one more character.
Sliced(n, k) == SubSeq(k, Len(n) + 2, Len(k))

\* Mutant of Migration: the old keys stay.
MigrationCopies(s, read) ==
  UNION {{[remove |-> {}, add |-> NewKey(n, Sliced(n, k)), value |-> read[k]] :
            k \in KeysToMove(n, read)} : n \in NamesOf(s)}

\* The operations on resource s that move what has been read of it.
Migration(s, read) ==
  UNION {{[remove |-> {OldKey(n, Sliced(n, k))}, add |-> NewKey(n, Sliced(n, k)),
           value |-> read[k]] : k \in KeysToMove(n, read)} : n \in NamesOf(s)}

\* The API server: a patch that removes a key that is not there is unprocessable.
Moved(moves, held) ==
  LET gone == UNION {m.remove : m \in moves}
      put == {m.add : m \in moves}
  IN IF gone \subseteq DOMAIN held
     THEN [k \in (DOMAIN held \ gone) \cup put |->
             IF k \in put THEN (CHOOSE m \in moves : m.add = k).value ELSE held[k]]
     ELSE held

\* Mutant of Migrate: with nothing to move the function returns.
MigrateReturns(c) ==
  /\ stage[c] = "migrating"
  /\ Migration(c[2], copy[c]) # {}
  /\ data' = [data EXCEPT ![c[2]] = Moved(Migration(c[2], copy[c]), @)]
  /\ Reaches(c, "watching")
  /\ UNCHANGED <<exists, copy, want, failures, starts, writes>>

\* The patch that moves the keys read, and then the watch, whatever the answer.
Migrate(c) ==
  /\ stage[c] = "migrating"
  /\ \/ data' = [data EXCEPT ![c[2]] = Moved(Migration(c[2], copy[c]), @)] /\ UNCHANGED failures
     \/ Fail(c, "migrate") /\ UNCHANGED data
  /\ Reaches(c, "watching")
  /\ UNCHANGED <<exists, copy, want, starts, writes>>

\* Mutant of Create: the watch does not wait for the resource.
CreateUnawaited(c) ==
  /\ stage[c] = "creating"
  /\ exists' = exists \/ exists' = [exists EXCEPT ![c[2]] = TRUE]
  /\ Reaches(c, "watching")
  /\ UNCHANGED <<data, copy, want, failures, starts, writes>>

\* createStoreResource applies a placeholder, which leaves other keys alone.
\* When that fails, nothing more happens.
Create(c) ==
  /\ stage[c] = "creating"
  /\ \/ /\ exists' = [exists EXCEPT ![c[2]] = TRUE]
        /\ Reaches(c, "watching")
        /\ UNCHANGED failures
     \/ Fail(c, "apply") /\ Reaches(c, "stuck") /\ UNCHANGED exists
  /\ UNCHANGED <<data, copy, want, starts, writes>>

\* The first revision the watch delivers makes the controller ready: it binds the
\* endpoints, starts the watches and makes the controller of the schedules.
Deliver(c) ==
  /\ stage[c] = "watching"
  /\ Reaches(c, "ready")
  /\ UNCHANGED <<exists, data, copy, want, failures, starts, writes>>

(***************************************************************************)
(* Writes of capabilities that are ready, and restarts.                    *)
(***************************************************************************)

Put(c, o, v) ==
  /\ stage[c] = "ready" /\ o[1] \in NamesOf(c[2]) /\ writes < MaxWrites
  /\ want' = [want EXCEPT ![c[2]][o] = v]
  /\ data' = [data EXCEPT ![c[2]] =
       [k \in DOMAIN @ \cup {NewKey(o[1], o[2])} |-> IF k = NewKey(o[1], o[2]) THEN v ELSE @[k]]]
  /\ writes' = writes + 1
  /\ UNCHANGED <<exists, stage, copy, failures, starts>>

Drop(c, o) ==
  /\ stage[c] = "ready" /\ o[1] \in NamesOf(c[2]) /\ writes < MaxWrites
  /\ NewKey(o[1], o[2]) \in DOMAIN data[c[2]]
  /\ want' = [want EXCEPT ![c[2]][o] = NoValue]
  /\ data' = [data EXCEPT ![c[2]] = [k \in DOMAIN @ \ {NewKey(o[1], o[2])} |-> @[k]]]
  /\ writes' = writes + 1
  /\ UNCHANGED <<exists, stage, copy, failures, starts>>

StartOver(p) ==
  /\ stage' = [c \in Controller |-> IF c[1] = p THEN "start" ELSE stage[c]]
  /\ copy' = [c \in Controller |-> IF c[1] = p THEN Empty ELSE copy[c]]
  /\ UNCHANGED <<exists, data, want, failures, writes>>

RestartPod(p) == starts < MaxStarts /\ starts' = starts + 1 /\ StartOver(p)

\* The probes ask for /healthz, which is bound when the stores are ready.
ProbeFails(p) == stage[<<p, "store">>] = "stuck" /\ StartOver(p) /\ UNCHANGED starts

Step(c) == Get(c) \/ Label(c) \/ Migrate(c) \/ Create(c) \/ Deliver(c)

StartupNext ==
  \/ \E c \in Controller : Get(c)
  \/ \E c \in Controller : Label(c)
  \/ \E c \in Controller : Migrate(c)
  \/ \E c \in Controller : Create(c)
  \/ \E c \in Controller : Deliver(c)
  \/ \E c \in Controller, o \in OwnedItem, v \in Value : Put(c, o, v)
  \/ \E c \in Controller, o \in OwnedItem : Drop(c, o)
  \/ \E p \in Pod : RestartPod(p)
  \/ \E p \in Pod : ProbeFails(p)

StartupSpec == StartupInit /\ [][StartupNext]_startupVars

\* Requests are answered, the watch delivers, and the kubelet acts on its probes.
StartupFairSpec ==
  /\ StartupSpec
  /\ \A c \in Controller : WF_startupVars(Step(c))
  /\ \A p \in Pod : WF_startupVars(ProbeFails(p))

(***************************************************************************)
(* Properties.                                                             *)
(***************************************************************************)

\* What is read of an item that may still be under its old key.
Found(s, o) ==
  LET new == NewKey(o[1], o[2])
      old == OldKey(o[1], o[2])
  IN IF new \in DOMAIN data[s] THEN data[s][new]
     ELSE IF old \in DOMAIN data[s] THEN data[s][old] ELSE NoValue

\* A resource is there when a controller watches it or has read it, and only
\* what exists holds data.
StartupTypeOK ==
  /\ \A s \in Store : exists[s] \in BOOLEAN /\ (~exists[s] => data[s] = Empty)
  /\ stage \in [Controller -> Stage]
  /\ \A c \in Controller :
       stage[c] \in {"labelling", "migrating", "watching", "ready"} => exists[c[2]]
  /\ want \in [Store -> [OwnedItem -> Value \cup {NoValue}]]
  /\ failures \in 0..MaxFailures /\ starts \in 0..MaxStarts /\ writes \in 0..MaxWrites

\* No item is lost, brought back or set back by the migrations of pods that start
\* at different times from copies of different age, nor any of a capability that has no
\* schedules any more.
Kept == \A s \in Store, o \in OwnedItem : Found(s, o) = want[s][o]

\* Once a pod is ready, every item of its capabilities can be read under its new key.
ReadyHasAll ==
  \A c \in Controller :
    stage[c] = "ready" =>
      \A o \in NamesOf(c[2]) \X Item :
        want[c[2]][o] # NoValue => NewKey(o[1], o[2]) \in DOMAIN data[c[2]]

\* Every pod becomes ready in the end, whatever fails of the creation of the
\* capabilities' store.
AllReady == <>[](\A c \in Controller : stage[c] = "ready")
=============================================================================

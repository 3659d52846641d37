# Pepr, formally

TLA+ models of the parts of Pepr whose correctness depends on order, time and
failure, the TLC runs that check them on small instances, and TLAPS proofs of what
holds for every value of the constants. Paths below are relative to the
repository's `src/lib/`, those that begin with `cli/` to its `src/`.

## The system

A Pepr module is a set of *capabilities*. Each registers actions on Kubernetes
resources (`When(...).Mutate / Validate / Watch / Reconcile / Finalize`) and may have a
schedule and a key-value store. The module runs as admission pods, which answer the API
server's webhooks, and one watch pod, which watches resources and runs schedules. The
pods share nothing but the cluster: resources, their finalizers, and two `PeprStore`
resources (`store`, `schedule`).

| component | state | operations | talks to |
|---|---|---|---|
| Action registration (`core/capability.ts`) | `bindings` of a capability; its two `Storage` objects | `When` chain, `OnSchedule`, `registerStore`, `registerScheduleStore` | controller, schedules, build |
| Reconcile queues (`core/queue.ts`, `processors/watch-processor.ts`) | `queues` by key; `#queue`, `#pendingPromise` | `runBinding`, `getOrCreateQueue`, `enqueue`, `#dequeue` | watch client (events), user callbacks |
| Pepr Store (`core/storage.ts`, `controller/store.ts`, `controller/storeCache.ts`) | per pod: `#store`, subscribers, `storeCache`, debounce timer; in the cluster: `data` | `getItem`, `setItem(AndWait)`, `removeItem(AndWait)`, `clear`, `subscribe`, flush interval, `#receive` | API server (patch, watch), schedules |
| Store start (`controller/store.ts`, `controller/migrateStore.ts`) | whether the resource exists and is watched | get, apply, migrate to v2 keys, set up the watch, `onReady` | API server, controller |
| Schedules (`core/schedule.ts`) | `completions`, `lastTimestamp`, the timer; the stored entry | `setStore`, `start`, `stop`, the interval | schedule store |
| Finalizers (`finalizer.ts`, `processors/watch-processor.ts`) | `metadata.finalizers` of the object | `addFinalizer`, `finalizeCallback`, `removeFinalizer` | admission, watch, API server |
| Admission (`processors/mutate-processor.ts`, `validate-processor.ts`, `controller/index.util.ts`) | the response being built | `mutateProcessor`, `validateProcessor`, `processRequest`, `karForMutate`, `karForValidate` | filters, callbacks |
| Controller (`controller/index.ts`, `core/module.ts`, `controller/createHooks.ts`) | running, endpoints bound, stores ready | `startServer`, `#bindEndpoints`, `#admissionReq`, hooks | all of the above |
| Filters (`filter/`) | none | `shouldSkipRequest`, `filterNoMatchReason`, adjudicators | admission, watch |
| RBAC, webhook rules, namespace checks (`helpers.ts`, `assets/rbac.ts`, `assets/webhooks.ts`) | none | `createRBACMap`, `validateRule`, `webhookConfigGenerator`, compliance checks | build |
| Deployment (`assets/deploy.ts`, `assets/k8sObjects.ts`, `deploymentChecks.ts`, `src/runtime/controller.ts`) | in the cluster: webhooks, CRD, role, secrets, Deployments, pods; in a pod: what it read when it started | `npx pepr deploy`, `checkDeploymentStatus`, `runModule`, `startup` | API server, registration, controller |
| Metrics (`telemetry/metrics.ts`, `webhookTimeouts.ts`) | counters, cache miss windows | `incCounter`, `initCacheMissWindow`, `observeEnd` | watch, controller |
| Feature flags (`features/`) | the flag map | `initialize`, `get` | controller |
| Manifests and charts (`cli/build/`, `assets/assets.ts`, `assets/helm.ts`, `assets/index.ts`, `assets/yaml/`) | the files of the output directory, of this build and of earlier ones; the image in the registry | `npx pepr build`; then `kubectl apply`, `helm upgrade` | registration, RBAC, rules; docker, Helm |
| Dev mode (`cli/dev.ts`, `cli/build/buildModule.ts`) | the file in `dist`, the module's process, the webhooks, the capabilities last loaded | rebuild, reload, `runFork`, the handlers of `exit` and `close` | esbuild, child processes, API server |
| Rest of the CLI, SDK, templates | none | prompts, text, log output | |

How they interact: the watch client calls the handler of `runBinding` for each event and
does not wait for it; the handler calls the user's callback at once or through a queue.
User callbacks write the store; its writes are batched, sent, come back through a watch,
and are only then visible to `getItem`. `OnSchedule` waits for the schedule store, reads
its entry from it and writes it after each run. `Finalize` registers a mutation, which
admission runs, and a watch binding, which the watch pod runs; they meet in the object.
The controller binds its endpoints and starts the watches when the first revision of the
store has arrived.

What is hard about it, with what would make it correct:

* **Queues.** Callbacks of one queue must not overlap and must keep the order of events;
  a callback that throws or hangs must not stop what it does not have to.
* **Store.** Batches overlap with new writes, with each other, and with failures; views
  lag. A write must reach the resource, the last one must win, views must not go back,
  a call that waits must be answered.
* **Schedules.** The process may end between a run and its save. Runs must keep their
  distance, a limited schedule must end, and must not run more than it may.
* **Finalizers.** Handlers of one deletion overlap, their patches are made from old
  copies, the name may be taken by a new object, the controller may be down when the
  deletion happens. An object must not go before its callback, nor stay for ever.
* **Store start.** Several pods create or migrate the resource at once, from copies of
  different age, while pods that are ready write. Nothing may be lost or set back, and
  the first revision that arrives must find every pod ready to go on.
* **Admission.** Actions fail before or after they have changed the object, calls get no
  answer, an answer cannot be made. What failed must not be taken for admission where the
  module asks for rejection, and the statuses on the object must be of what happened.
* **Filters, RBAC, rules.** The webhook rules, the filters and the checks of the build
  decide in different words on the same binding; the permissions and rules generated must
  cover what the bindings use.
* **Deployment.** Resources are replaced one after the other, any request may fail, and
  nothing is undone. Pods of two builds start, or start again, in between, and read the
  code, the certificate and the path once. Old code must not answer new webhooks, two
  watchers must not run, a command that ends must leave pods that serve, and a module's own
  webhooks may stand in the way of it all. What a module registers differs with its mode:
  the build decides on webhooks, Deployments and roles for processes that register others.

* **Manifests and charts.** The same objects are described twice, as data and as templates
  with values. Values are put into text by search and replacement. The directory is never
  emptied, files are written side by side, and a step that fails leaves a mixture. The chart
  must make what the manifest makes, and what is installed must fit together: webhooks and
  certificate, Deployment and code, name and image.
* **Dev mode.** Edits come while the module is being killed, deployed or started; what a
  process's end starts runs beside what the next start does. There must be one process, in
  the end of the last version, with the webhooks of that version.

`PROJECT.json` lists every hazard at its line with the properties aimed at it.

## Modules

| module | what it is |
|---|---|
| `SerialLanes` | abstract: events of one lane are handled one at a time, in order |
| `ReconcileQueue` | queues, keys, the handler, callbacks that return, throw or hang; implements `SerialLanes` |
| `StoreCache` | operators: the write cache, its flush, and what a JSON patch does |
| `EventualRegister` | abstract: an eventually consistent map shared by the pods |
| `PeprStore` | storage, sender, watch, debounce, waiting calls, restarts; implements `EventualRegister` for disciplined callers |
| `Schedule` | one schedule of the watch pod, clocked in ticks |
| `Registration` | operators: what a chain registers in each mode, with its event and its filters |
| `Finalizer` | one object name, the objects that have it one after the other, the filters of a chain in admission and in the watch, handlers, restarts |
| `Filters` | operators: the adjudicators, and the filters of admission and of the watch made of them |
| `Compliance` | operators: the namespace checks of a build, and the namespaces a module ignores |
| `Webhooks` | operators: the rules and webhooks generated from a module, and which of them the API server calls |
| `Admission` | one request through the API server and the two processors of a module |
| `StoreStartup` | the two store resources and the pods that create, migrate and watch them |
| `Manifests` | operators: which webhooks, Deployments and permissions are made of a module; `Deployment` and `Chart` rest on it |
| `Chart` | the build's steps and the directory they write to, the manifest and the chart made from it, and their installation |
| `DevMode` | the process of `npx pepr dev`, the module's processes and its webhooks |
| `Deployment` | builds, `npx pepr deploy`, the Deployment controller, what pods read, permissions |
| `MC*` | small instances of the above |
| `*Proofs` | the theorems about the module they are named for; those about `StoreStartup`, which schedules wait for, are in `ScheduleProofs`, which extends both |

Operators beside an action or helper that are introduced as mutants are faulty variants
of it, the way a plausible bug would make them; `PROJECT.json` says which property
notices which.

### ReconcileQueue

`event` is every event the client has delivered to the handler, in order, with its
binding and how its callback will end; `status[n]` is the promise of the n-th. `queue`
and `busy` are `#queue` and `#pendingPromise` of the queue for each key. An action runs
from one await to the next: `Enqueue` is `enqueue` with the `#dequeue` it calls,
`Reconciled` is the continuation after the callback, the `finally` and the `#dequeue` in
it. Keys are tuples of the fields `queueKey` joins; a field the object lacks is the
constant `Absent`, as the code's defaults are. `FilterMatch` stands for the filters.

The default strategy keeps the order of each object only, although the Reconcile page
speaks of a queue per kind; `Strategies` has all but `kindNs` and `kindNsName`, of which
the second is what `unset` means, and the first joins fewer queues than `kind`.

### PeprStore and StoreCache

`log` is the sequence of data the resource has had; revisions are its indexes. Every
accepted patch makes one, since `updateCacheID` changes a label with it. A pod's `cache` is a sequence of
entries with distinct indexes, since a JavaScript object keeps insertion order and the
place of a key that is assigned again; `AddIndex` is the index string, a constant
function so that an instance may make two collide. `wire` holds what was sent, as a copy:
`sendUpdatesAndFlushCache` makes its patch before the await. `Answer` is what follows the
await: it works on the cache *as it is then*, which is the point. `watched`, `debounced`
and `replica` are the revisions delivered, held by the timer, and taken over. `waits` are
the subscriptions of `setItemAndWait` and `removeItemAndWait`. `Liberty` says what calling code may do;
with no liberty, it writes while nothing of its pod is unanswered, writes no key twice before the
first write is settled, removes only what is there, clears at most one key and only when no write
is on its way on any pod, and does not write a key somebody waits for. `clear` removes the keys that the replica has
(`storage.ts:112`); a write that is on its way is not among them, and is stored after it.

A call that waits may be answered by a revision older than itself, if that has the value
it waits for; `WaitsAnswered` says that it is answered, not by what.

### Schedule

Time is what has passed and what is left, both cut off where they make no difference.
`timer` is the `setTimeout` of `setupInterval` or the `setInterval` of `start`; Node arms
an interval again when it fires, so `Run` does. `stored` is the entry in the store,
with the age of its `lastTimestamp`; `unsent` is the write that is still in the cache.
`Restart(TRUE)` is a run that throws: uncaught in a timer, it ends the process after the
run and before the count. `SentInTime` keeps time from passing while a write is older
than an interval: caches are sent every 4 s, and runs are at least 10 s apart.

### Finalizer

`object` is what the API server holds under the name, `uid` which object it is, with its
finalizers and labels. `stream`
are watch events not yet handed over, each with the object as it was; `handlers` are the
asynchronous handlers still running, as many as there are events, since Finalize bindings
are not queued. `module` and `place` are chosen at the start: a chain with a Finalize, the
namespaces of its capability and those the module ignores; the name and namespace of the
object. `ForAdmission` and `ForWatch` hold what `Registration` makes of the chain in the two
kinds of pods against `shouldSkipRequest` and `filterNoMatchReason` of `Filters`;
`watchIgnored` is the list `#createHooks` gives to the watch, which is not the one admission
uses. `Admitted` is a request after the webhook: `addFinalizer` is applied to what would be
stored; with failurePolicy Ignore a request may pass by the webhook. `Patch` replaces the
finalizers of whatever object has the name by those of the event without Pepr's. The API
server refuses new finalizers on an object that is being deleted. `PatchFails` is a request
that fails for any other reason: the error is logged and the handler ends; Pepr tries again only
when the object changes (the client's relists are not modelled). Labels change only while
the object is live. `past` is history for the properties only; its `unpatched` says that the
patch for the object's latest event has failed and nothing has changed of it since.

### Admission, Filters, Compliance, Webhooks

`Filters` has one operator per adjudicator, each true when it turns the object down, and
`shouldSkipRequest` is their disjunction, as in the code. `Builds` is
`namespaceComplianceValidator` over all bindings: a module that fails it is never deployed.
`webhookConfigGenerator` gives the sequence of webhooks, each with its failure policy and
its namespace selector; the first leaves the namespaces of the additional ones to them.
`MatchesRule`, `SelectedBy` and `WebhooksCalled` are the API server.

In `Admission` the API server calls the webhooks of the mutation one after the other, each
with the object the last one left (`Call`, `Answer`), then those of the validation, then
stores the object or rejects it. `todo` is what is left of the array `bindables`, which
`mutateProcessor` and `validateProcessor` choose before the first action runs. `Mutate` and
`Validate` are one turn of their loops. A mutation that throws may have changed the object
before (`changes`); the warning stays in the response, and `Rejecting` ends the loop.
`FailCall` is a call without an answer, `ThrowUnprintable` an exception inside the `catch`
of the validation: both leave it to the failure policy (`PassOver`). `changes` is history,
and `succeeded`, `failed`, `denied`, `threw`, `warned`, `mutated`, `open` are for the
properties. `Applies` is the reference the filters, the rules and the checks of the build are
held against: what the author of a binding means by it.

`AdmissionAssumption` says that namespaces have names, that patterns compile, that the
plural a rule is made from is the resource of the requests for the kind, that no two additional webhooks
have one namespace (it is part of their names, which the API server wants distinct), that an action
mutates or validates (each has a copy of the binding), and that a request says of each capability
what its status annotation is, "" if there is none. `StatusTells` is about a request that may bring
statuses of earlier ones with it. Base64 of secrets,
the text of patches, audit annotations and `PEPR_ADDITIONAL_IGNORED_NAMESPACES` are left out.

### StoreStartup

A key is a sequence of parts, which are strings: the capability's name, a dash, `v2` and a dash for the new
keys, the item. Names and items are sequences of parts too, so that a name may begin with another. `stage` is how far a controller of one store is, `copy` the data it read
and made its migration from. The migration is one patch, refused as a whole when a key it
removes is gone: then another pod has moved it. `Deliver` is the first revision of the
watch: it calls `onReady`, which binds the endpoints and makes the controller of the
schedules. A failed `apply` leaves the controller `stuck`; for the capabilities' store the
kubelet then starts the pod over, since `/healthz` is not bound (`ProbeFails`). No probe covers
the store of schedules, which is why the run lets only the first `apply` fail. `NamesOf` are the
capabilities whose storage the controllers of a resource hold: for the resource of the schedules those
with `hasSchedule`, and only their keys are moved there. That resource may also hold keys of a capability
that has no schedules any more (nobody writes them; they stay as they are). A failed read
or label is taken for a missing resource: the old keys then stay where nobody reads them until
the next start (`Failing` with `<<"store", "get">>` breaks `ReadyHasAll`).

### Registration, Deployment

A chain is its binding, as the event and the filters have made it, and the methods that
register an action; `bindings(chains, mode)` is what a capability has after all of them.
`WellTyped` is what the types of `types.ts` let a program write: no Finalize without a Watch
or Reconcile, and not both of these.

In `Deployment` every build makes a new certificate, path and time stamp, so builds are told
apart by their number, and `held[r]` is the number of the build that the resource `r` was last
applied from. `Apply` is one step of `deployWebhook`, in the order of `Steps`, which includes the
deletion of a webhook that is no longer needed; a Deployment that is no longer needed stays, as
in the code. `ApplyFails` ends the command. A pod is what its template was of, and what its
process has read (`code`, `path`, `tls`). `StartPod` has as guards all that makes a container
start over if it is not so: the secrets it mounts, the CRD its runtime applies, the file of
its hash. Nothing keeps it from starting while the command still applies the secrets: `early` is
history, and says that a process read before the command of its build had got past the path.
`Registered` is what the pods of a Deployment register of a build in their mode, `Parts` which bindings
in which pods it takes to do what a method of a chain is called for. `CreatePod` and `RemovePod` are the Deployment controller with the replicas and
strategies of `k8sObjects.ts`. `clusterRole` is the role `createRBACMap` makes from the bindings
of the build, `Watched` what a watch pod of that build then watches. `CheckReady` is
`checkDeploymentStatus`, which counts the ready pods of any build: that it says "done" does
not imply `RolledOut`, and `RollsOut` is about the end.

### Manifests, Chart

`dir[f]` is the number of the build that wrote file `f` last; files that are the same in
every build of a module are one (`fixed`). `Steps` is the order of `generateDeploymentAssets`,
`generateYamlAndWriteToDisk` and `generateHelmChart`. `Step` writes the files of a step, if
the conditions of `writeWebhookFiles` hold (`Writes`); nothing is ever removed. `StepFails`
leaves any part of the files that one `Promise.all` writes. `Refused` is a type error: the
command then ends with 0, and the files of the build before stay.

`generateAllYaml(n)` maps each object to what the manifest of build `n` says of it, `Absent`
if nothing. A webhook configuration has the first webhook and, in `additional`, those for the
namespaces that `package.json` names with policies of their own; the first ignores these namespaces.
`Rendered(override)` does the same for the chart that is in the directory, from
the build each file is of, through `overridesFile` (the values), `Given` (Helm's merge of a
user's values) and one operator per template. Of an object only that is kept in which the two
descriptions could differ: replicas, strategy, hash, image, ids, environment, mounts, priority,
labels. `createWebhookYaml` is the configuration after the replacements in its text: the module's
policy is replaced in every webhook that has it, the additional ones included; a timeout
that the project leaves undefined is not found there, and the digits of one that it sets are
replaced wherever they occur. `Digits` are the texts (`Place`: certificate, path, rules) in which they
may, chosen with each build; a text in which they do is another one once a different timeout is
given (`Garbled`). `accepts` is the schema that
the build makes from the values, in which only empty maps are open.
`HelmUpgrade` deletes what the last release had and the chart no longer has; `KubectlApply`
deletes nothing.

### DevMode

One action is what happens between two awaits of `dev`'s process, or what a child process
does by itself. `esbuild.step` says whether `onEnd` is under way, which esbuild awaits before
the next rebuild; `runs` are the calls of `runFork` under way. `handlers` counts the
`once("exit")` registered on a process, `deletes` the deletions that its `close` has
started. `capabilities` is the field of the one `Assets` object that all calls share, so a
call may apply webhooks from what a later one has loaded. Nothing waits for a killed process to be
gone, nor for the deletions: a rebuild may come before the exit, and then two calls of `runFork`
follow it; a deletion may come after the deployment. Three history variables, which no step depends
on, tell the properties what has happened: `doubled` counts the reloads that found the process killed
and not yet gone, `raced[t]` says that a deletion of webhook `t` was under way when it was last
deployed, `overtaken` that the last reload found the process gone: its handler never comes, but the
call of `runFork` under way then runs the file as it is.

## Runs

Passing runs:

| run | instance | what it shows |
|---|---|---|
| `ReconcileQueue` | 4 bindings (three queued, of which two share objects), 3 objects, 3 events, three strategies, callbacks that return, throw, hang | `ObjectOrder`, `NoIdleBacklog`, `ImplementsLanes`, `HandledUnlessHung` |
| `PeprStoreDisciplined` | 2 pods, 2 keys of which calls may wait for one, 3 calls, no failures, no liberties | `PersistedWhenIdle`, `ImplementsRegister`, `WaitsAnswered` |
| `PeprStoreHostile` | 1 pod, 1 key, 2 calls, 2 patches in flight, 1 failure, 1 restart, timeouts, redaction, all liberties | `MonotonicReads`, `Drains`, `Converges` |
| `Schedule` | interval 3 ticks, start time 2, limits 0, 3 and none, 3 restarts, 2 lost batches | `RunsApart`, `OverrunsOnlyAfterRestart`, `RunsItsCourse` |
| `Finalizer` | 2 chains with filters, in modules that ignore different namespaces, 2 namespaces, with or without the label; 2 objects of the name, 1 foreign finalizer, 1 update, 1 patch that fails, 1 restart, both failure policies, callbacks that return, refuse, throw | `AlwaysArmed`, `FirstFinalized`, `PatchesOwnOnly`, `DeletionEnds` |
| `Admission` | every module of 2 bindings out of ten mutating and validating ones (and one that does not build), both `onError`, ignored namespaces, no additional webhook or one with either policy; 16 requests for namespaced and cluster-scoped objects and namespaces | `RejectMeansProcessed`, `RejectMeansRejected`, `DenialStands`, `FailuresAreToldOf`, `StatusTells`, `MutatedOnce` |
| `StoreStartup` | 2 pods, 2 capabilities of which one has schedules, with 1 item each under its old or new key, 2 values, 1 failed creation, 1 restart, 1 write | `StartupTypeOK`, `Kept`, `ReadyHasAll`, `AllReady` |
| `Deployment` | 2 builds out of seven modules (admission and watch, in admin and in scoped mode, a scoped policy, a scoped one that finalizes, only a schedule, one that guards CRDs, one with a name that is refused), 2 replicas, 1 request that fails, 1 crash | `AnsweredByTheBuild`, `DeployedWhole`, `Permitted`, `DeployEnds`, `RollsOut` |
| `Chart` | 2 builds of four projects (all of admission and watch, with an environment of its own and an additional webhook of either policy; a policy with no timeout; a watcher with a schedule and labels; one that registers nothing), 3 sets of options (none; own registry and timeout; a private image, scoped, with a pull secret), 1 step that fails, 4 sets of values for Helm, 7 namespaces, a path and rules in which the digits of the timeout occur | `SameByChart`, `OverridesReach`, `Coherent`, `ImagesThere` |
| `DevMode` | 6 versions that register different webhooks, of which one does not build and one throws, 1 crash | `OneProcess`, `RunsLatest`, `WebhooksSettle` |

Type invariants that TLAPS proves are not run again, but for that of `StoreStartup`, which is more than types.

Why the bounds are enough: three events are the fewest with one running, one waiting and
a third behind it or in another queue; two patches in flight are the fewest that can
answer out of order; two calls and one failure are the fewest that lose a write; three calls are the fewest of
which one makes a key, one writes another and one clears while that is on its way; three
restarts and a limit of three let a run be repeated, saved, and repeated again; two objects of a name
are the fewest for a late handler that meets the next one, and an update, or the foreign
finalizer's removal, is the second event of a deletion and so its second handler; two
actions are the fewest of which one fails before or after the other, changes the labels
the other is chosen by, or shares its status; two pods are the fewest of which one
migrates what the other has read, and one write the fewest that a migration could undo; two builds are the fewest of
which one's pods meet the other's resources (three builds of two of the modules show nothing
more), and the fewest of which one's files lie under the other's; six versions let every change of
registration, an error and a throw follow each other while an older version is still being
replaced.

Runs that show a disagreement between the code and what is said of it (each is a finding,
quoted in `PROJECT.json`):

| run | what happens |
|---|---|
| `PeprStoreOverlap` | a write made while a patch is unanswered is dropped by the answer |
| `FinalizerRestart` | an object deleted while the watch pod is down is never finalized |

Other behaviours can be replayed by changing a cfg. In `PeprStoreDisciplined.cfg`:
`MaxFailures = 1` breaks `PersistedWhenIdle`: `sendUpdatesAndFlushCache` means to put the
operations of a failed patch back (`storeCache.ts:28`), but `payload[Number(index)]` is
undefined for an index such as `add:/data/...`, so the cache holds `undefined`, the next patch is
refused, and everything in it is lost;
`Liberty = {"clear"}` breaks `PersistedWhenIdle`, since `clear` joins several
keys into one path, which exists for none of them; `{"missing"}` breaks it since removing
an absent key is unprocessable and takes the batch with it; `{"rewrite"}` since a `clear`
leaves the writes on their way, and (with `Value <- MCValue`) since an index assigned again keeps its old place in the patch;
`AddIndex <- MCCollidingIndex` with two values since two operations may have one index string; `{"race"}` breaks
`WaitsAnswered`, since the debounce may skip the revision a call waits for. In
`ReconcileQueue.cfg`, `KindShown <- MCKindSometimesShown` breaks `ObjectOrder`: an
object delivered without its kind has another queue. In `StoreStartup.cfg`, `Name <- MCOverlapping` breaks `Kept`:
the migration of a capability `foo` takes the new keys of a capability `foo-bar`. In
`Finalizer.cfg`, `Modules <- MCIgnoredByWatch` breaks `DeletionEnds`: an object in a namespace
that only the watch ignores is armed and never called back for. A project of `MCChart` with `env |-> [PEPR_WATCH_MODE |-> ""]` breaks
`SameByChart`: `genEnv` deletes only a mode that is not empty, so the manifest's watcher starts with
an empty mode, as an admission pod, and the chart's does not. In `Finalizer` a late handler takes
the finalizer of the next object of the name, which then goes without its callback: that is
why `FirstFinalized` is about the first.

Behaviours that the models have, and that the properties leave out by name:

* A pod that starts between its Deployment and the path secret, or after a failure there, reads the
  old path and answers 401 until it is started again. In the run it does; `RollsOut` says that every
  other admission pod serves the webhooks in the end (without `\/ pod[s].early` it is violated).
* Two reloads between the kill of the process and its exit each register `runFork`, and two processes
  are started. In the run they are; `OneProcess` bounds the processes by one and one for each such
  reload, and `RunsLatest` says of the last one that it runs the last version, but not which has the port.
* A webhook of dev mode that is deployed while the deletion of the old one is under way may be deleted
  after it. In the run it is; `WebhooksSettle` says that no other webhook is missing or old in the end.
* After a failed patch for the latest event of a deletion nothing happens any more, until the object
  changes; `DeletionEnds` leaves it out (`unpatched`), and says that failed patches of earlier events do
  no harm.
* A failure policy given to Helm is put wherever the module's own is found, so also into an additional
  webhook whose policy happens to be the same; `OverridesReach` says exactly that of each namespace. Given
  a timeout, the chart's webhooks call with another certificate, on another path or by other rules if the digits of
  the old one occur there; `OverridesReach` says that they do then and only then, `Coherent` leaves those out.
* A schedule that has run its completions runs them all again after a restart of its pod: `stop`
  removes its entry (`schedule.ts:173`), and `checkStore` takes a schedule without one for a new one.
* A webhook file of a type that a module no longer has stays in the chart's directory, with the
  certificate and the path of its build (`SameByChart`, `Coherent`).
* A module that registers nothing has an admission Deployment in the manifest, and in the values, but
  no file for it in the chart (`SameByChart`).
* Names of pull secrets are put into the container by the chart's templates, where Kubernetes has no
  such field; in the manifest they are in the pod (`SameDeployment`).
* The chart's watcher is given `admission.alwaysIgnore` as `PEPR_ADDITIONAL_IGNORED_NAMESPACES`, which the
  watch adds to its own list (`SameIgnored`); `docs/user-guide/customization.md:232` has the two apart.
* With `--registry-info` and no `includedFiles` the files name an image that is not pushed (`ImagesThere`).
* A schema made from a sample knows no more keys of a map than the sample has, and none for a value
  that is undefined: namespace labels can be changed but not added, and a timeout can be given only
  if the project has one (`OverridesReach`).
* In dev mode a process that ends by itself is not started again by an edit, and a version that throws
  when loaded leaves `loadCapabilities` waiting, in the first run for ever (`RunsLatest`).

## Fairness

Only what Node and the cluster do by themselves is fair: timers that are set and not set
again, intervals, continuations of callbacks that end, answers of the API server, and the
delivery of watch events. Nothing makes a capability call, a user create or delete,
a pod restart or a patch fail; the number of patches of finalizers that fail is bounded. A callback that hangs has no fairness: `Reconciled` is not
enabled for it. In `Finalizer` other controllers remove their finalizers in the end and
callbacks end; `DeletionEnds` is about Pepr and would say nothing otherwise. A
debounce timer has fairness for each revision separately: one that is replaced need not
fire. In `StoreStartup` requests are answered, the watch delivers a first revision, and the
kubelet restarts a pod whose `/healthz` is not bound; failures and restarts are bounded.
In `Deployment` requests of the command end one way or the other, the check is repeated
every second, and the Deployment controller and the kubelet do their part, for each pod;
nobody has to build, and failures and crashes are bounded. `DeployEnds` and `RollsOut` are
about builds whose pods can start by themselves (`Viable`: not the module that guards CRDs,
nor scoped ones without the permissions they need) and that have the same Deployments, since
an orphan of an earlier build may keep the check waiting for ever.
In `DevMode` esbuild sees the last edit, its callbacks go on, killed processes end, and a server
whose port is free in the end listens; nobody has to edit, and crashes are not fair. The calls of `runFork`
share one fairness condition, as they share one process.
`Chart` has safety properties only: a build is one command, and nobody has to run the next.
`Admission` has no liveness property: the API server gives up on a call that hangs.

## Proofs

TLAPS checks these for any bindings, objects, pods, keys, values, durations and bounds, under the
named assumptions of the modules.

* `ReconcileQueueProofs`: `TypeCorrect`, `ObjectsInOrder` (objects are delivered with their kind),
  `NothingStranded`, `ImplementsSerialLanes`. The inductive invariant says that a queue holds
  exactly the waiting events of its key, in order, that the flag is set exactly while one event of
  the key runs, and that every earlier event of the key has settled. `ObjectOrder` alone is not
  inductive: it says nothing of what waits. The refinement maps each step to one step of the lanes.
* `PeprStoreProofs`: `TypeCorrect`, `ViewsInOrder` and `ReadsAreMonotonic`, for all liberties and
  failures. The invariant orders `replica <= debounced = watched <= Latest`; a view can only go back
  if the timer could hold something older than the view. `NothingLost` (`PersistedWhenIdle`) and
  `StoreIsRegister` (each step is one of `EventualRegister` or none) are for callers, patches and
  pods as in `PeprStoreDisciplined` (`Disciplined`, which also lets callers race for what others
  wait for) and for keys of which no two have one index string (`OwnIndexes`: two can only if one
  has a colon in it); the section on runs says how the result fails without each of these.
  `PersistedWhenIdle` speaks only of the end. `SInv` says of every state that what is wanted of a
  key is stored or in a cache that is still to be stored (`Kept`), that a cache and the patches made
  of it ask for what is wanted, are equal or the cache is empty, and remove only what is there
  (`PodOK`), and that no two pods have one key in hand (`Apart`), so that a stored patch undoes
  nothing of another pod's. It holds though the interval sends one cache several times: a patch is
  refused only when a copy of it has been stored, and then nothing is left to store. Trying to prove
  it showed that `clear` does not go with writes on their way: the run with two calls had not.
* `ScheduleProofs`: `TypeCorrect`, `RunsAreApart`, `OverrunsNeedRestart`. The invariant ties the
  timer to `sinceRun`: what an interval still has to wait and what has passed since the last run add
  up to the duration. It needs `Duration <= TimerLimit`; beyond 2^31 - 1 ms Node fires after 1 ms
  and the claim is false. Of `StoreStartup`: `StartTypeCorrect` for any names and failures, and
  `ItemsAreKept` (`Kept`) and `ReadyPodsHaveAll` (`ReadyHasAll`) for any pods, items, restarts and
  writes, under two hypotheses. `OwnKeys`: no capability's name begins with another's, and no item's
  with the part `v2`; with `MCOverlapping` `Kept` is false. `OnlyApplyFails`: of the requests only
  the creation fails, since a pod whose read or label fails goes on without migrating. Lemmas take
  keys apart (a key is of one item, and old or new) and say what one migration's patch does.
  `StartInv` then says that the data of a resource is what was last written of each item under one
  of its keys, and that a controller that has still to migrate holds a copy that is up to date, or
  there is nothing left to move: a ready pod writes only after a migration, so what a late migration
  read has either been moved already, and its patch is refused, or is as it was. Keys of capabilities that have no schedules any
  more are left where they are by all of this.
* `FinalizerProofs`: `TypeCorrect`, `ArmedAlways`, `FirstObjectFinalized`, `OwnFinalizerOnly`. The
  invariant adds that no event or handler is about a later object than the present one, that a
  handler about to patch the present object has had its callback, and that until then the first
  object is there with the finalizer. `FirstFinalized` is stated for the first object of a name
  since for later ones it is false. `AlwaysArmed` holds for any chains and filters: what admission
  stores of a request that its filters let through has the finalizer. `OwnFinalizerOnly`
  (`PatchesOwnOnly`) rests on `Shrinking`: an object that is being deleted gets no finalizer, so an
  event of its deletion has at least those it has when the event's handler patches it, however late.
* `AdmissionProofs`: `TypeCorrect`, `DenialsStand`, `FailuresReject`, `FailuresWarn`,
  `NothingUnprocessed`, `StatusesTell` and `MutatesOnce`, for any modules that build and any
  requests, under `AdmissionAssumption`. `NothingUnprocessed` is about the whole chain and rests on
  three lemmas: a binding meant for an object makes a rule and a webhook that select its request
  (`SentToSome`), under `onError: reject` the first webhook a request is sent to has failure policy
  `Fail` (`FirstIsStrict`), and no filter turns the request down (`NotSkipped`, which needs the
  checks of the build). The invariant `Processing` keeps in sight what is due: until it has
  succeeded, the first webhook is still to answer, and what its call has not run is in `todo`.
  `RejectMeansProcessed` is about stored objects and says nothing before that. For `StatusesTell`,
  `Telling` says what `StatusTells` says of the stored object of the one the API server holds and of
  the one a call works on, each with the actions that have been run on it. `MutatesOnce` follows
  from `SentToOne`: the selectors of the webhooks take the namespaces apart.
* `DeploymentProofs`: `TypeCorrect`, `AnswersAreOfTheBuild`, `WholeIsDeployed` and
  `WatchersArePermitted`, for any modules of well-typed chains and any number of builds, replicas,
  failures and crashes. `Applied` says that each step of the command before the present one has done
  what the last build needs; from it, and from the order of the steps, `Ordered` follows: no webhook
  is older than the code in the secret, no path is newer, and a process runs the code of its own
  build. A pod whose path is the webhook's is then squeezed between the two. `BuildBindings`,
  `ModeBindings`, `AdmissionBindings` and `BindingOfChain` relate what a module registers in different
  modes, through its chains; `RoleAllows` and `WholeIsDeployed` rest on them. `WholeIsDeployed` says of
  what is applied in full that the pods of each Deployment register, in their mode, every action that
  is theirs, and that there is a webhook exactly for what the admission pods register.

* `ChartProofs`: `TypeCorrect`, `ImagesAreThere`, `WholeBuilds`, `ChartIsManifest`, `InstallsFit`
  and `ValuesReach`, for any projects, options, values and number of builds; `ChartAssumption` has
  the chains of projects `WellTyped`. `WholeBuilds` says that a build that is past its step `n` is
  in all files of the steps before it that it writes, whatever failed builds left; the last three
  rest on it. `ChartIsManifest` is `SameByChart` after a build of a project that is `Plain`: it
  neither gives the watch mode as the empty string nor sets the variable the chart sets
  (`PEPR_ADDITIONAL_IGNORED_NAMESPACES`). `ValuesReach` is `OverridesReach` for all values, digits,
  additional webhooks and namespaces, without further hypotheses: `ReachWebhook` compares what becomes of
  each namespace's requests, `GarbledStays` the texts in which the digits occur, `PodsSkip` what the
  pods are told to ignore. `InstallsFit` (`Coherent`) is under `KeepsHash`: no value replaces the hash of
  the module, which would name code the secret does not hold. For `ImagesAreThere` the invariant adds what
  `ImagesThere` does not say: that the last build, once past its image, has pushed it, and that no
  file is of the last build before that; a later push makes up for every earlier one, so that builds
  only have to be compared by their number.
* `DevModeProofs`: `TypeCorrect`, and `OneProcessOnly` for any number of edits, crashes and
  registrations. What makes a process is a token: a living process without a handler, a handler on a living
  one, or a call of `runFork` that is under way. The invariant (`Few`) says that there are at most
  `1 + doubled` tokens, and that a process has handlers exactly while it is killed and not yet gone; each
  action turns tokens into others, and only a reload that finds the process killed adds one. `OneProcess` alone is not inductive: it does not see the calls that will start the next.

Only model-checked: liveness, which is out of this prover's reach (`HandledUnlessHung`, `Drains`,
`Converges`, `WaitsAnswered`, `RunsItsCourse`, `DeletionEnds`, `AllReady`, `DeployEnds`, `RollsOut`,
`RunsLatest`, `WebhooksSettle`), and the fairness that `ImplementsRegister` asks for beside the
steps that `StoreIsRegister` maps. The proofs about the store follow the batches that disciplined
callers make, in which each entry has a key of its own; what patches of any other kind do is only
model-checked.

## Plan

Done: queues, store, schedules, finalizers with the filters of both sides, admission with its
filters and rules, store start, registration, RBAC and deployment, manifests and charts with the build
that writes them, and dev mode. In order, what is next:

1. **Algorithms**: feature flags and cache miss windows, as operators compared with reference
   definitions.
2. **Controller**: `startServer` and its retry on a port in use; store failures other than
   the creation.
3. **Registration**: filters shared by the actions of a chain that is kept in a variable.
4. **Proofs**: every safety property of a passing run is a theorem. Left are weaker hypotheses: `NothingLost`
   for pods that start over (which may lose what was in their caches, and nothing else), and
   `Kept` for starts of which a read fails, as long as nobody writes before the next migration.

## Not modelled

The making of certificates, the SDK, the templates of new modules, and of the CLI `init`, `format`,
`update`, `monitor`, `uuid`, `kfc` and `crd`: prompts, text and I/O, with no state that outlives a call.
`destroyModule` deletes by name, all at once, and nothing calls it. Logging, base64 and audit
annotations. Metrics and feature flags are not modelled yet: counters and a parsed map. Of `Chart`,
`--no-embed`, which writes none of the files; digits of the timeout in the names of namespaces, and timeouts
of 1 and 8, whose digits occur in `admissionregistration.k8s.io/v1` and so make the whole object another one;
two additional webhooks of one namespace, which the API server refuses for their equal names, and policies
that are none, of which the build throws; and the words `Fail`
and `Ignore` anywhere but in a policy (in a name, or in the base64 of the certificate); annotations, resources and probes, which both
descriptions have alike; `PEPR_ADDITIONAL_IGNORED_NAMESPACES` of the build's own environment; the check of
capability names, which the build calls before the capabilities are loaded and which therefore never refuses one. Of `DevMode`, the
two stores that a process's end deletes in the cluster, the CRD, a request of the deployment
that fails (which ends the command), and the command's own end. Of `Deployment`, `destroy`, pull secrets
and what an admission pod does at its end are left out, the five objects of `setupRBAC` are one, and nothing
evicts a watcher whose node is lost, which is when Kubernetes may run two. Of `Finalizer`, labels
that change during a deletion. Express, the Kubernetes client and the API server appear only
through what the code relies on: events of one object in order, a list at the start of a
watch, patches applied whole or not at all. The client's own retries and relists
are not modelled; `registerWatchEventHandlers` logs and counts, and its end of the process when the client
gives up is a restart.

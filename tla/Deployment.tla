----------------------------- MODULE Deployment -----------------------------
(***************************************************************************)
(* A module's way into the cluster: npx pepr deploy applies the resources  *)
(* of a build one after the other (assets/deploy.ts) and waits for the     *)
(* pods (deploymentChecks.ts); Kubernetes replaces the pods of the build   *)
(* before (assets/k8sObjects.ts); and each pod starts on what it finds     *)
(* (runtime/controller.ts, controller/index.ts): its code by its hash, the *)
(* certificate and the path of the webhooks, and the permissions of the    *)
(* role generated from the bindings (assets/rbac.ts, helpers.ts).          *)
(*                                                                         *)
(* Every build makes a new certificate, a new path and a new time stamp,   *)
(* so builds are told apart by their number, and a resource is the number  *)
(* of the build it was last applied from. build[n] is the module that was  *)
(* built: [chains, hasSchedule, onError, rbacMode, rbac : custom pairs     *)
(* <<kind, verb>>, wellNamed].                                             *)
(***************************************************************************)
EXTENDS Integers, Sequences, FiniteSets, Manifests

CONSTANTS
  Module,       \* the modules that may be built
  Replicas,     \* of the admission Deployment; the code has 2
  MaxBuilds, MaxFailures, MaxCrashes  \* bounds

ASSUME DeploymentAssumption ==
  /\ \A m \in Module : \A c \in m.chains : WellTyped(c)
  /\ Replicas \in Nat \ {0}
  /\ {MaxBuilds, MaxFailures, MaxCrashes} \subseteq Nat

\* Mutant of Steps: the module's code after the secrets.
StepsCodeLast ==
  <<"mutate", "validate", "crd", "rbac", "tls", "path", "module", "admission", "watcher">>

\* What deployWebhook applies, in its order. "rbac" is the five objects of setupRBAC,
\* of which only the cluster role differs from build to build; a Deployment goes with
\* its Service, which selects the pods of all builds alike.
Steps == <<"mutate", "validate", "crd", "rbac", "module", "admission", "tls", "path", "watcher">>

Resource == {Steps[i] : i \in DOMAIN Steps}
Kind == {"admission", "watcher"}  \* of Deployments

\* Places for the pods of each Deployment; one more than there are replicas.
Slot == ({"admission"} \X (1..Replicas + 1)) \cup ({"watcher"} \X (1..2))

VARIABLES
  build,   \* the modules built, in order
  held,    \* held[r]: the build the resource is of, or 0
  cli,     \* [status, step] of the last npx pepr deploy
  pod,     \* pod[s]: a pod, or NoPod
  failures, crashes

vars == <<build, held, cli, pod, failures, crashes>>

\* of: the build of its template. code, path, tls: what its process has read. early
\* is history: it read before the command of its build had got as far as the path.
NoPod == [of |-> 0, code |-> 0, path |-> 0, tls |-> 0, early |-> FALSE, stage |-> "none"]
Starting(n) == [of |-> n, code |-> 0, path |-> 0, tls |-> 0, early |-> FALSE, stage |-> "starting"]
Stage == {"none", "starting", "running", "ready", "ending"}
Started == {"running", "ready"}

Last == Len(build)

(***************************************************************************)
(* What is made of a module.                                               *)
(***************************************************************************)

\* Mutant of Needed: the secrets for TLS and path are only created.
NeededOnce(n, r) ==
  CASE r \in WebhookType -> HasWebhook(build[n], r)
    [] r = "admission" -> isAdmission(build[n]) \/ norWatchOrAdmission(build[n])
    [] r = "watcher" -> isWatcher(build[n])
    [] r \in {"tls", "path"} -> held[r] = 0
    [] OTHER -> TRUE

Needed(n, r) ==
  CASE r \in WebhookType -> HasWebhook(build[n], r)
    [] r = "admission" -> isAdmission(build[n]) \/ norWatchOrAdmission(build[n])
    [] r = "watcher" -> isWatcher(build[n])
    [] OTHER -> TRUE

May(verbs, kind) == held["rbac"] # 0 /\ verbs \subseteq clusterRole(build[held["rbac"]], kind)

(***************************************************************************)
(* Webhooks in the way of the resources themselves.                        *)
(***************************************************************************)

PodsOf(d) == {s \in Slot : s[1] = d /\ pod[s].stage \notin {"none", "ending"}}
ReadyPods(d) == {s \in PodsOf(d) : pod[s].stage = "ready"}

\* The path of the call is the pod's, or the answer is 401; and the webhook's CA bundle
\* is of the pod's certificate, or there is no call.
validatepath(s, type) == pod[s].path = held[type]
Trusted(s, type) == pod[s].tls = held[type]
Serves(s, type) == validatepath(s, type) /\ Trusted(s, type)

\* An apply of a cluster-scoped object that a webhook with failure policy Fail is for.
\* The namespace pepr-system is not selected by it.
Guards(type, kind, op) ==
  /\ held[type] # 0 /\ build[held[type]].onError = "reject"
  /\ \E b \in Bindings(build[held[type]]) :
       /\ IsOfType(b, type) /\ b.kind = kind
       /\ b.event \in {"*", "CREATEORUPDATE", op}

\* The Service picks any of the ready pods.
MayPass(kind, op) ==
  \A type \in WebhookType :
    Guards(type, kind, op) => \E s \in ReadyPods("admission") : Serves(s, type)

MayBeRefused(kind, op) ==
  \E type \in WebhookType :
    /\ Guards(type, kind, op)
    /\ ReadyPods("admission") = {} \/ \E s \in ReadyPods("admission") : ~Serves(s, type)

\* The kind of the resource, for the cluster-scoped ones that a module may guard.
KindOf(r) == IF r = "rbac" THEN "clusterrole" ELSE r
ApplyOf(r) == IF held[r] = 0 THEN "CREATE" ELSE "UPDATE"

(***************************************************************************)
(* npx pepr deploy.                                                        *)
(***************************************************************************)

Init ==
  /\ build = << >>
  /\ held = [r \in Resource |-> 0]
  /\ cli = [status |-> "none", step |-> 0]
  /\ pod = [s \in Slot |-> NoPod]
  /\ failures = 0 /\ crashes = 0

\* Someone builds the module, of which the code has changed, and deploys it.
Build(m) ==
  /\ cli.status \in {"none", "failed", "done"}
  /\ Last < MaxBuilds
  /\ build' = Append(build, m)
  /\ cli' = [status |-> "applying", step |-> 1]
  /\ UNCHANGED <<held, pod, failures, crashes>>

\* A webhook that is not needed is deleted; a Deployment that is not needed stays.
Apply ==
  LET r == Steps[cli.step]
  IN /\ cli.status = "applying"
     /\ r \in {"crd", "rbac"} => MayPass(KindOf(r), ApplyOf(r))
     /\ held' = [held EXCEPT ![r] = IF Needed(Last, r) THEN Last
                                    ELSE IF r \in WebhookType THEN 0 ELSE @]
     /\ cli' = IF cli.step < Len(Steps) THEN [cli EXCEPT !.step = @ + 1]
               ELSE [cli EXCEPT !.status = IF build[Last].wellNamed THEN "waiting" ELSE "failed"]
     /\ UNCHANGED <<build, pod, failures, crashes>>

\* A request fails, and with it the command: nothing is undone, nothing is retried.
ApplyFails ==
  LET r == Steps[cli.step]
  IN /\ cli.status = "applying"
     /\ \/ /\ r \in {"crd", "rbac"} /\ MayBeRefused(KindOf(r), ApplyOf(r))
           /\ UNCHANGED failures
        \/ failures < MaxFailures /\ failures' = failures + 1
     /\ cli' = [cli EXCEPT !.status = "failed"]
     /\ UNCHANGED <<build, held, pod, crashes>>

ReplicasOf(d) == IF d = "watcher" THEN 1 ELSE Replicas

\* checkDeploymentStatus: every Deployment of the namespace has as many ready pods as
\* it wants, of whichever build they are.
CheckReady ==
  /\ cli.status = "waiting"
  /\ \A d \in Kind : held[d] # 0 => Cardinality(ReadyPods(d)) = ReplicasOf(d)
  /\ cli' = [cli EXCEPT !.status = "done"]
  /\ UNCHANGED <<build, held, pod, failures, crashes>>

(***************************************************************************)
(* The Deployment controller: replicas and strategy are Pepr's.            *)
(***************************************************************************)

strategy(d) == IF d = "watcher" THEN "Recreate" ELSE "RollingUpdate"

NewPods(d) == {s \in PodsOf(d) : pod[s].of = held[d]}
OldPods(d) == PodsOf(d) \ NewPods(d)
Taken(d) == {s \in Slot : s[1] = d /\ pod[s].stage # "none"}

\* A rolling update has one pod more than replicas (25 %, rounded up). Recreate waits
\* for the pods of other templates to end.
CreatePod(s) ==
  /\ held[s[1]] # 0 /\ pod[s].stage = "none"
  /\ \A t \in Slot : t[1] = s[1] /\ pod[t].stage = "none" => s[2] <= t[2]
  /\ IF strategy(s[1]) = "Recreate"
     THEN Taken(s[1]) = {}
     ELSE /\ Cardinality(NewPods(s[1])) < ReplicasOf(s[1])
          /\ Cardinality(PodsOf(s[1])) <= ReplicasOf(s[1])
  /\ pod' = [pod EXCEPT ![s] = Starting(held[s[1]])]
  /\ UNCHANGED <<build, held, cli, failures, crashes>>

\* A rolling update keeps as many available as there are replicas (25 %, rounded
\* down, may be missing), and takes the unready pods first.
RemovePod(s) ==
  /\ s \in OldPods(s[1])
  /\ IF strategy(s[1]) = "Recreate"
     THEN pod' = [pod EXCEPT ![s].stage = "ending"]
     ELSE /\ Cardinality(PodsOf(s[1])) - Cardinality(NewPods(s[1]) \ ReadyPods(s[1])) > ReplicasOf(s[1])
          /\ pod[s].stage = "ready" => OldPods(s[1]) \subseteq ReadyPods(s[1])
          /\ pod' = [pod EXCEPT ![s] = NoPod]
  /\ UNCHANGED <<build, held, cli, failures, crashes>>

\* A pod of the watcher has ended. What an admission pod does at its end is left out.
PodEnds(s) ==
  /\ pod[s].stage = "ending"
  /\ pod' = [pod EXCEPT ![s] = NoPod]
  /\ UNCHANGED <<build, held, cli, failures, crashes>>

(***************************************************************************)
(* A pod.                                                                  *)
(***************************************************************************)

\* The secrets the pod mounts are there.
Mounts(s) ==
  /\ held["module"] # 0 /\ held["tls"] # 0
  /\ s[1] = "admission" => held["path"] # 0

\* The file module-<hash>.js.gz of the template's hash is in the secret.
runModule(s) == held["module"] = pod[s].of

\* The command is at r or before it, or has failed there.
UpTo(r) == \E i \in DOMAIN Steps : Steps[i] = r /\ cli.step <= i

\* The runtime applies the CRD, runs the module, and the server reads its files. If
\* any of that fails the process ends and the container starts again.
StartPod(s) ==
  /\ pod[s].stage = "starting"
  /\ Mounts(s)
  /\ May({"create", "patch"}, "crd") /\ MayPass("crd", "UPDATE")
  /\ runModule(s)
  /\ pod' = [pod EXCEPT ![s].stage = "running", ![s].code = held["module"],
               ![s].tls = held["tls"],
               ![s].path = IF s[1] = "admission" THEN held["path"] ELSE 0,
               ![s].early = pod[s].of = Last /\ UpTo("path")]
  /\ UNCHANGED <<build, held, cli, failures, crashes>>

\* The endpoints, /healthz among them, are bound when the store is ready.
BindEndpoints(s) ==
  /\ pod[s].stage = "running"
  /\ held["crd"] # 0 /\ May({"create", "get", "patch", "watch"}, "peprstore")
  /\ pod' = [pod EXCEPT ![s].stage = "ready"]
  /\ UNCHANGED <<build, held, cli, failures, crashes>>

Again(s) == pod' = [pod EXCEPT ![s] = Starting(pod[s].of)]

\* What the process in the pod watches.
Watched(s) == {b.kind : b \in {x \in bindings(build[pod[s].of].chains, "watch") : x.isWatch}}

\* A watch that is refused is given up in the end, and the process with it.
WatchGivesUp(s) ==
  /\ s[1] = "watcher" /\ pod[s].stage = "ready"
  /\ \E k \in Watched(s) : ~May({"watch"}, k)
  /\ Again(s)
  /\ UNCHANGED <<build, held, cli, failures, crashes>>

Crash(s) ==
  /\ pod[s].stage \in Started
  /\ crashes < MaxCrashes /\ crashes' = crashes + 1
  /\ Again(s)
  /\ UNCHANGED <<build, held, cli, failures>>

Next ==
  \/ \E m \in Module : Build(m)
  \/ Apply
  \/ ApplyFails
  \/ CheckReady
  \/ \E s \in Slot : CreatePod(s)
  \/ \E s \in Slot : RemovePod(s)
  \/ \E s \in Slot : PodEnds(s)
  \/ \E s \in Slot : StartPod(s)
  \/ \E s \in Slot : BindEndpoints(s)
  \/ \E s \in Slot : WatchGivesUp(s)
  \/ \E s \in Slot : Crash(s)

Spec == Init /\ [][Next]_vars

\* Requests are answered, the check is repeated every second, and Kubernetes does
\* its part. Nobody has to build.
FairSpec ==
  /\ Spec
  /\ WF_vars(Apply \/ ApplyFails)
  /\ WF_vars(CheckReady)
  /\ \A s \in Slot :
       WF_vars(CreatePod(s)) /\ WF_vars(RemovePod(s)) /\ WF_vars(PodEnds(s))
         /\ WF_vars(StartPod(s)) /\ WF_vars(BindEndpoints(s))

(***************************************************************************)
(* Properties.                                                             *)
(***************************************************************************)

\* A resource is of a build there has been, and a process has read what was there.
TypeOK ==
  /\ build \in Seq(Module) /\ Last <= MaxBuilds
  /\ held \in [Resource -> 0..Last]
  /\ cli \in [status : {"none", "applying", "waiting", "done", "failed"}, step : 0..Len(Steps)]
  /\ cli.status = "applying" => cli.step # 0 /\ Last # 0
  /\ pod \in [Slot -> [of : 0..Last, code : 0..Last, path : 0..Last, tls : 0..Last,
                    early : BOOLEAN, stage : Stage]]
  /\ \A s \in Slot :
       /\ pod[s].stage = "none" <=> pod[s].of = 0
       /\ pod[s].stage = "starting" => pod[s].code = 0 /\ pod[s].path = 0 /\ pod[s].tls = 0
       /\ pod[s].stage \in Started => pod[s].code # 0 /\ pod[s].tls # 0
       /\ pod[s].stage \in Started /\ s[1] = "admission" => pod[s].path # 0
  /\ failures \in 0..MaxFailures /\ crashes \in 0..MaxCrashes

\* What answers a build's webhooks is that build's code, whenever the command fails and
\* whatever pods start again in between: old code never gets hold of the new path,
\* since its own file is gone by then.
AnsweredByTheBuild ==
  \A s \in Slot, type \in WebhookType :
    s[1] = "admission" /\ pod[s].stage = "ready" /\ held[type] # 0 /\ Serves(s, type) =>
      pod[s].code = held[type]

\* What pods of a Deployment register of a build, in the mode they are run in.
Registered(n, d) == bindings(build[n].chains, IF d = "admission" THEN "admission" ELSE "watch")

\* What it takes to do what a method is called for: bindings with these flags, in pods
\* of these Deployments.
Parts(method) ==
  CASE method = "Mutate" -> {<<"admission", {"isMutate"}>>}
    [] method = "Validate" -> {<<"admission", {"isValidate"}>>}
    [] method = "Watch" -> {<<"watcher", {"isWatch"}>>}
    [] method = "Reconcile" -> {<<"watcher", {"isWatch", "isQueue"}>>}
    [] method = "Finalize" -> {<<"admission", {"isMutate", "isFinalize"}>>,
                               <<"watcher", {"isWatch", "isFinalize"}>>}

\* When everything is applied, what was exported when the module was built fits what
\* processes register in other modes. Each action in the code is registered by the pods
\* of a Deployment of the last build; there is a webhook, of that build, exactly if its
\* admission pods have something to answer it with; and no process that runs its code,
\* the watcher's included, has an action for a webhook that is missing.
DeployedWhole ==
  cli.status \in {"waiting", "done"} =>
    /\ \A c \in build[Last].chains : \A method \in c.methods : \A part \in Parts(method) :
         /\ held[part[1]] = Last
         /\ \E b \in Registered(Last, part[1]) :
              b.kind = c.binding.kind /\ \A flag \in part[2] : b[flag]
    /\ build[Last].hasSchedule => held["watcher"] = Last
    /\ \A type \in WebhookType :
         held[type] = IF \E b \in Registered(Last, "admission") : IsOfType(b, type) THEN Last ELSE 0
    /\ \A s \in Slot, type \in WebhookType :
         pod[s].stage \in Started /\ pod[s].code = Last =>
           \A b \in Registered(pod[s].code, s[1]) :
             IsOfType(b, type) => s[1] = "admission" /\ held[type] = Last

\* Kinds of which a chain has a Finalize, for which the role has no watch.
Finalized(n) == {c.binding.kind : c \in {x \in build[n].chains : "Finalize" \in x.methods}}

\* While the role is of the build a watcher's process runs, it may watch every kind it
\* does, but for the finalized ones, and patch the finalizers of those.
Permitted ==
  \A s \in Slot :
    s[1] = "watcher" /\ pod[s].stage \in Started /\ pod[s].code = held["rbac"] =>
      /\ \A k \in Watched(s) \ Finalized(pod[s].code) : May({"watch"}, k)
      /\ \A k \in Finalized(pod[s].code) : May({"patch"}, k)

\* A module whose pods can start, by themselves, and stay.
Viable(n) ==
  /\ build[n].wellNamed
  /\ build[n].rbacMode = "scoped" => Bindings(build[n]) # {} /\ Finalized(n) = {}
  /\ build[n].onError = "reject" => \A b \in Bindings(build[n]) : b.kind \notin {"crd", "clusterrole"}

\* All builds are viable, and none drops a Deployment that another has.
AllViable ==
  \A n \in 1..Last :
    Viable(n) /\ \A d \in Kind : Needed(n, d) = Needed(Last, d)

\* The command does not wait for ever.
DeployEnds == cli.status = "waiting" /\ AllViable ~> cli.status = "done"

\* After the last deployment that was applied in full, the pods are those of its
\* build, and those of admission serve its webhooks: what they read in starting, they do
\* not read again. A pod that started before the command had got as far as the path
\* may be left with the old one, and answer 401; that it started so early is all that
\* can be wrong with it.
RolledOut ==
  \A d \in Kind :
    held[d] # 0 =>
      /\ Cardinality(ReadyPods(d)) = ReplicasOf(d) /\ OldPods(d) = {}
      /\ d = "admission" =>
           \A s \in ReadyPods(d), type \in WebhookType :
             held[type] # 0 => Serves(s, type) \/ pod[s].early

RollsOut == <>[](cli.status = "done" /\ AllViable => RolledOut)
=============================================================================

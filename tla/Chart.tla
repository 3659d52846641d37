------------------------------- MODULE Chart -------------------------------
(***************************************************************************)
(* npx pepr build (cli/build): the directory it writes to, file by file    *)
(* and over what earlier builds have left, and what is installed from it:  *)
(* the manifest with kubectl (assets/yaml/generateAllYaml.ts), or the      *)
(* chart with Helm, whose templates (assets/helm.ts, index.ts) are filled  *)
(* with its values (assets/yaml/overridesFile.ts) and those a user gives.  *)
(*                                                                         *)
(* A file is the number of the build that wrote it last, 0 if there is     *)
(* none. A project m, which is a module's code and configuration, has the  *)
(* fields of Manifests and [code, onError, webhookTimeout (0: undefined),  *)
(* alwaysIgnore, admissionIgnore, watchIgnore, additional (webhooks: a     *)
(* function from namespaces to failure policies), env, logLevel, labels,   *)
(* includes : whether it has includedFiles].                               *)
(***************************************************************************)
EXTENDS Integers, Sequences, Manifests

CONSTANTS
  Project,   \* what may be built
  Options,   \* of the command
  Override,  \* values a user may give to Helm: functions on keys of the values
  Digits,    \* in which texts, of Place, the digits of the timeout may occur
  Namespace, \* of the cluster
  MaxBuilds, MaxFailures  \* bounds

\* Texts of a webhook in which the digits of its timeout may occur: its certificate, the
\* path it calls, and the groups, versions and resources of its rules.
Place == {"tls", "path", "rules"}

FailurePolicy == {"Fail", "Ignore"}

ASSUME ChartAssumption ==
  /\ {MaxBuilds, MaxFailures} \subseteq Nat
  /\ Digits \subseteq SUBSET Place
  /\ \A m \in Project :
       /\ {"chains", "additional"} \subseteq DOMAIN m
       /\ \A chain \in m.chains : WellTyped(chain)
       /\ m.additional \in [DOMAIN m.additional -> FailurePolicy]

\* Files that Promise.all writes side by side. "fixed" are those that are the same in
\* every build of a module: Chart.yaml, and the templates and objects made of its name.
Pairs == {"fixed", "tls", "path", "module"}

\* Mutant of Steps: the image is pushed when its name is in the manifests.
StepsImageLater ==
  <<"code", "yaml", "zarf", "image", "pairs", "schema", "values", "admission",
    "admissionMonitor", "mutate", "validate", "watcher", "watcherMonitor">>

\* What the build does, in its order: the last eight write the file of that name.
Steps ==
  <<"code", "image", "yaml", "zarf", "pairs", "schema", "values", "admission",
    "admissionMonitor", "mutate", "validate", "watcher", "watcherMonitor">>

File == (({Steps[i] : i \in DOMAIN Steps}) \ {"image", "pairs"}) \cup Pairs

FilesOf(step) == CASE step = "image" -> {} [] step = "pairs" -> Pairs [] OTHER -> {step}

Object ==
  {"namespace", "clusterRole", "access", "tls", "path", "module", "admission", "watcher",
   "admissionService", "watcherService", "mutate", "validate", "admissionMonitor", "watcherMonitor"}

Absent == [kind |-> "none"]

VARIABLES
  builds,    \* what was built, in order: records of Made
  dir,       \* dir[f]: the build file f is of
  maker,     \* [status, step] of the last npx pepr build
  pushed,    \* the build whose included files are in the image it pushed, or 0
  cluster,   \* cluster[x]: object x as it was last applied
  release,   \* the objects of Helm's last release
  installed, \* [build, objects] of the last installation; build 0 if not of a whole build
  failures

vars == <<builds, dir, maker, pushed, cluster, release, installed, failures>>

Last == Len(builds)

(***************************************************************************)
(* Options of the command.                                                 *)
(***************************************************************************)

determineRbacMode(opts, m) ==
  IF opts.rbacMode # "" THEN opts.rbacMode
  ELSE IF m.rbacMode = "scoped" THEN "scoped" ELSE "admin"

\* Options that name an image exclude each other. Without one, or with GitHub's
\* registry, the image is Pepr's own.
assignImage(opts) ==
  CASE opts.customImage # "" -> opts.customImage
    [] opts.registryInfo # "" -> "custom-pepr-controller"
    [] opts.registry = "Iron Bank" -> "ironbank/controller"
    [] OTHER -> "controller"

\* The Assets of a build. TLS, API path and time stamp are the build's number.
Made(m, opts, digits) ==
  [config |-> [m EXCEPT !.rbacMode = determineRbacMode(opts, m),
                        !.webhookTimeout = IF opts.timeout # 0 THEN opts.timeout ELSE @],
   image |-> assignImage(opts), custom |-> opts.registryInfo # "",
   pullSecrets |-> IF opts.withPullSecret = "" THEN {} ELSE {opts.withPullSecret},
   digits |-> digits]

Config(n) == builds[n].config

(***************************************************************************)
(* What both the manifest and the chart are made of.                       *)
(***************************************************************************)

\* Without the environment's PEPR_ADDITIONAL_IGNORED_NAMESPACES.
getIgnoreNamespaces(m) == IF m.alwaysIgnore # {} THEN m.alwaysIgnore ELSE m.admissionIgnore

\* f over g: what f does not say is as g has it.
Over(f, g) == [k \in DOMAIN f \cup DOMAIN g |-> IF k \in DOMAIN f THEN f[k] ELSE g[k]]

Without(key, f) == [k \in DOMAIN f \ {key} |-> f[k]]

\* A project's own environment; its watch mode is deleted from it, unless it is empty.
ownEnv(m) ==
  IF "PEPR_WATCH_MODE" \in DOMAIN m.env /\ m.env["PEPR_WATCH_MODE"] # ""
  THEN Without("PEPR_WATCH_MODE", m.env) ELSE m.env

\* Mutant of genEnv: the project's own watch mode is kept.
genEnvKept(m, watchMode, ignoreWatchMode) ==
  Over(m.env, Over([PEPR_PRETTY_LOG |-> "false", LOG_LEVEL |-> m.logLevel],
                   IF ignoreWatchMode THEN << >> ELSE [PEPR_WATCH_MODE |-> watchMode]))

\* A project's own environment wins, but for the mode. Without LOG_LEVEL of the build's own.
genEnv(m, watchMode, ignoreWatchMode) ==
  Over(ownEnv(m), Over([PEPR_PRETTY_LOG |-> "false", LOG_LEVEL |-> m.logLevel],
                       IF ignoreWatchMode THEN << >> ELSE [PEPR_WATCH_MODE |-> watchMode]))

runIdsForImage(image) == IF image = "private" THEN 1000 ELSE 65532

KindsOf(m) == {b.kind : b \in Bindings(m)} \cup {"peprstore", "crd"} \cup {r[1] : r \in m.rbac}
rules(m) == [k \in KindsOf(m) |-> clusterRole(m, k)]

PolicyOf(m) == IF m.onError = "reject" THEN "Fail" ELSE "Ignore"

\* The first webhook, which ignores namespaces, and one more for each namespace of
\* additional, with a policy of its own. The rest of them is the same; the number of a
\* build stands for its CA and its API path.
webhookConfigGenerator(n, type) ==
  IF ~HasWebhook(Config(n), type) THEN Absent
  ELSE [kind |-> type, tls |-> n, path |-> n,
        rules |-> {<<b.kind, b.event>> : b \in {x \in Bindings(Config(n)) : IsOfType(x, type)}},
        timeoutSeconds |-> IF Config(n).webhookTimeout = 0 THEN 10 ELSE Config(n).webhookTimeout,
        failurePolicy |-> PolicyOf(Config(n)),
        ignored |-> {"kube-system", "pepr-system"} \cup getIgnoreNamespaces(Config(n))
                      \cup DOMAIN Config(n).additional,
        additional |-> Config(n).additional]

(***************************************************************************)
(* The manifest.                                                           *)
(***************************************************************************)

getDeployment(n) ==
  IF ~isAdmission(Config(n)) /\ ~norWatchOrAdmission(Config(n)) THEN Absent
  ELSE [kind |-> "admission", replicas |-> 2, strategy |-> "RollingUpdate", stamp |-> n,
        hash |-> Config(n).code, image |-> builds[n].image,
        ids |-> runIdsForImage(builds[n].image), env |-> genEnv(Config(n), "false", FALSE),
        mounts |-> {"tls", "path", "module"}, priority |-> "system-node-critical",
        labels |-> {}, pullSecrets |-> builds[n].pullSecrets]

getWatcher(n) ==
  IF ~isWatcher(Config(n)) THEN Absent
  ELSE [kind |-> "watcher", replicas |-> 1, strategy |-> "Recreate", stamp |-> n,
        hash |-> Config(n).code, image |-> builds[n].image,
        ids |-> runIdsForImage(builds[n].image), env |-> genEnv(Config(n), "true", FALSE),
        mounts |-> {"tls", "module"}, priority |-> "",
        labels |-> {}, pullSecrets |-> builds[n].pullSecrets]

service(n) == IF getDeployment(n) = Absent THEN Absent ELSE [kind |-> "Service", of |-> "admission"]
watcherService(n) == IF getWatcher(n) = Absent THEN Absent ELSE [kind |-> "Service", of |-> "watcher"]

generateAllYaml(n) ==
  [x \in Object |->
     CASE x = "namespace" -> [kind |-> "Namespace", labels |-> Config(n).labels]
       [] x = "clusterRole" -> [kind |-> "ClusterRole", rules |-> rules(Config(n))]
       [] x = "access" -> [kind |-> "access"]
       [] x \in {"tls", "path"} -> [kind |-> "Secret", data |-> n]
       [] x = "module" -> [kind |-> "Secret", data |-> Config(n).code]
       [] x = "admission" -> getDeployment(n)
       [] x = "watcher" -> getWatcher(n)
       [] x = "admissionService" -> service(n)
       [] x = "watcherService" -> watcherService(n)
       [] x \in WebhookType -> webhookConfigGenerator(n, x)
       [] OTHER -> Absent]

\* The images that the Zarf package of a build pulls, be it of the manifest or the chart.
generateZarfYamlGeneric(n) == [images |-> {builds[n].image}]

(***************************************************************************)
(* The chart.                                                              *)
(***************************************************************************)

\* values.yaml. Probes and resources are the manifest's, and most empty maps are left
\* out: podLabels stands for those of the admission controller.
overridesFile(n) ==
  LET m == Config(n) IN
  [imagePullSecrets |-> builds[n].pullSecrets,
   additionalIgnoredNamespaces |-> getIgnoreNamespaces(m),
   rbac |-> rules(m), hash |-> m.code,
   namespaceLabels |-> IF m.labels = {} THEN {"pepr.dev"} ELSE m.labels,
   admissionEnabled |-> isAdmission(m) \/ norWatchOrAdmission(m),
   watcherEnabled |-> isWatcher(m),
   failurePolicy |-> PolicyOf(m), webhookTimeout |-> m.webhookTimeout,
   admissionEnv |-> genEnv(m, "false", TRUE), watcherEnv |-> genEnv(m, "true", TRUE),
   image |-> builds[n].image, ids |-> runIdsForImage(builds[n].image),
   podLabels |-> {}, admissionMonitor |-> FALSE, watcherMonitor |-> FALSE]

Maps == {"podLabels", "namespaceLabels"}

\* The maps that values.schema.json leaves open: those that are empty in the values.
\* Of any other, a schema made from one sample knows the keys that are there.
fixSchemaForFlexibleMaps(v) == {k \in Maps : v[k] = {}}

accepts(v, override) ==
  /\ "webhookTimeout" \in DOMAIN override => v.webhookTimeout # 0
  /\ \A k \in Maps \cap DOMAIN override :
       k \in fixSchemaForFlexibleMaps(v) \/ override[k] \subseteq v[k]

\* The values as Helm has them with those of a user: maps are merged.
Given(v, override) ==
  [k \in DOMAIN v |-> IF k \notin DOMAIN override THEN v[k]
                      ELSE IF k \in Maps THEN v[k] \cup override[k] ELSE override[k]]

\* What the template adds to the environment comes after the values and wins.
TemplateEnv(v, env, watchMode) ==
  Over(IF v.additionalIgnoredNamespaces = {} THEN << >>
       ELSE [PEPR_ADDITIONAL_IGNORED_NAMESPACES |-> v.additionalIgnoredNamespaces],
       Over([PEPR_WATCH_MODE |-> watchMode], env))

\* Names of pull secrets go into the container, where Kubernetes has no such field.
admissionDeployTemplate(stamp, v) ==
  IF ~v.admissionEnabled THEN Absent
  ELSE [kind |-> "admission", replicas |-> 2, strategy |-> "RollingUpdate", stamp |-> stamp,
        hash |-> v.hash, image |-> v.image, ids |-> v.ids,
        env |-> TemplateEnv(v, v.admissionEnv, "false"),
        mounts |-> {"tls", "path", "module"}, priority |-> "system-node-critical",
        labels |-> v.podLabels, pullSecrets |-> {}]

watcherDeployTemplate(stamp, v) ==
  IF ~v.watcherEnabled THEN Absent
  ELSE [kind |-> "watcher", replicas |-> 1, strategy |-> "Recreate", stamp |-> stamp,
        hash |-> v.hash, image |-> v.image, ids |-> v.ids,
        env |-> TemplateEnv(v, v.watcherEnv, "true"),
        mounts |-> {"tls", "module"}, priority |-> "", labels |-> {}, pullSecrets |-> {}]

serviceTemplate(enabled, type) == IF enabled THEN [kind |-> "Service", of |-> type] ELSE Absent

serviceMonitorTemplate(enabled, type) ==
  IF enabled THEN [kind |-> "ServiceMonitor", of |-> type] ELSE Absent

\* Mutant of createWebhookYaml: the policy is replaced where it is found first.
createWebhookYamlOnce(n, type, v) ==
  LET w == webhookConfigGenerator(n, type)
      timeout == IF Config(n).webhookTimeout = 0 THEN w.timeoutSeconds ELSE v.webhookTimeout
      garbled == IF timeout = w.timeoutSeconds THEN {} ELSE builds[n].digits
      policy(p) == IF p = PolicyOf(Config(n)) THEN v.failurePolicy ELSE p
  IN [kind |-> type,
      tls |-> IF "tls" \in garbled THEN 0 ELSE w.tls,
      path |-> IF "path" \in garbled THEN 0 ELSE w.path,
      rules |-> IF "rules" \in garbled THEN {} ELSE w.rules,
      timeoutSeconds |-> timeout,
      failurePolicy |-> policy(w.failurePolicy),
      ignored |-> w.ignored \cup v.additionalIgnoredNamespaces,
      additional |-> w.additional]

\* The configuration as text, in which values have been put for what was found there:
\* for the module's policy, wherever it is one; and for the digits of the timeout,
\* wherever they are, which shows when the value is not the one they stood for. An
\* undefined timeout is not found.
createWebhookYaml(n, type, v) ==
  LET w == webhookConfigGenerator(n, type)
      timeout == IF Config(n).webhookTimeout = 0 THEN w.timeoutSeconds ELSE v.webhookTimeout
      garbled == IF timeout = w.timeoutSeconds THEN {} ELSE builds[n].digits
      policy(p) == IF p = PolicyOf(Config(n)) THEN v.failurePolicy ELSE p
  IN [kind |-> type,
      tls |-> IF "tls" \in garbled THEN 0 ELSE w.tls,
      path |-> IF "path" \in garbled THEN 0 ELSE w.path,
      rules |-> IF "rules" \in garbled THEN {} ELSE w.rules,
      timeoutSeconds |-> timeout,
      failurePolicy |-> policy(w.failurePolicy),
      ignored |-> w.ignored \cup v.additionalIgnoredNamespaces,
      additional |-> [namespace \in DOMAIN w.additional |-> policy(w.additional[namespace])]]

From(file, object) == IF dir[file] = 0 THEN Absent ELSE object

\* What Helm makes of the chart in the directory. The files of webhooks have no guard.
Rendered(override) ==
  LET v == Given(overridesFile(dir["values"]), override) IN
  [x \in Object |->
     CASE x = "namespace" -> [kind |-> "Namespace", labels |-> v.namespaceLabels]
       [] x = "clusterRole" -> [kind |-> "ClusterRole", rules |-> v.rbac]
       [] x = "access" -> [kind |-> "access"]
       [] x \in {"tls", "path"} -> [kind |-> "Secret", data |-> dir[x]]
       [] x = "module" -> [kind |-> "Secret", data |-> Config(dir["module"]).code]
       [] x = "admission" -> From(x, admissionDeployTemplate(dir[x], v))
       [] x = "watcher" -> From(x, watcherDeployTemplate(dir[x], v))
       [] x = "admissionService" -> serviceTemplate(v.admissionEnabled, "admission")
       [] x = "watcherService" -> serviceTemplate(v.watcherEnabled, "watcher")
       [] x \in WebhookType -> From(x, createWebhookYaml(dir[x], x, v))
       [] x = "admissionMonitor" -> From(x, serviceMonitorTemplate(v.admissionMonitor, "admission"))
       [] x = "watcherMonitor" -> From(x, serviceMonitorTemplate(v.watcherMonitor, "watcher"))]

\* helmLayout: the files without which there is no chart.
ChartFiles == Pairs \cup {"schema", "values"}
HasChart == \A f \in ChartFiles : dir[f] # 0

(***************************************************************************)
(* npx pepr build.                                                         *)
(***************************************************************************)

Init ==
  /\ builds = << >>
  /\ dir = [f \in File |-> 0]
  /\ maker = [status |-> "none", step |-> 0]
  /\ pushed = 0
  /\ cluster = [x \in Object |-> Absent]
  /\ release = {}
  /\ installed = [build |-> 0, objects |-> {}]
  /\ failures = 0

Idle == maker.status # "building"

\* A build with --no-embed writes none of these files and is left out.
Build(m, opts, digits) ==
  /\ Idle /\ Last < MaxBuilds
  /\ builds' = Append(builds, Made(m, opts, digits))
  /\ maker' = [status |-> "building", step |-> 1]
  /\ UNCHANGED <<dir, pushed, cluster, release, installed, failures>>

\* The type checker refuses the code: its output is shown, and the command ends as if
\* all were well, with the files of earlier builds in place.
Refused ==
  /\ maker = [status |-> "building", step |-> 1]
  /\ maker' = [maker EXCEPT !.status = "refused"]
  /\ UNCHANGED <<builds, dir, pushed, cluster, release, installed, failures>>

\* Mutant of Writes: webhooks that are there are kept.
WritesWebhookOnce(n, f) ==
  CASE f \in {"admission", "admissionMonitor"} -> \E t \in WebhookType : HasWebhook(Config(n), t)
    [] f \in WebhookType -> HasWebhook(Config(n), f) /\ dir[f] = 0
    [] f \in {"watcher", "watcherMonitor"} -> isWatcher(Config(n))
    [] OTHER -> TRUE

\* Whether build n writes file f. Nothing is ever removed.
Writes(n, f) ==
  CASE f \in {"admission", "admissionMonitor"} -> \E t \in WebhookType : HasWebhook(Config(n), t)
    [] f \in WebhookType -> HasWebhook(Config(n), f)
    [] f \in {"watcher", "watcherMonitor"} -> isWatcher(Config(n))
    [] OTHER -> TRUE

\* An image is built and pushed if a registry is given and there are files to include.
handleCustomImageBuild(n) == builds[n].custom /\ Config(n).includes

Step ==
  LET step == Steps[maker.step]
  IN /\ maker.status = "building"
     /\ dir' = [f \in File |-> IF f \in FilesOf(step) /\ Writes(Last, f) THEN Last ELSE dir[f]]
     /\ pushed' = IF step = "image" /\ handleCustomImageBuild(Last) THEN Last ELSE pushed
     /\ maker' = IF maker.step < Len(Steps) THEN [maker EXCEPT !.step = @ + 1]
                 ELSE [maker EXCEPT !.status = "done"]
     /\ UNCHANGED <<builds, cluster, release, installed, failures>>

\* A step fails: docker, the name of the pull secret, a namespace the module may not
\* use, a module too large for a secret, a disk. The command exits with 1, and nothing
\* is undone; files that are written side by side may be written or not.
StepFails ==
  LET files == FilesOf(Steps[maker.step])
  IN /\ maker.status = "building"
     /\ failures < MaxFailures /\ failures' = failures + 1
     /\ \E written \in SUBSET files :
          /\ written # files \/ files = {}
          /\ dir' = [f \in File |-> IF f \in written THEN Last ELSE dir[f]]
     /\ maker' = [maker EXCEPT !.status = "failed"]
     /\ UNCHANGED <<builds, pushed, cluster, release, installed>>

\* The user empties the directory.
Clean ==
  /\ Idle /\ \E f \in File : dir[f] # 0
  /\ dir' = [f \in File |-> 0]
  /\ maker' = [status |-> "none", step |-> 0]
  /\ UNCHANGED <<builds, pushed, cluster, release, installed, failures>>

(***************************************************************************)
(* Helm and kubectl, external.                                             *)
(***************************************************************************)

Present(objects) == {x \in Object : objects[x] # Absent}

\* Objects that are in the cluster already must be Helm's; those of the last release
\* that are not in the chart any more are deleted.
HelmUpgrade(override) ==
  LET objects == Rendered(override)
  IN /\ Idle /\ HasChart
     /\ accepts(overridesFile(dir["schema"]), override)
     /\ \A x \in Present(objects) : cluster[x] = Absent \/ x \in release
     /\ cluster' = [x \in Object |-> IF x \in Present(objects) \cup release THEN objects[x] ELSE cluster[x]]
     /\ release' = Present(objects)
     /\ installed' = [build |-> IF maker.status = "done" THEN Last ELSE 0,
                     objects |-> Present(objects)]
     /\ UNCHANGED <<builds, dir, maker, pushed, failures>>

KubectlApply ==
  LET objects == generateAllYaml(dir["yaml"])
  IN /\ Idle /\ dir["yaml"] # 0
     /\ cluster' = [x \in Object |-> IF x \in Present(objects) THEN objects[x] ELSE cluster[x]]
     /\ installed' = [build |-> dir["yaml"], objects |-> Present(objects)]
     /\ UNCHANGED <<builds, dir, maker, pushed, release, failures>>

Next ==
  \/ \E m \in Project, opts \in Options, digits \in Digits : Build(m, opts, digits)
  \/ Refused
  \/ Step
  \/ StepFails
  \/ Clean
  \/ \E override \in Override : HelmUpgrade(override)
  \/ KubectlApply

Spec == Init /\ [][Next]_vars

(***************************************************************************)
(* Properties.                                                             *)
(***************************************************************************)

\* Files and images are of builds there have been, and so is what is installed.
TypeOK ==
  /\ dir \in [File -> 0..Last] /\ pushed \in 0..Last 
  /\ installed \in [build : 0..Last, objects : SUBSET Object]
  /\ Last <= MaxBuilds /\ failures \in 0..MaxFailures
  /\ maker \in [status : {"none", "building", "refused", "failed", "done"}, step : 0..Len(Steps)]
  /\ maker.status = "building" => maker.step # 0
  /\ maker.status \in {"building", "done"} => Last # 0
  /\ release \subseteq Object

\* What a file refers to is there: no manifest, chart or package of a build with files
\* to include is in the directory, at any time, unless the image it names was pushed
\* with these files or later ones.
ImagesThere ==
  \A f \in {"yaml", "zarf", "values"} :
    dir[f] # 0 /\ handleCustomImageBuild(dir[f]) => pushed >= dir[f]

AddedNamespaces == "PEPR_ADDITIONAL_IGNORED_NAMESPACES"

\* The namespaces a process ignores: those of its configuration and its environment.
IgnoredBy(type, m, env) ==
  (IF type = "admission" THEN getIgnoreNamespaces(m)
   ELSE IF m.alwaysIgnore # {} THEN m.alwaysIgnore ELSE m.watchIgnore)
    \cup (IF AddedNamespaces \in DOMAIN env THEN env[AddedNamespaces] ELSE {})

\* The chart's watcher is also given the namespaces that only admission should ignore.
SameIgnored(type, m, env1, env2) ==
  \/ type = "watcher" /\ m.alwaysIgnore = {} /\ ~(m.admissionIgnore \subseteq m.watchIgnore)
  \/ IgnoredBy(type, m, env1) = IgnoredBy(type, m, env2)

\* Deployments that do the same, but for the secrets their images are pulled with.
SameDeployment(type, m, d1, d2) ==
  \/ d1 = Absent /\ d2 = Absent
  \/ /\ d1 # Absent /\ d2 # Absent
     /\ \A k \in DOMAIN d1 \ {"env", "pullSecrets"} : d1[k] = d2[k]
     /\ Without(AddedNamespaces, d1.env) = Without(AddedNamespaces, d2.env)
     /\ SameIgnored(type, m, d1.env, d2.env)

\* After a build that has ended well, whatever others there were in the directory
\* before and wherever they failed, the chart as it is makes the objects of the
\* manifest. It may have an old webhook more, of a type the module no longer needs;
\* and a module that registers nothing has no Deployment of its own in it.
SameByChart ==
  maker.status = "done" =>
    LET m == Config(Last)
        chart == Rendered(<< >>)
        manifest == generateAllYaml(dir["yaml"])
    IN /\ HasChart /\ dir["yaml"] = Last
       /\ \A x \in Object \ (WebhookType \cup {"namespace", "admission", "watcher"}) :
            chart[x] = manifest[x]
       /\ manifest["namespace"].labels \subseteq chart["namespace"].labels
       /\ SameDeployment("watcher", m, chart["watcher"], manifest["watcher"])
       /\ ~norWatchOrAdmission(m) =>
            SameDeployment("admission", m, chart["admission"], manifest["admission"])
       /\ \A type \in WebhookType :
            IF HasWebhook(m, type) THEN chart[type] = manifest[type] ELSE dir[type] < Last
       /\ \A x \in {"admission", "watcher"} :
            {d.image : d \in {chart[x], manifest[x]} \ {Absent}}
              \subseteq generateZarfYamlGeneric(dir["zarf"]).images

ValueOf(override, key, default) == IF key \in DOMAIN override THEN override[key] ELSE default

\* What becomes of a request that nobody answers: as the webhook has it that selects the
\* namespace, or "none" if none does.
PolicyIn(webhook, namespace) ==
  IF namespace \in DOMAIN webhook.additional THEN webhook.additional[namespace]
  ELSE IF namespace \in webhook.ignored THEN "none"
  ELSE webhook.failurePolicy

\* Where the search for the timeout of build n has hit something else in a webhook.
Garbled(n, webhook) ==
  IF webhook.timeoutSeconds = webhookConfigGenerator(n, webhook.kind).timeoutSeconds THEN {}
  ELSE builds[n].digits

\* After a build that has ended well, values given to Helm reach each namespace: where
\* the policy was the module's, be it that of an additional webhook which only happens
\* to be the same, it is the one given, elsewhere it is what it was; and namespaces to
\* ignore have no webhook, or one of their own still, whose requests the pods skip. A
\* timeout is that of all webhooks, which call with the certificate of the chart on
\* its path and by the rules of the module, unless another timeout was given and the
\* old one's digits occurred there. What Helm refuses has its reason.
OverridesReach ==
  maker.status = "done" =>
    \A override \in Override :
      LET v == overridesFile(dir["values"])
          given == Rendered(override)
          ignored == ValueOf(override, "additionalIgnoredNamespaces", {})
      IN IF accepts(overridesFile(dir["schema"]), override)
         THEN /\ \A type \in {t \in WebhookType : HasWebhook(Config(Last), t)} :
                   LET built == Rendered(<< >>)[type]
                       now == given[type]
                       policy(p) == IF p = built.failurePolicy
                                    THEN ValueOf(override, "failurePolicy", p) ELSE p
                   IN /\ \A namespace \in Namespace :
                           PolicyIn(now, namespace) =
                             IF namespace \in ignored \ DOMAIN built.additional THEN "none"
                             ELSE policy(PolicyIn(built, namespace))
                      /\ now.timeoutSeconds = ValueOf(override, "webhookTimeout", built.timeoutSeconds)
                      /\ now.tls = given["tls"].data <=> "tls" \notin Garbled(Last, now)
                      /\ now.path = given["path"].data <=> "path" \notin Garbled(Last, now)
                      /\ now.rules = built.rules <=> "rules" \notin Garbled(Last, now)
              /\ given["admission"] # Absent =>
                   ignored \subseteq IgnoredBy("admission", Config(Last), given["admission"].env)
         ELSE \E k \in DOMAIN override : k = "webhookTimeout" \/ (k \in Maps /\ v[k] # {})

\* Once a whole build is installed, over whatever was in the cluster, the webhooks it
\* has call with its certificate and path, but for those in which the digits of a
\* replaced timeout occurred; its pods find their code by its hash; and the Deployment
\* bears the stamp of the build whose secrets they read, so that a new certificate or
\* path brings new pods, even if the code is the same.
Coherent ==
  installed.build # 0 =>
    LET m == Config(installed.build)
        finds(d) == d \in installed.objects => cluster[d].hash = cluster["module"].data
    IN /\ \A type \in {t \in WebhookType : HasWebhook(m, t)} :
            /\ cluster[type] # Absent
            /\ "tls" \in Garbled(installed.build, cluster[type])
                 \/ cluster[type].tls = cluster["tls"].data
            /\ "path" \in Garbled(installed.build, cluster[type])
                 \/ cluster[type].path = cluster["path"].data
            /\ "admission" \in installed.objects => cluster["admission"].stamp = cluster["tls"].data
       /\ finds("admission") /\ finds("watcher")
=============================================================================

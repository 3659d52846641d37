-------------------------- MODULE DeploymentProofs --------------------------
(***************************************************************************)
(* Proofs about Deployment, for any modules, replicas and bounds.          *)
(***************************************************************************)
EXTENDS Deployment, TLAPS

(***************************************************************************)
(* The steps of a deployment.                                              *)
(***************************************************************************)

\* What is applied, and when.
LEMMA StepsFacts ==
  /\ Len(Steps) = 9 /\ DOMAIN Steps = 1..9
  /\ Steps[1] = "mutate" /\ Steps[2] = "validate" /\ Steps[3] = "crd" /\ Steps[4] = "rbac"
  /\ Steps[5] = "module" /\ Steps[6] = "admission" /\ Steps[7] = "tls" /\ Steps[8] = "path"
  /\ Steps[9] = "watcher"
BY DEF Steps

\* No resource is applied twice.
LEMMA StepsDistinct ==
  ASSUME NEW i \in 1..9, NEW j \in 1..9, i # j PROVE Steps[i] # Steps[j]
<1>1. i \in {1, 2, 3, 4, 5, 6, 7, 8, 9} /\ j \in {1, 2, 3, 4, 5, 6, 7, 8, 9}
  OBVIOUS
<1> QED BY <1>1, StepsFacts

\* All resources are applied.
LEMMA ResourceFacts ==
  /\ Resource = {"mutate", "validate", "crd", "rbac", "module", "admission", "tls", "path", "watcher"}
  /\ \A i \in 1..9 : Steps[i] \in Resource
  /\ Kind \subseteq Resource /\ WebhookType \subseteq Resource
  /\ \A s \in Slot : s[1] \in Kind
<1>1. 1..9 = {1, 2, 3, 4, 5, 6, 7, 8, 9}
  OBVIOUS
<1>2. Resource = {Steps[i] : i \in {1, 2, 3, 4, 5, 6, 7, 8, 9}}
  BY <1>1, StepsFacts DEF Resource
<1>3. Resource = {"mutate", "validate", "crd", "rbac", "module", "admission", "tls", "path", "watcher"}
  BY <1>2, StepsFacts
<1>4. \A s \in Slot : s[1] \in Kind
  BY DEF Slot, Kind
<1> QED BY <1>3, <1>4, StepsFacts DEF Kind, WebhookType, Resource

(***************************************************************************)
(* What a module registers.                                                *)
(***************************************************************************)

\* For all that a chain does, the pods that are to do it register the binding for it in
\* their mode, and so did the build.
LEMMA ModeBindings ==
  ASSUME NEW chains, \A c \in chains : WellTyped(c), NEW c \in chains,
         NEW method \in c.methods, NEW part \in Parts(method),
         NEW mode \in {"build", IF part[1] = "admission" THEN "admission" ELSE "watch"}
  PROVE  /\ part[1] \in Kind
         /\ \E b \in bindings(chains, mode) :
              b.kind = c.binding.kind /\ \A flag \in part[2] : b[flag]
<1> DEFINE base == c.binding
           of(b) == b \in bindings(chains, mode) /\ b.kind = base.kind
<1>1. /\ {"isMutate", "isValidate", "isWatch", "isQueue", "isFinalize", "kind", "event"}
           \subseteq DOMAIN base
      /\ method \in {"Mutate", "Validate", "Watch", "Reconcile", "Finalize"}
  BY DEF WellTyped, Flag, Method
<1> HIDE DEF base
<1>2. CASE method = "Mutate"
  <2> DEFINE b == [base EXCEPT !.isMutate = TRUE]
  <2>1. part = <<"admission", {"isMutate"}>>
    BY <1>2 DEF Parts
  <2>2. registerAdmission(mode)
    BY <2>1 DEF registerAdmission
  <2>3. b \in Mutate(c, mode)
    BY <2>2 DEF Mutate, Pushed, base
  <2>4. b \in bindings(chains, mode)
    BY <1>2, <2>3 DEF bindings
  <2>5. b.kind = base.kind /\ b["isMutate"]
    BY <1>1
  <2> HIDE DEF b
  <2> QED BY <2>1, <2>4, <2>5 DEF base, Kind
<1>3. CASE method = "Validate"
  <2> DEFINE b == [base EXCEPT !.isValidate = TRUE]
  <2>1. part = <<"admission", {"isValidate"}>>
    BY <1>3 DEF Parts
  <2>2. registerAdmission(mode)
    BY <2>1 DEF registerAdmission
  <2>3. b \in Validate(c, mode)
    BY <2>2 DEF Validate, Pushed, base
  <2>4. b \in bindings(chains, mode)
    BY <1>3, <2>3 DEF bindings
  <2>5. b.kind = base.kind /\ b["isValidate"]
    BY <1>1
  <2> HIDE DEF b
  <2> QED BY <2>1, <2>4, <2>5 DEF base, Kind
<1>4. CASE method = "Watch"
  <2> DEFINE b == [base EXCEPT !.isWatch = TRUE]
  <2>1. part = <<"watcher", {"isWatch"}>>
    BY <1>4 DEF Parts
  <2>2. registerWatch(mode)
    BY <2>1 DEF registerWatch
  <2>3. b \in Watch(c, mode)
    BY <2>2 DEF Watch, Pushed, base
  <2>4. b \in bindings(chains, mode)
    BY <1>4, <2>3 DEF bindings
  <2>5. b.kind = base.kind /\ b["isWatch"]
    BY <1>1
  <2> HIDE DEF b
  <2> QED BY <2>1, <2>4, <2>5 DEF base, Kind
<1>5. CASE method = "Reconcile"
  <2> DEFINE b == [base EXCEPT !.isWatch = TRUE, !.isQueue = TRUE]
  <2>1. part = <<"watcher", {"isWatch", "isQueue"}>>
    BY <1>5 DEF Parts
  <2>2. registerWatch(mode)
    BY <2>1 DEF registerWatch
  <2>3. b \in Reconcile(c, mode)
    BY <2>2 DEF Reconcile, Pushed, base
  <2>4. b \in bindings(chains, mode)
    BY <1>5, <2>3 DEF bindings
  <2>5. b.kind = base.kind /\ b["isWatch"] /\ b["isQueue"]
    BY <1>1
  <2> HIDE DEF b
  <2> QED BY <2>1, <2>4, <2>5 DEF base, Kind
<1>6. CASE method = "Finalize" /\ part = <<"admission", {"isMutate", "isFinalize"}>>
  <2> DEFINE b == [base EXCEPT !.isMutate = TRUE, !.isFinalize = TRUE, !.event = "*"]
  <2>2. registerAdmission(mode)
    BY <1>6 DEF registerAdmission
  <2>3. b \in Finalize(c, mode)
    BY <2>2 DEF Finalize, Pushed, base
  <2>4. b \in bindings(chains, mode)
    BY <1>6, <2>3 DEF bindings
  <2>5. b.kind = base.kind /\ b["isMutate"] /\ b["isFinalize"]
    BY <1>1
  <2> HIDE DEF b
  <2> QED BY <1>6, <2>4, <2>5 DEF base, Kind
<1>7. CASE method = "Finalize" /\ part = <<"watcher", {"isWatch", "isFinalize"}>>
  <2> DEFINE b == [base EXCEPT !.isWatch = TRUE, !.isFinalize = TRUE, !.event = "UPDATE"]
  <2>2. registerWatch(mode)
    BY <1>7 DEF registerWatch
  <2>3. b \in Finalize(c, mode)
    BY <2>2 DEF Finalize, Pushed, base
  <2>4. b \in bindings(chains, mode)
    BY <1>7, <2>3 DEF bindings
  <2>5. b.kind = base.kind /\ b["isWatch"] /\ b["isFinalize"]
    BY <1>1
  <2> HIDE DEF b
  <2> QED BY <1>7, <2>4, <2>5 DEF base, Kind
<1>8. method = "Finalize" =>
        \/ part = <<"admission", {"isMutate", "isFinalize"}>>
        \/ part = <<"watcher", {"isWatch", "isFinalize"}>>
  BY DEF Parts
<1> QED BY <1>1, <1>2, <1>3, <1>4, <1>5, <1>6, <1>7, <1>8

\* The bindings of a build for all that its chains do.
LEMMA BuildBindings ==
  ASSUME NEW chains, \A c \in chains : WellTyped(c), NEW c \in chains
  PROVE  /\ {"Watch", "Reconcile"} \cap c.methods # {} =>
              \E b \in bindings(chains, "build") : b.kind = c.binding.kind /\ b.isWatch
         /\ "Finalize" \in c.methods =>
              \E b \in bindings(chains, "build") : b.kind = c.binding.kind /\ b.isFinalize
<1>1. ASSUME NEW method \in c.methods, NEW part \in Parts(method)
      PROVE  \E b \in bindings(chains, "build") :
               b.kind = c.binding.kind /\ \A flag \in part[2] : b[flag]
  BY ModeBindings
<1>2. /\ <<"watcher", {"isWatch"}>> \in Parts("Watch")
      /\ <<"watcher", {"isWatch", "isQueue"}>> \in Parts("Reconcile")
      /\ <<"watcher", {"isWatch", "isFinalize"}>> \in Parts("Finalize")
  BY DEF Parts
<1>3. ASSUME "Watch" \in c.methods
      PROVE  \E b \in bindings(chains, "build") : b.kind = c.binding.kind /\ b.isWatch
  <2>1. PICK part : part = <<"watcher", {"isWatch"}>>
    OBVIOUS
  <2> QED BY <1>1, <1>2, <1>3, <2>1
<1>4. ASSUME "Reconcile" \in c.methods
      PROVE  \E b \in bindings(chains, "build") : b.kind = c.binding.kind /\ b.isWatch
  <2>1. PICK part : part = <<"watcher", {"isWatch", "isQueue"}>>
    OBVIOUS
  <2> QED BY <1>1, <1>2, <1>4, <2>1
<1>5. ASSUME "Finalize" \in c.methods
      PROVE  \E b \in bindings(chains, "build") : b.kind = c.binding.kind /\ b.isFinalize
  <2>1. PICK part : part = <<"watcher", {"isWatch", "isFinalize"}>>
    OBVIOUS
  <2> QED BY <1>1, <1>2, <1>5, <2>1
<1> QED BY <1>3, <1>4, <1>5

\* What is for a webhook is registered by the build and by the admission pods alike,
\* and by a watcher never.
LEMMA AdmissionBindings ==
  ASSUME NEW chains, \A c \in chains : WellTyped(c), NEW type \in WebhookType
  PROVE  /\ (\E b \in bindings(chains, "build") : IsOfType(b, type))
              <=> \E b \in bindings(chains, "admission") : IsOfType(b, type)
         /\ \A b \in bindings(chains, "watch") : ~IsOfType(b, type)
<1>1. ASSUME NEW b \in bindings(chains, "admission") PROVE b \in bindings(chains, "build")
  <2>1. PICK c \in chains :
          \/ "Mutate" \in c.methods /\ b \in Mutate(c, "admission")
          \/ "Validate" \in c.methods /\ b \in Validate(c, "admission")
          \/ "Watch" \in c.methods /\ b \in Watch(c, "admission")
          \/ "Reconcile" \in c.methods /\ b \in Reconcile(c, "admission")
          \/ "Finalize" \in c.methods /\ b \in Finalize(c, "admission")
    BY DEF bindings
  <2>2. /\ registerAdmission("build") /\ registerWatch("build") /\ ~registerWatch("admission")
    BY DEF registerAdmission, registerWatch
  <2>3. \/ "Mutate" \in c.methods /\ b \in Mutate(c, "build")
        \/ "Validate" \in c.methods /\ b \in Validate(c, "build")
        \/ "Finalize" \in c.methods /\ b \in Finalize(c, "build")
    BY <2>1, <2>2 DEF Mutate, Validate, Watch, Reconcile, Finalize, Pushed
  <2> QED BY <2>3 DEF bindings
<1>2. ASSUME NEW mode \in Mode, NEW b \in bindings(chains, mode), IsOfType(b, type)
      PROVE  mode # "watch" /\ b \in bindings(chains, "admission")
  <2>1. PICK c \in chains :
          \/ "Mutate" \in c.methods /\ b \in Mutate(c, mode)
          \/ "Validate" \in c.methods /\ b \in Validate(c, mode)
          \/ "Watch" \in c.methods /\ b \in Watch(c, mode)
          \/ "Reconcile" \in c.methods /\ b \in Reconcile(c, mode)
          \/ "Finalize" \in c.methods /\ b \in Finalize(c, mode)
    BY DEF bindings
  <2> DEFINE base == c.binding
  <2>2. /\ {"isMutate", "isValidate", "isWatch", "isQueue", "isFinalize", "kind", "event"}
             \subseteq DOMAIN base
        /\ base.isMutate = FALSE /\ base.isValidate = FALSE
    BY DEF WellTyped, Flag
  <2> HIDE DEF base
  <2>3. /\ b # [base EXCEPT !.isWatch = TRUE]
        /\ b # [base EXCEPT !.isWatch = TRUE, !.isQueue = TRUE]
        /\ b # [base EXCEPT !.isWatch = TRUE, !.isFinalize = TRUE, !.event = "UPDATE"]
    BY <1>2, <2>2 DEF IsOfType
  <2>4. /\ registerAdmission(mode)
        /\ \/ "Mutate" \in c.methods /\ b = [base EXCEPT !.isMutate = TRUE]
           \/ "Validate" \in c.methods /\ b = [base EXCEPT !.isValidate = TRUE]
           \/ /\ "Finalize" \in c.methods
              /\ b = [base EXCEPT !.isMutate = TRUE, !.isFinalize = TRUE, !.event = "*"]
    BY <2>1, <2>3 DEF Mutate, Validate, Watch, Reconcile, Finalize, Pushed, base
  <2>5. mode # "watch" /\ registerAdmission("admission")
    BY <2>4 DEF registerAdmission
  <2>6. \/ "Mutate" \in c.methods /\ b \in Mutate(c, "admission")
        \/ "Validate" \in c.methods /\ b \in Validate(c, "admission")
        \/ "Finalize" \in c.methods /\ b \in Finalize(c, "admission")
    BY <2>4, <2>5 DEF Mutate, Validate, Finalize, Pushed, base
  <2>7. b \in bindings(chains, "admission")
    BY <2>6 DEF bindings
  <2> QED BY <2>5, <2>7
<1> QED BY <1>1, <1>2 DEF Mode

\* A binding is of a chain, a finalize binding of one that finalizes, and one that
\* watches of one that watches, reconciles or finalizes.
LEMMA BindingOfChain ==
  ASSUME NEW chains, \A c \in chains : WellTyped(c), NEW mode \in Mode,
         NEW b \in bindings(chains, mode)
  PROVE  \E c \in chains :
           /\ b.kind = c.binding.kind
           /\ b.isFinalize => "Finalize" \in c.methods
           /\ b.isWatch => {"Watch", "Reconcile", "Finalize"} \cap c.methods # {}
<1>1. PICK c \in chains :
        \/ "Mutate" \in c.methods /\ b \in Mutate(c, mode)
        \/ "Validate" \in c.methods /\ b \in Validate(c, mode)
        \/ "Watch" \in c.methods /\ b \in Watch(c, mode)
        \/ "Reconcile" \in c.methods /\ b \in Reconcile(c, mode)
        \/ "Finalize" \in c.methods /\ b \in Finalize(c, mode)
  BY DEF bindings
<1> DEFINE base == c.binding
<1>2. /\ {"isMutate", "isValidate", "isWatch", "isQueue", "isFinalize", "kind", "event"}
           \subseteq DOMAIN base
      /\ base.isFinalize = FALSE /\ base.isWatch = FALSE
  BY DEF WellTyped, Flag
<1>3. \/ "Mutate" \in c.methods /\ b = [base EXCEPT !.isMutate = TRUE]
      \/ "Validate" \in c.methods /\ b = [base EXCEPT !.isValidate = TRUE]
      \/ "Watch" \in c.methods /\ b = [base EXCEPT !.isWatch = TRUE]
      \/ "Reconcile" \in c.methods /\ b = [base EXCEPT !.isWatch = TRUE, !.isQueue = TRUE]
      \/ /\ "Finalize" \in c.methods
         /\ \/ b = [base EXCEPT !.isMutate = TRUE, !.isFinalize = TRUE, !.event = "*"]
            \/ b = [base EXCEPT !.isWatch = TRUE, !.isFinalize = TRUE, !.event = "UPDATE"]
  BY <1>1 DEF Mutate, Validate, Watch, Reconcile, Finalize, Pushed
<1> HIDE DEF base
<1>4. /\ b.kind = base.kind
      /\ b.isFinalize => "Finalize" \in c.methods
      /\ b.isWatch => {"Watch", "Reconcile", "Finalize"} \cap c.methods # {}
  BY <1>2, <1>3
<1> QED BY <1>4 DEF base

(***************************************************************************)
(* Types.                                                                  *)
(***************************************************************************)

\* The records of pods.
Pods(n) == [of : 0..n, code : 0..n, path : 0..n, tls : 0..n, early : BOOLEAN, stage : Stage]

\* What TypeOK says of one pod p at s.
PodOK(p, s) ==
  /\ p.stage = "none" <=> p.of = 0
  /\ p.stage = "starting" => p.code = 0 /\ p.path = 0 /\ p.tls = 0
  /\ p.stage \in Started => p.code # 0 /\ p.tls # 0
  /\ p.stage \in Started /\ s[1] = "admission" => p.path # 0

\* A step changes one pod, to one of these.
LEMMA PodSteps ==
  ASSUME TypeOK, NEW s \in Slot,
         CreatePod(s) \/ RemovePod(s) \/ PodEnds(s) \/ StartPod(s) \/ BindEndpoints(s)
           \/ WatchGivesUp(s) \/ Crash(s)
  PROVE  \E p \in Pods(Last) :
           /\ pod' = [pod EXCEPT ![s] = p]
           /\ PodOK(p, s)
           /\ UNCHANGED <<build, held, cli, failures>>
           /\ crashes' \in 0..MaxCrashes
           /\ p.of # 0 => p.of = pod[s].of \/ CreatePod(s)
           /\ p.stage \in Started =>
                \/ p.code = pod[s].code /\ p.path = pod[s].path /\ pod[s].stage \in Started
                     /\ p.of = pod[s].of
                \/ /\ p.of = held["module"] /\ p.code = held["module"]
                   /\ p.path = 0 \/ p.path = held["path"]
<1>1. /\ pod[s] \in Pods(Last) /\ PodOK(pod[s], s) /\ crashes \in 0..MaxCrashes
      /\ pod \in [Slot -> Pods(Last)]
      /\ Last \in Nat
      /\ \A r \in Resource : held[r] \in 0..Last
  BY DEF TypeOK, Pods, PodOK, Last
<1>2. CASE CreatePod(s)
  <2>1. PICK n : n = held[s[1]]
    OBVIOUS
  <2>2. n \in 0..Last /\ n # 0
    BY <1>1, <1>2, <2>1, ResourceFacts DEF CreatePod
  <2>3. PICK p : p = Starting(n)
    OBVIOUS
  <2>4. pod' = [pod EXCEPT ![s] = p]
    BY <1>2, <2>1, <2>3 DEF CreatePod
  <2>5. p \in Pods(Last) /\ PodOK(p, s) /\ p.stage \notin Started
    BY <1>1, <2>2, <2>3 DEF Pods, PodOK, Stage, Started, Starting
  <2> QED BY <1>1, <1>2, <2>4, <2>5 DEF CreatePod
<1>3. CASE RemovePod(s)
  <2> DEFINE p == [pod[s] EXCEPT !.stage = "ending"]
  <2>1. pod[s].stage # "none"
    BY <1>3 DEF RemovePod, OldPods, PodsOf
  <2>2. pod' = [pod EXCEPT ![s] = p] \/ pod' = [pod EXCEPT ![s] = NoPod]
    BY <1>1, <1>3 DEF RemovePod
  <2>3. p \in Pods(Last) /\ PodOK(p, s) /\ p.stage \notin Started /\ p.of = pod[s].of
    BY <1>1, <2>1 DEF Pods, PodOK, Stage, Started
  <2>4. NoPod \in Pods(Last) /\ PodOK(NoPod, s) /\ NoPod.stage \notin Started /\ NoPod.of = 0
    BY <1>1 DEF Pods, PodOK, Stage, Started, NoPod
  <2> HIDE DEF p
  <2> QED BY <1>1, <1>3, <2>2, <2>3, <2>4 DEF RemovePod
<1>4. CASE PodEnds(s)
  <2>1. NoPod \in Pods(Last) /\ PodOK(NoPod, s) /\ NoPod.stage \notin Started /\ NoPod.of = 0
    BY <1>1 DEF Pods, PodOK, Stage, Started, NoPod
  <2> QED BY <1>1, <1>4, <2>1 DEF PodEnds
<1>5. CASE StartPod(s)
  <2>1. PICK path : path = IF s[1] = "admission" THEN held["path"] ELSE 0
    OBVIOUS
  <2>2. PICK early \in BOOLEAN : early = (pod[s].of = Last /\ UpTo("path"))
    OBVIOUS
  <2> DEFINE p == [of |-> pod[s].of, code |-> held["module"], path |-> path,
                   tls |-> held["tls"], early |-> early, stage |-> "running"]
  <2>3. /\ held["module"] \in 0..Last /\ held["tls"] \in 0..Last /\ path \in 0..Last
        /\ held["module"] # 0 /\ held["tls"] # 0
        /\ s[1] = "admission" => path # 0
        /\ path = 0 \/ path = held["path"]
        /\ held["module"] = pod[s].of
    BY <1>1, <1>5, <2>1, ResourceFacts DEF StartPod, Mounts, runModule
  <2>4. pod' = [pod EXCEPT ![s].stage = "running", ![s].code = held["module"],
                  ![s].tls = held["tls"], ![s].path = path, ![s].early = early]
    BY <1>5, <2>1, <2>2 DEF StartPod
  <2>5. pod' = [pod EXCEPT ![s] = p]
    <3>1. pod'[s] = p
      BY <1>1, <2>4 DEF Pods
    <3> HIDE DEF p
    <3>2. DOMAIN pod' = Slot /\ \A t \in Slot \ {s} : pod'[t] = pod[t]
      BY <1>1, <2>4
    <3> QED BY <1>1, <3>1, <3>2, <2>4
  <2>6. p \in Pods(Last)
    BY <1>1, <2>3 DEF Pods, Stage
  <2>7. PodOK(p, s)
    BY <2>3 DEF PodOK, Started
  <2>8. p.of = held["module"] /\ p.code = held["module"] /\ (p.path = 0 \/ p.path = held["path"])
        /\ p.of = pod[s].of
    BY <2>3
  <2> HIDE DEF p
  <2> QED BY <1>1, <1>5, <2>5, <2>6, <2>7, <2>8 DEF StartPod
<1>6. CASE BindEndpoints(s)
  <2> DEFINE p == [pod[s] EXCEPT !.stage = "ready"]
  <2>1. pod[s].stage = "running" /\ pod' = [pod EXCEPT ![s] = p]
    BY <1>1, <1>6 DEF BindEndpoints
  <2>2. p \in Pods(Last) /\ PodOK(p, s) /\ pod[s].stage \in Started
    BY <1>1, <2>1 DEF Pods, PodOK, Stage, Started
  <2>3. p.of = pod[s].of /\ p.code = pod[s].code /\ p.path = pod[s].path
    BY <1>1 DEF Pods
  <2> HIDE DEF p
  <2> QED BY <1>1, <1>6, <2>1, <2>2, <2>3 DEF BindEndpoints
<1>7. CASE WatchGivesUp(s) \/ Crash(s)
  <2>1. PICK p : p = Starting(pod[s].of)
    OBVIOUS
  <2>2. pod[s].stage \in Started /\ pod' = [pod EXCEPT ![s] = p]
    BY <1>7, <2>1 DEF WatchGivesUp, Crash, Again, Started
  <2>3. pod[s].of # 0 /\ pod[s].of \in 0..Last
    BY <1>1, <2>2 DEF PodOK, Started, Pods
  <2>4. p \in Pods(Last) /\ PodOK(p, s) /\ p.stage \notin Started /\ p.of = pod[s].of
    BY <1>1, <2>1, <2>3 DEF Pods, PodOK, Stage, Started, Starting
  <2>5. crashes' \in 0..MaxCrashes /\ UNCHANGED <<build, held, cli, failures>>
    BY <1>1, <1>7, DeploymentAssumption DEF WatchGivesUp, Crash
  <2> QED BY <2>2, <2>4, <2>5
<1> QED BY <1>2, <1>3, <1>4, <1>5, <1>6, <1>7

\* A resource is of a build there has been, and a process has read what was there.
THEOREM TypeCorrect == Spec => []TypeOK
<1>1. Init => TypeOK
  <2> SUFFICES ASSUME Init PROVE TypeOK
    OBVIOUS
  <2>1. build \in Seq(Module) /\ Last = 0 /\ Last <= MaxBuilds
    BY DeploymentAssumption DEF Init, Last
  <2>2. NoPod \in Pods(0) /\ \A s \in Slot : PodOK(NoPod, s)
    BY DEF NoPod, Pods, Stage, PodOK, Started
  <2>3. pod \in [Slot -> Pods(0)] /\ \A s \in Slot : PodOK(pod[s], s)
    BY <2>2 DEF Init
  <2> QED BY <2>1, <2>3, StepsFacts, DeploymentAssumption DEF TypeOK, Init, PodOK, Pods
<1>2. TypeOK /\ [Next]_vars => TypeOK'
  <2> SUFFICES ASSUME TypeOK, [Next]_vars PROVE TypeOK'
    OBVIOUS
  <2> DEFINE others == /\ failures' \in 0..MaxFailures
                       /\ crashes' \in 0..MaxCrashes
  <2>1. ASSUME NEW m \in Module, Build(m) PROVE TypeOK'
    <3>1. /\ build' \in Seq(Module) /\ Len(build') = Last + 1 /\ Len(build') <= MaxBuilds
          /\ Last \in Nat
      BY <2>1, DeploymentAssumption DEF Build, TypeOK, Last
    <3>2. held' \in [Resource -> 0..Len(build')]
      BY <2>1, <3>1 DEF Build, TypeOK
    <3>3. /\ cli' \in [status : {"none", "applying", "waiting", "done", "failed"}, step : 0..Len(Steps)]
          /\ cli'.step = 1
      BY <2>1, StepsFacts DEF Build
    <3>4. pod' \in [Slot -> Pods(Len(build'))] /\ \A s \in Slot : PodOK(pod'[s], s)
      BY <2>1, <3>1 DEF Build, TypeOK, Pods, PodOK
    <3>5. others
      BY <2>1 DEF Build, TypeOK
    <3> QED BY <3>1, <3>2, <3>3, <3>4, <3>5 DEF TypeOK, Last, Pods, PodOK
  <2>2. CASE Apply
    <3>1. /\ Last \in Nat /\ Len(build') = Last /\ build' = build /\ pod' = pod /\ others
      BY <2>2 DEF Apply, TypeOK, Last
    <3>2. held' \in [Resource -> 0..Len(build')]
      <4>1. held \in [Resource -> 0..Last]
        BY DEF TypeOK
      <4>2. cli.step \in 1..9
        BY <2>2, StepsFacts DEF Apply, TypeOK
      <4>3. PICK r \in Resource : r = Steps[cli.step]
        BY <4>2, ResourceFacts
      <4>4. PICK v : v = IF Needed(Last, r) THEN Last ELSE IF r \in WebhookType THEN 0 ELSE held[r]
        OBVIOUS
      <4>5. v \in 0..Last
        BY <3>1, <4>1, <4>4
      <4>6. held' = [held EXCEPT ![r] = v]
        BY <2>2, <4>3, <4>4 DEF Apply
      <4> QED BY <3>1, <4>1, <4>5, <4>6
    <3>3. /\ cli' \in [status : {"none", "applying", "waiting", "done", "failed"}, step : 0..Len(Steps)]
          /\ cli'.status = "applying" => cli'.step # 0 /\ Last # 0
      BY <2>2, StepsFacts DEF Apply, TypeOK
    <3> QED BY <3>1, <3>2, <3>3 DEF TypeOK, Last
  <2>3. CASE ApplyFails \/ CheckReady
    <3>1. /\ build' = build /\ held' = held /\ pod' = pod /\ crashes' = crashes
          /\ failures' \in 0..MaxFailures
      BY <2>3, DeploymentAssumption DEF ApplyFails, CheckReady, TypeOK
    <3>2. /\ cli' \in [status : {"none", "applying", "waiting", "done", "failed"}, step : 0..Len(Steps)]
          /\ cli'.status # "applying"
      BY <2>3 DEF ApplyFails, CheckReady, TypeOK
    <3> QED BY <3>1, <3>2 DEF TypeOK, Last
  <2>4. ASSUME NEW s \in Slot,
               CreatePod(s) \/ RemovePod(s) \/ PodEnds(s) \/ StartPod(s) \/ BindEndpoints(s)
                 \/ WatchGivesUp(s) \/ Crash(s)
        PROVE  TypeOK'
    <3>1. PICK p \in Pods(Last) :
            /\ pod' = [pod EXCEPT ![s] = p] /\ PodOK(p, s)
            /\ UNCHANGED <<build, held, cli, failures>> /\ crashes' \in 0..MaxCrashes
      BY <2>4, PodSteps
    <3>2. pod \in [Slot -> Pods(Last)] /\ \A t \in Slot : PodOK(pod[t], t)
      BY DEF TypeOK, Pods, PodOK
    <3>3. pod' \in [Slot -> Pods(Last)] /\ \A t \in Slot : PodOK(pod'[t], t)
      BY <3>1, <3>2
    <3> QED BY <3>1, <3>3 DEF TypeOK, Last, Pods, PodOK
  <2>5. CASE UNCHANGED vars
    BY <2>5 DEF vars, TypeOK, Last, Bindings
  <2> QED BY <2>1, <2>2, <2>3, <2>4, <2>5 DEF Next
<1> QED BY <1>1, <1>2, PTL DEF Spec

(***************************************************************************)
(* The command has applied what is before its step.                        *)
(***************************************************************************)

\* The i-th resource is as the last build wants it.
Done(i) ==
  IF Needed(Last, Steps[i]) THEN held[Steps[i]] = Last
  ELSE Steps[i] \in WebhookType => held[Steps[i]] = 0

Applied ==
  /\ cli.status \in {"waiting", "done"} => Last # 0 /\ \A i \in 1..9 : Done(i)
  /\ cli.status = "applying" => \A i \in 1..9 : i < cli.step => Done(i)

\* What is needed depends on what was built alone.
LEMMA StillNeeded ==
  ASSUME build' = build
  PROVE  Last' = Last /\ \A r \in Resource : Needed(Last, r)' <=> Needed(Last, r)
<1>1. Last' = Last
  BY DEF Last
<1>2. PICK m : m = build[Last]
  OBVIOUS
<1>3. build'[Last'] = m
  BY <1>1, <1>2
<1>4. ASSUME NEW r \in Resource PROVE Needed(Last, r)' <=> Needed(Last, r)
  <2>1. /\ r \in WebhookType => (Needed(Last, r) <=> HasWebhook(m, r))
        /\ r = "admission" => (Needed(Last, r) <=> isAdmission(m) \/ norWatchOrAdmission(m))
        /\ r = "watcher" => (Needed(Last, r) <=> isWatcher(m))
        /\ r \notin WebhookType \cup {"admission", "watcher"} => Needed(Last, r)
    BY <1>2 DEF Needed, WebhookType
  <2>2. /\ r \in WebhookType => (Needed(Last, r)' <=> HasWebhook(m, r))
        /\ r = "admission" => (Needed(Last, r)' <=> isAdmission(m) \/ norWatchOrAdmission(m))
        /\ r = "watcher" => (Needed(Last, r)' <=> isWatcher(m))
        /\ r \notin WebhookType \cup {"admission", "watcher"} => Needed(Last, r)'
    BY <1>3 DEF Needed, WebhookType
  <2> QED BY <2>1, <2>2
<1> QED BY <1>1, <1>4

\* Every step of the command leaves what the steps before it did.
LEMMA AppliedStays == Spec => []Applied
<1>1. Init => Applied
  BY DEF Init, Applied
<1>2. TypeOK /\ Applied /\ [Next]_vars => Applied'
  <2> SUFFICES ASSUME TypeOK, Applied, [Next]_vars PROVE Applied'
    OBVIOUS
  <2>1. ASSUME NEW m \in Module, Build(m) PROVE Applied'
    BY <2>1 DEF Build, Applied
  <2>2. CASE Apply
    <3>1. /\ Last' = Last
          /\ \A r \in Resource : Needed(Last, r)' <=> Needed(Last, r)
      BY <2>2, StillNeeded DEF Apply
    <3>2. /\ cli.step \in 1..9 /\ cli.status = "applying" /\ Last # 0
          /\ cli' = IF cli.step < 9 THEN [cli EXCEPT !.step = @ + 1]
                    ELSE [cli EXCEPT !.status = IF build[Last].wellNamed THEN "waiting" ELSE "failed"]
      BY <2>2, StepsFacts DEF Apply, TypeOK
    <3>3. PICK j \in 1..9 : j = cli.step
      BY <3>2
    <3>4. \A i \in 1..9 : i < j => Done(i)'
      <4> SUFFICES ASSUME NEW i \in 1..9, i < j PROVE Done(i)'
        OBVIOUS
      <4>1. Done(i) /\ Steps[i] # Steps[j] /\ Steps[i] \in Resource
        BY <3>2, <3>3, StepsDistinct, ResourceFacts DEF Applied
      <4>2. held'[Steps[i]] = held[Steps[i]]
        BY <2>2, <3>3, <4>1 DEF Apply, TypeOK
      <4> QED BY <3>1, <4>1, <4>2 DEF Done
    <3>5. Done(j)'
      <4>1. PICK r \in Resource : r = Steps[j]
        BY ResourceFacts
      <4>2. held'[r] = IF Needed(Last, r) THEN Last ELSE IF r \in WebhookType THEN 0 ELSE held[r]
        BY <2>2, <3>3, <4>1 DEF Apply, TypeOK
      <4>3. Needed(Last, r)' <=> Needed(Last, r)
        BY <3>1
      <4> QED BY <3>1, <4>1, <4>2, <4>3 DEF Done
    <3>6. CASE j < 9
      <4>1. cli'.status = "applying" /\ cli'.step = j + 1
        BY <3>2, <3>3, <3>6 DEF TypeOK
      <4>2. \A i \in 1..9 : i < cli'.step => i < j \/ i = j
        BY <4>1
      <4>3. \A i \in 1..9 : i < cli'.step => Done(i)'
        BY <3>4, <3>5, <4>2
      <4> QED BY <4>1, <4>3 DEF Applied
    <3>7. CASE j = 9
      <4>1. cli'.status \in {"waiting", "failed"}
        BY <3>2, <3>3, <3>7 DEF TypeOK
      <4>2. \A i \in 1..9 : i < j \/ i = j
        BY <3>7
      <4>3. \A i \in 1..9 : Done(i)'
        BY <3>4, <3>5, <4>2
      <4> QED BY <3>1, <3>2, <4>1, <4>3 DEF Applied
    <3> QED BY <3>6, <3>7
  <2>3. CASE /\ UNCHANGED <<build, held>>
             /\ \/ cli' = cli
                \/ cli'.status = "failed"
                \/ cli.status = "waiting" /\ cli'.status = "done"
    <3>1. /\ Last' = Last
          /\ \A r \in Resource : Needed(Last, r)' <=> Needed(Last, r)
      BY <2>3, StillNeeded
    <3>2. \A i \in 1..9 : Done(i)' <=> Done(i)
      BY <2>3, <3>1, ResourceFacts DEF Done
    <3> QED BY <2>3, <3>1, <3>2 DEF Applied
  <2>4. CASE ApplyFails
    BY <2>3, <2>4 DEF ApplyFails, TypeOK
  <2>5. CASE CheckReady
    BY <2>3, <2>5 DEF CheckReady, TypeOK
  <2>6. ASSUME NEW s \in Slot,
               CreatePod(s) \/ RemovePod(s) \/ PodEnds(s) \/ StartPod(s) \/ BindEndpoints(s)
                 \/ WatchGivesUp(s) \/ Crash(s)
        PROVE  Applied'
    BY <2>3, <2>6, PodSteps
  <2>7. CASE UNCHANGED vars
    BY <2>3, <2>7 DEF vars
  <2> QED BY <2>1, <2>2, <2>4, <2>5, <2>6, <2>7 DEF Next
<1> QED BY <1>1, <1>2, TypeCorrect, PTL DEF Spec

(***************************************************************************)
(* What pods have read, and in which order it was applied.                 *)
(***************************************************************************)

\* No webhook is older than the code, and no path is newer. A process runs the code
\* of its own build, with a path that is not newer either.
Ordered ==
  /\ \A type \in WebhookType : held[type] = 0 \/ held["module"] <= held[type]
  /\ held["path"] <= held["module"]
  /\ \A s \in Slot :
       pod[s].stage \in Started =>
         /\ pod[s].code = pod[s].of
         /\ pod[s].path <= pod[s].code /\ pod[s].code <= held["module"]

\* The order of the steps keeps the code between the webhooks and the path.
LEMMA OrderStays == Spec => []Ordered
<1>1. Init => Ordered
  BY ResourceFacts DEF Init, Ordered, NoPod, Started, WebhookType
<1>2. TypeOK /\ Applied /\ Ordered /\ [Next]_vars => Ordered'
  <2> SUFFICES ASSUME TypeOK, Applied, Ordered, [Next]_vars PROVE Ordered'
    OBVIOUS
  <2>1. /\ held \in [Resource -> 0..Last] /\ Last \in Nat
        /\ {"module", "path", "mutate", "validate"} \subseteq Resource
        /\ pod \in [Slot -> Pods(Last)]
    <3>1. held \in [Resource -> 0..Last] /\ Last \in Nat /\ pod \in [Slot -> Pods(Last)]
      BY DEF TypeOK, Last, Pods
    <3> QED BY <3>1, ResourceFacts
  <2>2. CASE Apply
    <3>1. PICK j \in 1..9 : j = cli.step
      BY <2>2, StepsFacts DEF Apply, TypeOK
    <3>2. PICK r \in Resource : r = Steps[j]
      BY ResourceFacts
    <3>3. PICK v : v = IF Needed(Last, r) THEN Last ELSE IF r \in WebhookType THEN 0 ELSE held[r]
      OBVIOUS
    <3>4. held' = [held EXCEPT ![r] = v] /\ pod' = pod /\ cli.status = "applying"
      BY <2>2, <3>1, <3>2, <3>3 DEF Apply
    <3>5. \A x \in Resource : held'[x] = IF x = r THEN v ELSE held[x]
      BY <2>1, <3>4
    <3>6. r \in {"module", "path"} => v = Last
      BY <3>3 DEF Needed, WebhookType
    <3>7. r = "module" => \A type \in WebhookType : held[type] = 0 \/ held[type] = Last
      <4> SUFFICES ASSUME r = "module" PROVE \A type \in WebhookType : held[type] = 0 \/ held[type] = Last
        OBVIOUS
      <4>1. j = 5
        BY <3>2, StepsFacts, StepsDistinct
      <4>2. Done(1) /\ Done(2)
        BY <3>1, <3>4, <4>1 DEF Applied
      <4> QED BY <4>2, StepsFacts DEF Done, WebhookType
    <3>8. r = "path" => held["module"] = Last
      <4> SUFFICES ASSUME r = "path" PROVE held["module"] = Last
        OBVIOUS
      <4>1. j = 8
        BY <3>2, StepsFacts, StepsDistinct
      <4>2. Done(5)
        BY <3>1, <3>4, <4>1 DEF Applied
      <4> QED BY <4>2, StepsFacts DEF Done, Needed, WebhookType
    <3>9. \A type \in WebhookType : held'[type] = 0 \/ held'["module"] <= held'[type]
      BY <2>1, <3>3, <3>5, <3>6, <3>7 DEF Ordered, WebhookType
    <3>10. held'["path"] <= held'["module"]
      BY <2>1, <3>5, <3>6, <3>8 DEF Ordered
    <3>11. held["module"] <= held'["module"]
      BY <2>1, <3>5, <3>6
    <3>12. \A s \in Slot : pod[s].code \in Nat
      BY <2>1 DEF Pods
    <3>13. held["module"] \in Nat /\ held'["module"] \in Nat
      BY <2>1, <3>5, <3>6
    <3>14. ASSUME NEW s \in Slot, pod[s].stage \in Started
           PROVE  /\ pod[s].code = pod[s].of
                  /\ pod[s].path <= pod[s].code /\ pod[s].code <= held'["module"]
      BY <3>11, <3>12, <3>13, <3>14 DEF Ordered
    <3> QED BY <3>4, <3>9, <3>10, <3>14 DEF Ordered
  <2>3. ASSUME NEW s \in Slot,
               CreatePod(s) \/ RemovePod(s) \/ PodEnds(s) \/ StartPod(s) \/ BindEndpoints(s)
                 \/ WatchGivesUp(s) \/ Crash(s)
        PROVE  Ordered'
    <3>1. PICK p \in Pods(Last) :
            /\ pod' = [pod EXCEPT ![s] = p] /\ held' = held
            /\ p.stage \in Started =>
                 \/ p.code = pod[s].code /\ p.path = pod[s].path /\ pod[s].stage \in Started
                      /\ p.of = pod[s].of
                 \/ /\ p.of = held["module"] /\ p.code = held["module"]
                    /\ p.path = 0 \/ p.path = held["path"]
      BY <2>3, PodSteps
    <3>2. p.stage \in Started =>
            /\ p.code = p.of /\ p.path <= p.code /\ p.code <= held["module"]
      BY <2>1, <3>1 DEF Ordered
    <3>3. \A t \in Slot : pod'[t] = IF t = s THEN p ELSE pod[t]
      BY <2>1, <3>1
    <3> QED BY <3>1, <3>2, <3>3 DEF Ordered
  <2>4. CASE UNCHANGED <<held, pod>>
    BY <2>4 DEF Ordered
  <2> QED BY <2>2, <2>3, <2>4 DEF Next, Build, ApplyFails, CheckReady, vars
<1> QED BY <1>1, <1>2, TypeCorrect, AppliedStays, PTL DEF Spec

\* What answers a build's webhooks is that build's code, whenever the command fails
\* and whatever pods start again: path = webhook >= code in the secret >= code of the
\* process >= path.
THEOREM AnswersAreOfTheBuild == Spec => []AnsweredByTheBuild
<1>1. TypeOK /\ Ordered => AnsweredByTheBuild
  <2> SUFFICES ASSUME TypeOK, Ordered, NEW s \in Slot, NEW type \in WebhookType,
                      pod[s].stage = "ready", held[type] # 0, Serves(s, type)
               PROVE  pod[s].code = held[type]
    BY DEF AnsweredByTheBuild
  <2>1. pod[s] \in Pods(Last) /\ pod[s].path = held[type] /\ pod[s].stage \in Started
    BY DEF TypeOK, Pods, Serves, validatepath, Started
  <2>2. held["module"] \in 0..Last /\ held[type] \in 0..Last
    BY ResourceFacts DEF TypeOK, WebhookType
  <2>3. /\ held["module"] <= held[type] /\ pod[s].path <= pod[s].code
        /\ pod[s].code <= held["module"]
    BY <2>1 DEF Ordered
  <2>4. pod[s].code \in 0..Last /\ Last \in Nat
    BY <2>1 DEF Pods, TypeOK, Last
  <2> QED BY <2>1, <2>2, <2>3, <2>4
<1> QED BY <1>1, TypeCorrect, OrderStays, PTL

(***************************************************************************)
(* Bindings, webhooks, Deployments and permissions.                        *)
(***************************************************************************)

\* When everything is applied, what was exported when the module was built fits what the
\* pods register in their modes, for any chains.
THEOREM WholeIsDeployed == Spec => []DeployedWhole
<1>1. TypeOK /\ Applied => DeployedWhole
  <2> SUFFICES ASSUME TypeOK, Applied, cli.status \in {"waiting", "done"}
               PROVE  DeployedWhole
    BY DEF DeployedWhole
  <2>1. PICK chains : chains = build[Last].chains
    OBVIOUS
  <2>2. \A c \in chains : WellTyped(c)
    <3>1. Last \in 1..Len(build) /\ build \in Seq(Module)
      BY DEF Applied, TypeOK, Last
    <3>2. build[Last] \in Module
      BY <3>1
    <3> QED BY <2>1, <3>2, DeploymentAssumption
  <2>3. /\ \A type \in WebhookType :
             held[type] = IF HasWebhook(build[Last], type) THEN Last ELSE 0
        /\ isAdmission(build[Last]) => held["admission"] = Last
        /\ isWatcher(build[Last]) => held["watcher"] = Last
    <3>1. Done(1) /\ Done(2) /\ Done(6) /\ Done(9)
      BY DEF Applied
    <3>2. /\ Needed(Last, "mutate") <=> HasWebhook(build[Last], "mutate")
          /\ Needed(Last, "validate") <=> HasWebhook(build[Last], "validate")
          /\ isAdmission(build[Last]) => Needed(Last, "admission")
          /\ isWatcher(build[Last]) => Needed(Last, "watcher")
      BY DEF Needed, WebhookType
    <3> QED BY <3>1, <3>2, StepsFacts DEF Done, WebhookType
  <2>4. ASSUME NEW type \in WebhookType
        PROVE  HasWebhook(build[Last], type)
                 <=> \E b \in bindings(chains, "admission") : IsOfType(b, type)
    <3>1. (\E b \in bindings(chains, "build") : IsOfType(b, type))
            <=> \E b \in bindings(chains, "admission") : IsOfType(b, type)
      BY <2>2, AdmissionBindings
    <3> QED BY <2>1, <3>1 DEF HasWebhook, Bindings
  <2>5. \A type \in WebhookType :
          held[type] = IF \E b \in Registered(Last, "admission") : IsOfType(b, type) THEN Last ELSE 0
    BY <2>1, <2>3, <2>4 DEF Registered
  <2>6. ASSUME NEW c \in chains, NEW method \in c.methods, NEW part \in Parts(method)
        PROVE  /\ held[part[1]] = Last
               /\ \E b \in Registered(Last, part[1]) :
                    b.kind = c.binding.kind /\ \A flag \in part[2] : b[flag]
    <3>1. PICK mode : mode = IF part[1] = "admission" THEN "admission" ELSE "watch"
      OBVIOUS
    <3>2. /\ part[1] \in Kind
          /\ \E b \in bindings(chains, mode) :
               b.kind = c.binding.kind /\ \A flag \in part[2] : b[flag]
      BY <2>2, <3>1, ModeBindings
    <3>3. /\ part[1] \in Kind
          /\ \E b \in Registered(Last, part[1]) :
               b.kind = c.binding.kind /\ \A flag \in part[2] : b[flag]
      BY <2>1, <3>1, <3>2 DEF Registered
    <3>4. PICK b \in Bindings(build[Last]) : \A flag \in part[2] : b[flag]
      BY <2>1, <2>2, ModeBindings DEF Bindings
    <3>5. /\ part[1] = "admission" => b.isMutate \/ b.isValidate
          /\ part[1] = "watcher" => b.isWatch
      <4>1. method \in {"Mutate", "Validate", "Watch", "Reconcile", "Finalize"}
        BY <2>2 DEF WellTyped, Method
      <4>2. /\ part[1] = "admission" => "isMutate" \in part[2] \/ "isValidate" \in part[2]
            /\ part[1] = "watcher" => "isWatch" \in part[2]
        BY <4>1 DEF Parts
      <4> QED BY <3>4, <4>2
    <3>6. /\ part[1] = "admission" => isAdmission(build[Last])
          /\ part[1] = "watcher" => isWatcher(build[Last])
      BY <3>4, <3>5 DEF isAdmission, isWatcher
    <3> QED BY <2>3, <3>3, <3>6 DEF Kind
  <2>7. ASSUME NEW s \in Slot, NEW type \in WebhookType, pod[s].code = Last,
               NEW b \in Registered(pod[s].code, s[1]), IsOfType(b, type)
        PROVE  s[1] = "admission" /\ held[type] = Last
    <3>1. s[1] = "admission"
      <4>1. s[1] # "admission" => b \in bindings(chains, "watch")
        BY <2>1, <2>7 DEF Registered
      <4>2. b \notin bindings(chains, "watch")
        BY <2>2, <2>7, AdmissionBindings
      <4> QED BY <4>1, <4>2
    <3>2. b \in Registered(Last, "admission")
      BY <2>7, <3>1
    <3> QED BY <2>5, <2>7, <3>1, <3>2
  <2>8. build[Last].hasSchedule => held["watcher"] = Last
    BY <2>3 DEF isWatcher
  <2> QED BY <2>1, <2>5, <2>6, <2>7, <2>8 DEF DeployedWhole
<1> QED BY <1>1, TypeCorrect, AppliedStays, PTL

\* The role of a build allows what its watchers do, for any chains: that the bindings
\* of the build and those of the pods come of the same chains.
LEMMA RoleAllows ==
  ASSUME NEW n, \A c \in build[n].chains : WellTyped(c)
  PROVE  LET watched == {b.kind : b \in {x \in bindings(build[n].chains, "watch") : x.isWatch}}
         IN /\ \A k \in watched \ Finalized(n) : "watch" \in clusterRole(build[n], k)
            /\ \A k \in Finalized(n) : "patch" \in clusterRole(build[n], k)
<1>1. "watch" \in Verb /\ "patch" \in Verb
  BY DEF Verb
<1>2. ASSUME NEW b \in bindings(build[n].chains, "watch"), b.isWatch, b.kind \notin Finalized(n)
      PROVE  "watch" \in createRBACMap(build[n], b.kind)
  <2>1. PICK c \in build[n].chains :
          b.kind = c.binding.kind /\ {"Watch", "Reconcile", "Finalize"} \cap c.methods # {}
    BY <1>2, BindingOfChain DEF Mode
  <2>2. \A d \in build[n].chains : "Finalize" \in d.methods => d.binding.kind \in Finalized(n)
    BY DEF Finalized
  <2>3. {"Watch", "Reconcile"} \cap c.methods # {}
    BY <1>2, <2>1, <2>2
  <2>4. \E x \in Bindings(build[n]) : x.kind = b.kind /\ x.isWatch
    BY <2>1, <2>3, BuildBindings DEF Bindings
  <2>5. ~ \E x \in Bindings(build[n]) : x.kind = b.kind /\ x.isFinalize
    BY <1>2, <2>2, BindingOfChain DEF Bindings, Mode
  <2> QED BY <2>4, <2>5 DEF createRBACMap
<1>3. ASSUME NEW k \in Finalized(n) PROVE "patch" \in createRBACMap(build[n], k)
  <2>1. PICK c \in build[n].chains : "Finalize" \in c.methods /\ c.binding.kind = k
    BY DEF Finalized
  <2>2. \E x \in Bindings(build[n]) : x.kind = k /\ x.isFinalize
    BY <2>1, BuildBindings DEF Bindings
  <2> QED BY <2>2 DEF createRBACMap
<1> QED BY <1>1, <1>2, <1>3 DEF clusterRole

\* While the role is of the build a watcher's process runs, it may watch every kind it
\* does, but for the finalized ones, and patch the finalizers of those.
THEOREM WatchersArePermitted == Spec => []Permitted
<1>1. TypeOK /\ Ordered => Permitted
  <2> SUFFICES ASSUME TypeOK, Ordered, NEW s \in Slot, s[1] = "watcher",
                      pod[s].stage \in Started, pod[s].code = held["rbac"]
               PROVE  /\ \A k \in Watched(s) \ Finalized(pod[s].code) : May({"watch"}, k)
                      /\ \A k \in Finalized(pod[s].code) : May({"patch"}, k)
    BY DEF Permitted
  <2>1. PICK n : n = pod[s].code
    OBVIOUS
  <2>2. n = pod[s].of /\ n = held["rbac"] /\ n # 0
    BY <2>1 DEF Ordered, TypeOK
  <2>3. n \in 1..Last /\ build \in Seq(Module)
    <3>1. pod[s] \in Pods(Last) /\ build \in Seq(Module)
      BY DEF TypeOK, Pods
    <3> QED BY <2>1, <2>2, <3>1 DEF Pods
  <2>4. \A c \in build[n].chains : WellTyped(c)
    <3>1. build[n] \in Module
      BY <2>3 DEF Last
    <3> QED BY <3>1, DeploymentAssumption
  <2>5. Watched(s) = {b.kind : b \in {x \in bindings(build[n].chains, "watch") : x.isWatch}}
    BY <2>2 DEF Watched
  <2> QED BY <2>1, <2>2, <2>4, <2>5, RoleAllows DEF May
<1> QED BY <1>1, TypeCorrect, OrderStays, PTL
=============================================================================

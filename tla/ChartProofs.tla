---------------------------- MODULE ChartProofs ----------------------------
(***************************************************************************)
(* Proofs about Chart, for any projects, options, values and bounds. From  *)
(* the order of a build's steps: no file names an image that has not been  *)
(* pushed, and a build that ends well has written all its files, whatever  *)
(* was there before. From what its files then are: the chart makes what    *)
(* the manifest makes, values reach what they are for, and what is         *)
(* installed fits together.                                                *)
(***************************************************************************)
EXTENDS Chart, TLAPS

\* There is a sequence of builds, whatever they are made of.
IsBuilds == \E S : builds \in Seq(S)

\* The files that name the image.
Naming == {"yaml", "zarf", "values"}

\* Once past its step, the image of the build under way is the one that was pushed.
ImageFirst ==
  maker.status = "building" /\ maker.step > 2 /\ handleCustomImageBuild(Last) => pushed = Last

IInv == IsBuilds /\ TypeOK /\ ImagesThere /\ ImageFirst

\* There are thirteen steps, and those that name the image come after the one that
\* pushes it.
LEMMA StepsFacts ==
  /\ Len(Steps) = 13
  /\ \A i \in 1..13 : i <= 2 => \A f \in Naming : f \notin FilesOf(Steps[i])
  /\ \A i \in 1..13 : Steps[i] = "image" <=> i = 2
  /\ \A i \in 1..13 : FilesOf(Steps[i]) \subseteq File
  /\ Naming \subseteq File
<1>1. Len(Steps) = 13 /\ DOMAIN Steps = 1..13
  BY DEF Steps
<1>2. Steps[1] = "code" /\ Steps[2] = "image"
  BY DEF Steps
<1>3. \A i \in 1..13 : Steps[i] = "image" <=> i = 2
  BY DEF Steps
<1>4. FilesOf("code") = {"code"} /\ FilesOf("image") = {}
  BY DEF FilesOf
<1>5. ASSUME NEW i \in 1..13 PROVE FilesOf(Steps[i]) \subseteq File
  <2>1. Steps[i] \in {Steps[j] : j \in DOMAIN Steps}
    BY <1>1
  <2> QED BY <2>1 DEF FilesOf, File
<1>6. Steps[3] = "yaml" /\ Steps[4] = "zarf" /\ Steps[7] = "values"
  BY DEF Steps
<1>7. Naming \subseteq File
  BY <1>1, <1>6 DEF Naming, File, Pairs
<1>8. \A i \in 1..13 : i <= 2 => \A f \in Naming : f \notin FilesOf(Steps[i])
  BY <1>2, <1>4 DEF Naming
<1> QED BY <1>1, <1>3, <1>5, <1>7, <1>8

\* There are as many builds as there have been.
LEMMA LastFacts == ASSUME IsBuilds PROVE Last \in Nat
BY DEF IsBuilds, Last

\* A step that leaves the builds alone and writes of the last one only what it may keeps
\* the invariant.
LEMMA Written ==
  ASSUME IInv, maker.status = "building", NEW files \in SUBSET File,
         dir' = [f \in File |-> IF f \in files THEN Last ELSE dir[f]],
         UNCHANGED <<builds, pushed>>,
         maker.step <= 2 => files \cap Naming = {}
  PROVE  dir' \in [File -> 0..Last'] /\ ImagesThere' /\ Last' = Last
<1>1. Last \in Nat /\ Last' = Last /\ dir \in [File -> 0..Last] /\ pushed \in 0..Last
  BY LastFacts DEF IInv, TypeOK, Last
<1>2. dir' \in [File -> 0..Last']
  BY <1>1
<1>3. ASSUME NEW f \in Naming, dir'[f] # 0, handleCustomImageBuild(dir'[f])
      PROVE  pushed >= dir'[f]
  <2>1. f \in File
    BY StepsFacts
  <2>2. CASE f \in files
    BY <1>1, <1>3, <2>1, <2>2 DEF IInv, ImageFirst, TypeOK
  <2>3. CASE f \notin files
    BY <1>1, <1>3, <2>1, <2>3 DEF IInv, ImagesThere, Naming
  <2> QED BY <2>2, <2>3
<1>4. ImagesThere'
  BY <1>3 DEF ImagesThere, Naming, handleCustomImageBuild, Config
<1> QED BY <1>1, <1>2, <1>4

\* The start.
LEMMA InitIInv == Init => IInv
<1> SUFFICES ASSUME Init PROVE IInv
  OBVIOUS
<1>1. builds \in Seq({}) /\ Last = 0
  BY DEF Init, Last
<1>2. TypeOK
  BY <1>1, ChartAssumption, StepsFacts DEF Init, TypeOK
<1>3. ImagesThere
  BY StepsFacts DEF Init, ImagesThere, Naming
<1> QED BY <1>1, <1>2, <1>3 DEF IInv, IsBuilds, ImageFirst, Init

\* A new build changes nothing of what there is of the builds before it.
LEMMA BuildIInv ==
  ASSUME IInv, NEW m \in Project, NEW opts \in Options, NEW digits \in Digits,
         Build(m, opts, digits)
  PROVE  IInv'
<1>1. PICK S : builds \in Seq(S)
  BY DEF IInv, IsBuilds
<1>2. PICK made : made = Made(m, opts, digits)
  OBVIOUS
<1>3. builds' = Append(builds, made) /\ builds \in Seq(S \cup {made}) /\ Last \in Nat
  BY <1>1, <1>2, LastFacts DEF IInv, Build
<1>4. IsBuilds' /\ Last' = Last + 1 /\ \A n \in 1..Last : builds'[n] = builds[n]
  BY <1>3 DEF IsBuilds, Last
<1>5. /\ UNCHANGED <<dir, pushed, release, installed, failures>> /\ Last < MaxBuilds
      /\ maker' = [status |-> "building", step |-> 1]
  BY DEF Build
<1>6. TypeOK'
  <2>1. dir' \in [File -> 0..Last'] /\ pushed' \in 0..Last' /\ release' \subseteq Object
    BY <1>3, <1>4, <1>5 DEF IInv, TypeOK
  <2>2. installed' \in [build : 0..Last', objects : SUBSET Object]
    BY <1>3, <1>4, <1>5 DEF IInv, TypeOK
  <2>3. Last' <= MaxBuilds /\ failures' \in 0..MaxFailures /\ Last' # 0
    BY <1>3, <1>4, <1>5, ChartAssumption DEF IInv, TypeOK
  <2>4. maker'.status = "building" /\ maker'.step # 0
        /\ maker' \in [status : {"none", "building", "refused", "failed", "done"}, step : 0..Len(Steps)]
    BY <1>5, StepsFacts
  <2> QED BY <2>1, <2>2, <2>3, <2>4 DEF TypeOK
<1>7. ImagesThere'
  <2>1. ASSUME NEW f \in Naming, dir'[f] # 0, handleCustomImageBuild(dir[f])'
        PROVE  pushed' >= dir'[f]
    <3>1. f \in File /\ dir[f] \in 1..Last /\ dir'[f] = dir[f]
      BY <1>3, <1>5, <2>1, StepsFacts DEF IInv, TypeOK
    <3>2. builds'[dir[f]] = builds[dir[f]]
      BY <1>4, <3>1
    <3>3. handleCustomImageBuild(dir[f])
      BY <2>1, <3>1, <3>2 DEF handleCustomImageBuild, Config
    <3> QED BY <1>5, <3>1, <3>3 DEF IInv, ImagesThere, Naming
  <2> QED BY <2>1 DEF ImagesThere, Naming, handleCustomImageBuild, Config
<1>8. ImageFirst'
  BY <1>5 DEF ImageFirst
<1> QED BY <1>4, <1>6, <1>7, <1>8 DEF IInv

\* The type checker stops the build before it has written anything.
LEMMA RefusedIInv == ASSUME IInv, Refused PROVE IInv'
<1>1. /\ UNCHANGED <<builds, dir, pushed, release, installed, failures>>
      /\ maker' = [status |-> "refused", step |-> 1] /\ Last' = Last
  BY DEF Refused, Last
<1>2. TypeOK'
  BY <1>1, StepsFacts DEF IInv, TypeOK
<1>3. IsBuilds' /\ ImagesThere' /\ ImageFirst'
  BY <1>1 DEF IInv, IsBuilds, ImagesThere, ImageFirst, handleCustomImageBuild, Config
<1> QED BY <1>2, <1>3 DEF IInv

\* A step of the build: before the image is pushed none of the files that name it are
\* written, and after that it is there.
LEMMA StepIInv == ASSUME IInv, Step PROVE IInv'
<1>1. PICK i \in 1..13 : i = maker.step
  BY StepsFacts DEF IInv, TypeOK, Step
<1>2. PICK files : files = {f \in FilesOf(Steps[i]) : Writes(Last, f)}
  OBVIOUS
<1>3. /\ files \in SUBSET File
      /\ i <= 2 => files \cap Naming = {}
  BY <1>2, StepsFacts
<1>4. /\ maker.status = "building" /\ UNCHANGED <<builds, release, installed, failures>>
      /\ dir' = [f \in File |-> IF f \in files THEN Last ELSE dir[f]]
      /\ pushed' = IF Steps[i] = "image" /\ handleCustomImageBuild(Last) THEN Last ELSE pushed
      /\ maker' = IF i < 13 THEN [maker EXCEPT !.step = @ + 1] ELSE [maker EXCEPT !.status = "done"]
  BY <1>1, <1>2, StepsFacts DEF Step
<1>5. /\ Last \in Nat /\ Last' = Last /\ Last # 0 /\ pushed \in 0..Last /\ dir \in [File -> 0..Last]
      /\ maker \in [status : {"none", "building", "refused", "failed", "done"}, step : 0..13]
  BY <1>4, LastFacts, StepsFacts DEF IInv, TypeOK, Last
<1>6. /\ maker' \in [status : {"none", "building", "refused", "failed", "done"}, step : 0..13]
      /\ i < 13 => maker'.status = "building" /\ maker'.step = i + 1
      /\ i = 13 => maker'.status = "done"
  BY <1>1, <1>4, <1>5
<1>7. pushed' \in 0..Last /\ pushed' >= pushed
  BY <1>4, <1>5
<1>8. TypeOK'
  <2>1. dir' \in [File -> 0..Last'] /\ pushed' \in 0..Last' /\ release' \subseteq Object
    BY <1>4, <1>5, <1>7 DEF IInv, TypeOK
  <2>2. installed' \in [build : 0..Last', objects : SUBSET Object] /\ Last' <= MaxBuilds
        /\ failures' \in 0..MaxFailures
    BY <1>4, <1>5 DEF IInv, TypeOK
  <2> QED BY <1>1, <1>5, <1>6, <2>1, <2>2, StepsFacts DEF TypeOK
<1>9. ImageFirst'
  <2> SUFFICES ASSUME maker'.status = "building", maker'.step > 2, handleCustomImageBuild(Last)'
               PROVE  pushed' = Last'
    BY DEF ImageFirst
  <2>1. i < 13 /\ i >= 2 /\ handleCustomImageBuild(Last)
    BY <1>1, <1>4, <1>5, <1>6 DEF handleCustomImageBuild, Config
  <2>2. CASE i = 2
    BY <1>4, <1>5, <2>1, <2>2, StepsFacts
  <2>3. CASE i > 2
    BY <1>1, <1>4, <1>5, <2>1, <2>3 DEF IInv, ImageFirst
  <2> QED BY <1>1, <2>1, <2>2, <2>3
<1>10. ImagesThere'
  <2>1. ASSUME NEW f \in Naming, dir'[f] # 0, handleCustomImageBuild(dir[f])'
        PROVE  pushed' >= dir'[f]
    <3>1. f \in File /\ handleCustomImageBuild(dir'[f])
      BY <1>4, <2>1, StepsFacts DEF handleCustomImageBuild, Config
    <3>2. CASE f \in files
      <4>1. i > 2 /\ dir'[f] = Last
        BY <1>1, <1>3, <1>4, <2>1, <3>1, <3>2
      <4>2. pushed = Last
        BY <1>1, <1>4, <3>1, <4>1 DEF IInv, ImageFirst
      <4> QED BY <1>5, <1>7, <4>1, <4>2
    <3>3. CASE f \notin files
      <4>1. dir'[f] = dir[f] /\ dir[f] \in 0..Last
        BY <1>4, <1>5, <3>1, <3>3
      <4>2. pushed >= dir[f]
        BY <2>1, <3>1, <4>1 DEF IInv, ImagesThere, Naming
      <4> QED BY <1>5, <1>7, <4>1, <4>2
    <3> QED BY <3>2, <3>3
  <2> QED BY <2>1 DEF ImagesThere, Naming
<1>11. IsBuilds'
  BY <1>4 DEF IInv, IsBuilds
<1> QED BY <1>8, <1>9, <1>10, <1>11 DEF IInv

\* A step that fails may have written what it would.
LEMMA StepFailsIInv == ASSUME IInv, StepFails PROVE IInv'
<1>1. PICK i \in 1..13 : i = maker.step
  BY StepsFacts DEF IInv, TypeOK, StepFails
<1>2. PICK files \in SUBSET FilesOf(Steps[i]) :
        dir' = [f \in File |-> IF f \in files THEN Last ELSE dir[f]]
  BY <1>1 DEF StepFails
<1>3. /\ files \in SUBSET File
      /\ i <= 2 => files \cap Naming = {}
  BY <1>2, StepsFacts
<1>4. /\ maker.status = "building" /\ UNCHANGED <<builds, pushed, release, installed>>
      /\ failures < MaxFailures /\ failures' = failures + 1 /\ maker' = [maker EXCEPT !.status = "failed"]
  BY DEF StepFails
<1>5. dir' \in [File -> 0..Last'] /\ ImagesThere' /\ Last' = Last
  BY <1>1, <1>2, <1>3, <1>4, Written
<1>6. maker' \in [status : {"none", "building", "refused", "failed", "done"}, step : 0..Len(Steps)]
      /\ maker'.status = "failed"
  BY <1>4 DEF IInv, TypeOK
<1>7. TypeOK'
  BY <1>4, <1>5, <1>6, ChartAssumption DEF IInv, TypeOK
<1> QED BY <1>4, <1>5, <1>6, <1>7 DEF IInv, IsBuilds, ImageFirst

\* What is done with the directory changes no file, but for emptying it.
LEMMA OthersIInv ==
  ASSUME IInv, Clean \/ KubectlApply \/ \E override \in Override : HelmUpgrade(override)
  PROVE  IInv'
<1>1. UNCHANGED <<builds, pushed, failures>> /\ Last' = Last /\ Last \in Nat
      /\ dir \in [File -> 0..Last] /\ maker.status # "building"
  BY LastFacts DEF Clean, KubectlApply, HelmUpgrade, Idle, Last, IInv, TypeOK
<1>2. /\ dir' = dir \/ dir' = [f \in File |-> 0]
      /\ maker' = maker \/ maker' = [status |-> "none", step |-> 0]
  BY DEF Clean, KubectlApply, HelmUpgrade
<1>3. /\ maker'.status # "building" /\ (maker'.status = "done" => Last # 0)
      /\ maker' \in [status : {"none", "building", "refused", "failed", "done"}, step : 0..Len(Steps)]
  BY <1>1, <1>2, StepsFacts DEF IInv, TypeOK
<1>4. release' \subseteq Object /\ installed' \in [build : 0..Last, objects : SUBSET Object]
  <2>1. CASE Clean
    BY <2>1 DEF Clean, IInv, TypeOK
  <2>2. CASE KubectlApply
    <3>1. dir["yaml"] \in 0..Last
      BY <1>1, StepsFacts DEF Naming
    <3>2. PICK objects : objects = Present(generateAllYaml(dir["yaml"]))
      OBVIOUS
    <3>3. objects \subseteq Object
      BY <3>2 DEF Present
    <3>4. release' = release /\ installed' = [build |-> dir["yaml"], objects |-> objects]
      BY <2>2, <3>2 DEF KubectlApply
    <3> QED BY <3>1, <3>3, <3>4 DEF IInv, TypeOK
  <2>3. ASSUME NEW override \in Override, HelmUpgrade(override)
        PROVE  release' \subseteq Object /\ installed' \in [build : 0..Last, objects : SUBSET Object]
    <3>1. PICK objects : objects = Present(Rendered(override))
      OBVIOUS
    <3>2. objects \subseteq Object
      BY <3>1 DEF Present
    <3>3. release' = objects
          /\ installed' = [build |-> IF maker.status = "done" THEN Last ELSE 0, objects |-> objects]
      BY <2>3, <3>1 DEF HelmUpgrade
    <3> QED BY <1>1, <3>2, <3>3
  <2> QED BY <2>1, <2>2, <2>3
<1>5. dir' \in [File -> 0..Last]
  BY <1>1, <1>2
<1>6. ImagesThere'
  <2>1. CASE dir' = dir
    BY <1>1, <2>1 DEF IInv, ImagesThere, handleCustomImageBuild, Config
  <2>2. CASE dir' = [f \in File |-> 0]
    BY <2>2, StepsFacts DEF ImagesThere, Naming
  <2> QED BY <1>2, <2>1, <2>2
<1>7. TypeOK'
  BY <1>1, <1>3, <1>4, <1>5 DEF IInv, TypeOK
<1> QED BY <1>1, <1>3, <1>6, <1>7 DEF IInv, IsBuilds, ImageFirst

\* The invariant of all steps.
THEOREM Invariance == Spec => []IInv
<1>1. IInv /\ [Next]_vars => IInv'
  <2> SUFFICES ASSUME IInv, [Next]_vars PROVE IInv'
    OBVIOUS
  <2>1. ASSUME NEW m \in Project, NEW opts \in Options, NEW digits \in Digits, Build(m, opts, digits)
        PROVE  IInv'
    BY <2>1, BuildIInv
  <2>2. CASE Refused
    BY <2>2, RefusedIInv
  <2>3. CASE Step
    BY <2>3, StepIInv
  <2>4. CASE StepFails
    BY <2>4, StepFailsIInv
  <2>5. CASE Clean \/ KubectlApply \/ \E override \in Override : HelmUpgrade(override)
    BY <2>5, OthersIInv
  <2>6. CASE UNCHANGED vars
    BY <2>6 DEF vars, IInv, IsBuilds, TypeOK, Last, ImagesThere, ImageFirst, handleCustomImageBuild, Config
  <2> QED BY <2>1, <2>2, <2>3, <2>4, <2>5, <2>6 DEF Next
<1> QED BY <1>1, InitIInv, PTL DEF Spec

\* Files and images are of builds there have been, and so is what is installed.
THEOREM TypeCorrect == Spec => []TypeOK
<1>1. IInv => TypeOK
  BY DEF IInv
<1> QED BY <1>1, Invariance, PTL

\* Wherever builds fail, no manifest, chart or package names an image of a build with
\* files to include that has not been pushed with them.
THEOREM ImagesAreThere == Spec => []ImagesThere
<1>1. IInv => ImagesThere
  BY DEF IInv
<1> QED BY <1>1, Invariance, PTL

(***************************************************************************)
(* What a build leaves in the directory.                                   *)
(***************************************************************************)

\* The files of the steps the build under way has done, and all files of one that has
\* ended well, are its own.
Whole ==
  /\ maker.status = "building" =>
       \A i \in 1..(maker.step - 1) : \A f \in FilesOf(Steps[i]) : Writes(Last, f) => dir[f] = Last
  /\ maker.status = "done" => \A f \in File : Writes(Last, f) => dir[f] = Last

\* A file is there because the build it is of writes such a file.
OnlyWritten == \A f \in File : dir[f] # 0 => Writes(dir[f], f)

\* Each file has its step, and a step that writes more than one file writes the pairs.
LEMMA FilesFacts ==
  /\ \A f \in File : \E i \in 1..13 : f \in FilesOf(Steps[i])
  /\ \A i \in 1..13 : \A written \in SUBSET FilesOf(Steps[i]) :
       written = FilesOf(Steps[i]) \/ written = {} \/ written \subseteq Pairs
  /\ Pairs \subseteq File
<1>1. DOMAIN Steps = 1..13 /\ Steps[5] = "pairs"
  BY DEF Steps
<1>2. FilesOf("pairs") = Pairs
  BY DEF FilesOf
<1>3. Pairs \subseteq File
  BY DEF File
<1>4. ASSUME NEW f \in File PROVE \E i \in 1..13 : f \in FilesOf(Steps[i])
  <2>1. CASE f \in Pairs
    BY <1>1, <1>2, <2>1
  <2>2. CASE f \notin Pairs
    <3>1. f \in {Steps[j] : j \in DOMAIN Steps} /\ f \notin {"image", "pairs"}
      BY <2>2 DEF File
    <3>2. PICK i \in 1..13 : f = Steps[i]
      BY <1>1, <3>1
    <3>3. FilesOf(Steps[i]) = {f}
      BY <3>1, <3>2 DEF FilesOf
    <3> QED BY <3>3
  <2> QED BY <2>1, <2>2
<1>5. ASSUME NEW i \in 1..13, NEW written \in SUBSET FilesOf(Steps[i])
      PROVE  written = FilesOf(Steps[i]) \/ written = {} \/ written \subseteq Pairs
  <2>1. FilesOf(Steps[i]) \in {{}, Pairs, {Steps[i]}}
    BY DEF FilesOf
  <2> QED BY <2>1
<1> QED BY <1>3, <1>4, <1>5

\* What is written depends on nothing but the build, and pairs always are.
LEMMA WritesFacts ==
  ASSUME NEW n, NEW f
  PROVE  /\ f \in Pairs => Writes(n, f)
         /\ builds'[n] = builds[n] => (Writes(n, f)' <=> Writes(n, f)) /\ Config(n)' = Config(n)
<1>1. f \in Pairs => Writes(n, f)
  BY DEF Pairs, Writes, WebhookType
<1>2. ASSUME builds'[n] = builds[n] PROVE (Writes(n, f)' <=> Writes(n, f)) /\ Config(n)' = Config(n)
  <2>1. Config(n)' = Config(n)
    BY <1>2 DEF Config
  <2> QED BY <2>1 DEF Writes
<1> QED BY <1>1, <1>2

\* The start.
LEMMA InitWhole == Init => Whole /\ OnlyWritten
BY DEF Init, Whole, OnlyWritten

\* A new build has done no step.
LEMMA BuildWhole ==
  ASSUME IInv, OnlyWritten,
         NEW m \in Project, NEW opts \in Options, NEW digits \in Digits, Build(m, opts, digits)
  PROVE  /\ Whole' /\ OnlyWritten'
         /\ UNCHANGED <<dir, cluster, installed>> /\ \A n \in 1..Last : builds'[n] = builds[n]
<1>1. PICK S : builds \in Seq(S)
  BY DEF IInv, IsBuilds
<1>2. PICK made : made = Made(m, opts, digits)
  OBVIOUS
<1>3. builds' = Append(builds, made) /\ builds \in Seq(S \cup {made}) /\ Last \in Nat
  BY <1>1, <1>2, LastFacts DEF IInv, Build
<1>4. \A n \in 1..Last : builds'[n] = builds[n]
  BY <1>3 DEF Last
<1>5. UNCHANGED <<dir, cluster, installed>> /\ maker' = [status |-> "building", step |-> 1]
  BY DEF Build
<1>6. Whole'
  BY <1>5 DEF Whole
<1>7. ASSUME NEW f \in File, dir'[f] # 0 PROVE Writes(dir[f], f)'
  <2>1. dir[f] \in 1..Last /\ dir'[f] = dir[f] /\ Writes(dir[f], f)
    BY <1>3, <1>5, <1>7 DEF IInv, TypeOK, OnlyWritten
  <2>2. builds'[dir[f]] = builds[dir[f]]
    BY <1>4, <2>1
  <2>3. PICK n : n = dir[f]
    OBVIOUS
  <2>4. Writes(n, f)' <=> Writes(n, f)
    BY <2>2, <2>3, WritesFacts
  <2> QED BY <1>5, <2>1, <2>3, <2>4
<1> QED BY <1>4, <1>5, <1>6, <1>7 DEF OnlyWritten

\* The files of a step are its own when it is done.
LEMMA StepWhole == ASSUME IInv, Whole, OnlyWritten, Step PROVE Whole' /\ OnlyWritten'
<1>1. PICK i \in 1..13 : i = maker.step
  BY StepsFacts DEF IInv, TypeOK, Step
<1>2. /\ maker.status = "building" /\ UNCHANGED builds
      /\ dir' = [f \in File |-> IF f \in FilesOf(Steps[i]) /\ Writes(Last, f) THEN Last ELSE dir[f]]
      /\ maker' = IF i < 13 THEN [maker EXCEPT !.step = @ + 1] ELSE [maker EXCEPT !.status = "done"]
  BY <1>1, StepsFacts DEF Step
<1>3. /\ i < 13 => maker'.status = "building" /\ maker'.step = i + 1
      /\ i = 13 => maker'.status = "done"
  BY <1>1, <1>2, StepsFacts DEF IInv, TypeOK
<1>4. Last' = Last /\ \A f : Writes(Last, f)' <=> Writes(Last, f)
  BY <1>2 DEF Last, Writes, Config
<1>5. ASSUME NEW j \in 1..i, NEW f \in FilesOf(Steps[j]), Writes(Last, f) PROVE dir'[f] = Last
  <2>1. f \in File
    BY StepsFacts
  <2>2. CASE j = i
    BY <1>2, <1>5, <2>1, <2>2
  <2>3. CASE j # i
    <3>1. dir[f] = Last
      BY <1>1, <1>2, <1>5, <2>3 DEF Whole
    <3> QED BY <1>2, <2>1, <3>1
  <2> QED BY <2>2, <2>3
<1>6. Whole'
  <2>1. CASE i < 13
    <3>1. \A j \in 1..(maker'.step - 1) : \A f \in FilesOf(Steps[j]) : Writes(Last, f)' => dir'[f] = Last'
      BY <1>1, <1>3, <1>4, <1>5, <2>1
    <3> QED BY <1>3, <2>1, <3>1 DEF Whole
  <2>2. CASE i = 13
    <3>1. \A f \in File : Writes(Last, f)' => dir'[f] = Last'
      BY <1>4, <1>5, <2>2, FilesFacts
    <3> QED BY <1>3, <2>2, <3>1 DEF Whole
  <2> QED BY <2>1, <2>2
<1>7. ASSUME NEW f \in File, dir'[f] # 0 PROVE Writes(dir'[f], f)
  BY <1>2, <1>7 DEF OnlyWritten
<1>8. OnlyWritten'
  BY <1>2, <1>7 DEF OnlyWritten, Writes, Config
<1> QED BY <1>6, <1>8

\* A step that fails writes some of its files, all of which are of builds that write
\* such files, and ends the build.
LEMMA StepFailsWhole == ASSUME IInv, OnlyWritten, StepFails PROVE Whole' /\ OnlyWritten'
<1>1. PICK i \in 1..13 : i = maker.step
  BY StepsFacts DEF IInv, TypeOK, StepFails
<1>2. PICK written \in SUBSET FilesOf(Steps[i]) :
        /\ written # FilesOf(Steps[i]) \/ FilesOf(Steps[i]) = {}
        /\ dir' = [f \in File |-> IF f \in written THEN Last ELSE dir[f]]
  BY <1>1 DEF StepFails
<1>3. written \subseteq Pairs
  BY <1>2, FilesFacts
<1>4. UNCHANGED builds /\ maker'.status = "failed"
  BY DEF StepFails, IInv, TypeOK
<1>5. ASSUME NEW f \in File, dir'[f] # 0 PROVE Writes(dir'[f], f)
  <2>1. CASE f \in written
    BY <1>2, <1>3, <2>1, WritesFacts
  <2>2. CASE f \notin written
    BY <1>2, <1>5, <2>2 DEF OnlyWritten
  <2> QED BY <2>1, <2>2
<1>6. OnlyWritten'
  BY <1>4, <1>5 DEF OnlyWritten, Writes, Config
<1> QED BY <1>4, <1>6 DEF Whole

\* Nothing else changes a file, but for emptying the directory.
LEMMA OthersWhole ==
  ASSUME IInv, Whole, OnlyWritten,
         Refused \/ Clean \/ KubectlApply \/ \E override \in Override : HelmUpgrade(override)
  PROVE  Whole' /\ OnlyWritten'
<1>1. UNCHANGED builds
  BY DEF Refused, Clean, KubectlApply, HelmUpgrade
<1>2. CASE Refused \/ Clean
  <2>1. maker'.status \notin {"building", "done"} /\ (dir' = dir \/ dir' = [f \in File |-> 0])
    BY <1>2 DEF Refused, Clean
  <2>2. Whole'
    BY <2>1 DEF Whole
  <2>3. OnlyWritten'
    BY <1>1, <2>1 DEF OnlyWritten, Writes, Config
  <2> QED BY <2>2, <2>3
<1>3. CASE UNCHANGED <<dir, maker>>
  BY <1>1, <1>3 DEF Whole, OnlyWritten, Writes, Config, Last
<1>4. KubectlApply \/ (\E override \in Override : HelmUpgrade(override)) => UNCHANGED <<dir, maker>>
  BY DEF KubectlApply, HelmUpgrade
<1> QED BY <1>2, <1>3, <1>4

\* Whatever fails and whatever was there, the directory after a build that has ended
\* well holds all the files that build writes.
THEOREM WholeBuilds == Spec => [](Whole /\ OnlyWritten)
<1>1. IInv /\ (Whole /\ OnlyWritten) /\ [Next]_vars => (Whole /\ OnlyWritten)'
  <2> SUFFICES ASSUME IInv, Whole, OnlyWritten, [Next]_vars PROVE (Whole /\ OnlyWritten)'
    OBVIOUS
  <2>1. ASSUME NEW m \in Project, NEW opts \in Options, NEW digits \in Digits, Build(m, opts, digits)
        PROVE  (Whole /\ OnlyWritten)'
    BY <2>1, BuildWhole
  <2>2. CASE Step
    BY <2>2, StepWhole
  <2>3. CASE StepFails
    BY <2>3, StepFailsWhole
  <2>4. CASE Refused \/ Clean \/ KubectlApply \/ \E override \in Override : HelmUpgrade(override)
    BY <2>4, OthersWhole
  <2>5. CASE UNCHANGED vars
    BY <2>5 DEF vars, Whole, OnlyWritten, Writes, Config, Last
  <2> QED BY <2>1, <2>2, <2>3, <2>4, <2>5 DEF Next
<1> QED BY <1>1, InitWhole, Invariance, PTL DEF Spec

(***************************************************************************)
(* What is installed.                                                      *)
(***************************************************************************)

\* What is asked of those who give values: the hash of the module is the build's.
KeepsHash == \A override \in Override : "hash" \notin DOMAIN override

\* Objects that belong together and to build n.
Fits(objects, n) ==
  /\ objects["tls"].data = n /\ objects["path"].data = n
  /\ objects["module"].data = Config(n).code
  /\ {"tls", "path", "module"} \subseteq Present(objects)
  /\ \A type \in WebhookType : HasWebhook(Config(n), type) =>
       /\ objects[type] # Absent
       /\ "tls" \in Garbled(n, objects[type]) \/ objects[type].tls = n
       /\ "path" \in Garbled(n, objects[type]) \/ objects[type].path = n
       /\ objects["admission"] # Absent => objects["admission"].stamp = n
  /\ \A d \in {"admission", "watcher"} : objects[d] # Absent => objects[d].hash = Config(n).code

\* A build that has ended well is in all files a chart cannot be without, and in those
\* of its webhooks and Deployments.
LEMMA DoneFacts ==
  ASSUME IInv, Whole, maker.status = "done"
  PROVE  /\ Last \in Nat /\ Last # 0
         /\ \A f \in ChartFiles \cup {"yaml", "zarf"} : dir[f] = Last
         /\ \A type \in WebhookType :
              HasWebhook(Config(Last), type) => dir[type] = Last /\ dir["admission"] = Last
         /\ isWatcher(Config(Last)) => dir["watcher"] = Last
<1>1. Last \in Nat /\ Last # 0
  BY LastFacts DEF IInv, TypeOK
<1>2. \A f \in File : Writes(Last, f) => dir[f] = Last
  BY DEF Whole
<1>3. {Steps[i] : i \in 1..13} \ {"image", "pairs"} \subseteq File
  BY DEF File, Steps
<1>4. /\ Steps[3] = "yaml" /\ Steps[4] = "zarf" /\ Steps[6] = "schema" /\ Steps[7] = "values"
      /\ Steps[8] = "admission" /\ Steps[10] = "mutate" /\ Steps[11] = "validate" /\ Steps[12] = "watcher"
  BY DEF Steps
<1>5. {"yaml", "zarf", "schema", "values", "admission", "mutate", "validate", "watcher"} \subseteq File
  BY <1>3, <1>4
<1>6. ASSUME NEW f \in ChartFiles \cup {"yaml", "zarf"} PROVE dir[f] = Last
  <2>1. f \in File
    BY <1>5, FilesFacts DEF ChartFiles
  <2>2. Writes(Last, f)
    BY DEF ChartFiles, Pairs, Writes, WebhookType
  <2> QED BY <1>2, <2>1, <2>2
<1>7. ASSUME NEW type \in WebhookType, HasWebhook(Config(Last), type)
      PROVE  dir[type] = Last /\ dir["admission"] = Last
  <2>1. Writes(Last, type) /\ Writes(Last, "admission")
    BY <1>7 DEF Writes, WebhookType
  <2> QED BY <1>2, <1>5, <2>1 DEF WebhookType
<1>8. ASSUME isWatcher(Config(Last)) PROVE dir["watcher"] = Last
  <2>1. Writes(Last, "watcher")
    BY <1>8 DEF Writes, WebhookType
  <2> QED BY <1>2, <1>5, <2>1
<1> QED BY <1>1, <1>6, <1>7, <1>8

\* A webhook as it is generated.
LEMMA Generated ==
  ASSUME NEW n, NEW type, HasWebhook(Config(n), type), NEW b, b = webhookConfigGenerator(n, type)
  PROVE  /\ b.kind = type /\ b.tls = n /\ b.path = n
         /\ b.rules = {<<x.kind, x.event>> : x \in {y \in Bindings(Config(n)) : IsOfType(y, type)}}
         /\ b.timeoutSeconds = IF Config(n).webhookTimeout = 0 THEN 10 ELSE Config(n).webhookTimeout
         /\ b.failurePolicy = PolicyOf(Config(n))
         /\ b.ignored = {"kube-system", "pepr-system"} \cup getIgnoreNamespaces(Config(n))
                          \cup DOMAIN Config(n).additional
         /\ b.additional = Config(n).additional
<1>1. PICK rule, timeout, policy, ignored, additional :
        /\ rule = {<<x.kind, x.event>> : x \in {y \in Bindings(Config(n)) : IsOfType(y, type)}}
        /\ timeout = IF Config(n).webhookTimeout = 0 THEN 10 ELSE Config(n).webhookTimeout
        /\ policy = PolicyOf(Config(n))
        /\ ignored = {"kube-system", "pepr-system"} \cup getIgnoreNamespaces(Config(n))
                       \cup DOMAIN Config(n).additional
        /\ additional = Config(n).additional
  OBVIOUS
<1>2. b = [kind |-> type, tls |-> n, path |-> n, rules |-> rule, timeoutSeconds |-> timeout,
           failurePolicy |-> policy, ignored |-> ignored, additional |-> additional]
  BY <1>1, Zenon DEF webhookConfigGenerator
<1>3. /\ b.kind = type /\ b.tls = n /\ b.path = n /\ b.rules = rule /\ b.timeoutSeconds = timeout
      /\ b.failurePolicy = policy /\ b.ignored = ignored /\ b.additional = additional
  BY <1>2
<1> QED BY <1>1, <1>3, Zenon

\* A webhook as it is with values v.
LEMMA Filled ==
  ASSUME NEW n, NEW type, HasWebhook(Config(n), type), NEW v
  PROVE  LET b == webhookConfigGenerator(n, type)
             w == createWebhookYaml(n, type, v)
         IN
         /\ w.kind = type
         /\ w.tls = IF "tls" \in Garbled(n, w) THEN 0 ELSE n
         /\ w.path = IF "path" \in Garbled(n, w) THEN 0 ELSE n
         /\ w.rules = IF "rules" \in Garbled(n, w) THEN {} ELSE b.rules
         /\ w.timeoutSeconds = IF Config(n).webhookTimeout = 0 THEN b.timeoutSeconds
                               ELSE v.webhookTimeout
         /\ w.failurePolicy = v.failurePolicy
         /\ w.ignored = b.ignored \cup v.additionalIgnoredNamespaces
         /\ DOMAIN w.additional = DOMAIN b.additional
         /\ \A namespace \in DOMAIN b.additional :
              w.additional[namespace] =
                IF b.additional[namespace] = PolicyOf(Config(n)) THEN v.failurePolicy
                ELSE b.additional[namespace]
<1>0. PICK b, w : b = webhookConfigGenerator(n, type) /\ w = createWebhookYaml(n, type, v)
  OBVIOUS
<1>1. b.tls = n /\ b.path = n /\ b.kind = type /\ b.failurePolicy = PolicyOf(Config(n))
  BY <1>0, Generated
<1>2. PICK timeout, garbled, ignored, additional :
        /\ timeout = IF Config(n).webhookTimeout = 0 THEN b.timeoutSeconds ELSE v.webhookTimeout
        /\ garbled = IF timeout = b.timeoutSeconds THEN {} ELSE builds[n].digits
        /\ ignored = b.ignored \cup v.additionalIgnoredNamespaces
        /\ additional = [namespace \in DOMAIN b.additional |->
                           IF b.additional[namespace] = PolicyOf(Config(n)) THEN v.failurePolicy
                           ELSE b.additional[namespace]]
  OBVIOUS
<1>3. PICK tls, path, rule, policy :
        /\ tls = IF "tls" \in garbled THEN 0 ELSE b.tls
        /\ path = IF "path" \in garbled THEN 0 ELSE b.path
        /\ rule = IF "rules" \in garbled THEN {} ELSE b.rules
        /\ policy = IF b.failurePolicy = PolicyOf(Config(n)) THEN v.failurePolicy
                    ELSE b.failurePolicy
  OBVIOUS
<1>4. w = [kind |-> type, tls |-> tls, path |-> path, rules |-> rule, timeoutSeconds |-> timeout,
           failurePolicy |-> policy, ignored |-> ignored, additional |-> additional]
  BY <1>0, <1>2, <1>3, Zenon DEF createWebhookYaml
<1>5. /\ w.kind = type /\ w.tls = tls /\ w.path = path /\ w.rules = rule
      /\ w.timeoutSeconds = timeout /\ w.failurePolicy = policy /\ w.ignored = ignored
      /\ w.additional = additional
  BY <1>4
<1>6. Garbled(n, w) = garbled
  BY <1>0, <1>2, <1>5 DEF Garbled
<1>7. policy = v.failurePolicy
  BY <1>1, <1>3
<1>8. /\ DOMAIN w.additional = DOMAIN b.additional
      /\ \A namespace \in DOMAIN b.additional :
           w.additional[namespace] =
             IF b.additional[namespace] = PolicyOf(Config(n)) THEN v.failurePolicy
             ELSE b.additional[namespace]
  BY <1>2, <1>5
<1> QED BY <1>0, <1>1, <1>2, <1>3, <1>5, <1>6, <1>7, <1>8, Zenon

\* What Helm makes, after a build that has ended well, of the parts that belong together.
LEMMA ChartFits ==
  ASSUME IInv, Whole, KeepsHash, maker.status = "done",
         NEW override \in Override, NEW objects, objects = Rendered(override)
  PROVE  Fits(objects, Last)
<1>1. /\ Last \in Nat /\ Last # 0 /\ dir["values"] = Last
      /\ dir["tls"] = Last /\ dir["path"] = Last /\ dir["module"] = Last
  BY DoneFacts DEF ChartFiles, Pairs
<1>2. PICK v : v = Given(overridesFile(Last), override)
  OBVIOUS
<1>3. v.hash = Config(Last).code
  BY <1>2 DEF KeepsHash, Given, overridesFile
<1>4. /\ objects["tls"] = [kind |-> "Secret", data |-> Last]
      /\ objects["path"] = [kind |-> "Secret", data |-> Last]
      /\ objects["module"] = [kind |-> "Secret", data |-> Config(Last).code]
  <2>1. objects["tls"] = [kind |-> "Secret", data |-> Last]
    BY <1>1 DEF Rendered, Object, WebhookType
  <2>2. objects["path"] = [kind |-> "Secret", data |-> Last]
    BY <1>1 DEF Rendered, Object, WebhookType
  <2>3. objects["module"] = [kind |-> "Secret", data |-> Config(Last).code]
    BY <1>1 DEF Rendered, Object, WebhookType
  <2> QED BY <2>1, <2>2, <2>3
<1>5. {"tls", "path", "module"} \subseteq Present(objects)
  BY <1>4 DEF Present, Object, Absent
<1>6. /\ objects["admission"] = From("admission", admissionDeployTemplate(dir["admission"], v))
      /\ objects["watcher"] = From("watcher", watcherDeployTemplate(dir["watcher"], v))
  <2>1. objects["admission"] = From("admission", admissionDeployTemplate(dir["admission"], v))
    BY <1>1, <1>2 DEF Rendered, Object, WebhookType
  <2>2. objects["watcher"] = From("watcher", watcherDeployTemplate(dir["watcher"], v))
    BY <1>1, <1>2 DEF Rendered, Object, WebhookType
  <2> QED BY <2>1, <2>2
<1>7. \A d \in {"admission", "watcher"} : objects[d] # Absent => objects[d].hash = Config(Last).code
  <2>1. objects["admission"] # Absent => objects["admission"].hash = Config(Last).code
    BY <1>3, <1>6 DEF From, admissionDeployTemplate
  <2>2. objects["watcher"] # Absent => objects["watcher"].hash = Config(Last).code
    <3>1. objects["watcher"] \in {Absent, watcherDeployTemplate(dir["watcher"], v)}
      BY <1>6 DEF From
    <3>2. PICK env : env = TemplateEnv(v, v.watcherEnv, "true")
      OBVIOUS
    <3>3. watcherDeployTemplate(dir["watcher"], v) # Absent =>
            watcherDeployTemplate(dir["watcher"], v).hash = v.hash
      BY <3>2 DEF watcherDeployTemplate
    <3> QED BY <1>3, <3>1, <3>3
  <2> QED BY <2>1, <2>2
<1>8. ASSUME NEW type \in WebhookType, HasWebhook(Config(Last), type)
      PROVE  /\ objects[type] # Absent
             /\ "tls" \in Garbled(Last, objects[type]) \/ objects[type].tls = Last
             /\ "path" \in Garbled(Last, objects[type]) \/ objects[type].path = Last
             /\ objects["admission"] # Absent => objects["admission"].stamp = Last
  <2>1. dir[type] = Last /\ dir["admission"] = Last
    BY <1>8, DoneFacts
  <2>2. objects[type] = From(type, createWebhookYaml(dir[type], type, v))
    BY <1>1, <1>2 DEF Rendered, Object, WebhookType
  <2>3. objects[type] = createWebhookYaml(Last, type, v)
    BY <1>1, <2>1, <2>2 DEF From
  <2>4. /\ objects[type].kind = type
        /\ objects[type].tls = IF "tls" \in Garbled(Last, objects[type]) THEN 0 ELSE Last
        /\ objects[type].path = IF "path" \in Garbled(Last, objects[type]) THEN 0 ELSE Last
    <3>1. PICK w : w = createWebhookYaml(Last, type, v)
      OBVIOUS
    <3>2. /\ w.kind = type
          /\ w.tls = IF "tls" \in Garbled(Last, w) THEN 0 ELSE Last
          /\ w.path = IF "path" \in Garbled(Last, w) THEN 0 ELSE Last
      BY <1>8, <3>1, Filled
    <3> QED BY <2>3, <3>1, <3>2
  <2>5. objects[type] # Absent
    BY <2>4 DEF Absent, WebhookType
  <2>6. objects["admission"] # Absent => objects["admission"].stamp = Last
    BY <1>6, <2>1 DEF From, admissionDeployTemplate
  <2> QED BY <2>4, <2>5, <2>6
<1> QED BY <1>4, <1>5, <1>7, <1>8 DEF Fits

\* A Deployment, of which the manifest and the chart have two descriptions each.
Pod(kind, replicas, strategy, stamp, hash, image, ids, env, mounts, priority, labels, pullSecrets) ==
  [kind |-> kind, replicas |-> replicas, strategy |-> strategy, stamp |-> stamp,
   hash |-> hash, image |-> image, ids |-> ids, env |-> env, mounts |-> mounts,
   priority |-> priority, labels |-> labels, pullSecrets |-> pullSecrets]

\* The fields of a Deployment.
LEMMA PodFacts ==
  \A kind, replicas, strategy, stamp, hash, image, ids, env, mounts, priority, labels, pullSecrets :
    LET d == Pod(kind, replicas, strategy, stamp, hash, image, ids, env, mounts, priority, labels,
                 pullSecrets)
    IN /\ d.stamp = stamp /\ d.hash = hash /\ d.image = image /\ d.env = env
       /\ kind \in {"admission", "watcher"} => d # Absent
BY DEF Pod, Absent

\* What there is of the manifest, is a Deployment.
LEMMA ManifestPods ==
  ASSUME NEW n
  PROVE  /\ getDeployment(n) =
              IF isAdmission(Config(n)) \/ norWatchOrAdmission(Config(n))
              THEN Pod("admission", 2, "RollingUpdate", n, Config(n).code, builds[n].image,
                       runIdsForImage(builds[n].image), genEnv(Config(n), "false", FALSE),
                       {"tls", "path", "module"}, "system-node-critical", {}, builds[n].pullSecrets)
              ELSE Absent
         /\ getWatcher(n) =
              IF isWatcher(Config(n))
              THEN Pod("watcher", 1, "Recreate", n, Config(n).code, builds[n].image,
                       runIdsForImage(builds[n].image), genEnv(Config(n), "true", FALSE),
                       {"tls", "module"}, "", {}, builds[n].pullSecrets)
              ELSE Absent
BY Zenon DEF getDeployment, getWatcher, Pod

\* What there is of the chart, is a Deployment.
LEMMA ChartPods ==
  ASSUME NEW stamp, NEW v
  PROVE  /\ admissionDeployTemplate(stamp, v) =
              IF v.admissionEnabled
              THEN Pod("admission", 2, "RollingUpdate", stamp, v.hash, v.image, v.ids,
                       TemplateEnv(v, v.admissionEnv, "false"), {"tls", "path", "module"},
                       "system-node-critical", v.podLabels, {})
              ELSE Absent
         /\ watcherDeployTemplate(stamp, v) =
              IF v.watcherEnabled
              THEN Pod("watcher", 1, "Recreate", stamp, v.hash, v.image, v.ids,
                       TemplateEnv(v, v.watcherEnv, "true"), {"tls", "module"}, "", {}, {})
              ELSE Absent
BY Zenon DEF admissionDeployTemplate, watcherDeployTemplate, Pod

\* The objects of a manifest belong together.
LEMMA ManifestFits ==
  ASSUME NEW n, NEW objects, objects = generateAllYaml(n)
  PROVE  Fits(objects, n)
<1>1. objects["tls"] = [kind |-> "Secret", data |-> n]
  BY DEF generateAllYaml, Object, WebhookType
<1>2. objects["path"] = [kind |-> "Secret", data |-> n]
  BY DEF generateAllYaml, Object, WebhookType
<1>3. objects["module"] = [kind |-> "Secret", data |-> Config(n).code]
  BY DEF generateAllYaml, Object, WebhookType
<1>4. objects["admission"] = getDeployment(n)
  BY DEF generateAllYaml, Object, WebhookType
<1>5. objects["watcher"] = getWatcher(n)
  BY DEF generateAllYaml, Object, WebhookType
<1>6. {"tls", "path", "module"} \subseteq Present(objects)
  BY <1>1, <1>2, <1>3 DEF Present, Object, Absent
<1>7. objects["admission"] # Absent =>
        objects["admission"].hash = Config(n).code /\ objects["admission"].stamp = n
  <2>1. CASE isAdmission(Config(n)) \/ norWatchOrAdmission(Config(n))
    <3>1. PICK image, ids, env, mounts, secrets :
            objects["admission"] = Pod("admission", 2, "RollingUpdate", n, Config(n).code, image, ids,
                                       env, mounts, "system-node-critical", {}, secrets)
      BY <1>4, <2>1, ManifestPods, Zenon
    <3>2. objects["admission"].hash = Config(n).code
      BY <3>1, PodFacts
    <3>3. objects["admission"].stamp = n
      BY <3>1, PodFacts
    <3> QED BY <3>2, <3>3
  <2>2. CASE ~(isAdmission(Config(n)) \/ norWatchOrAdmission(Config(n)))
    BY <1>4, <2>2, ManifestPods
  <2> QED BY <2>1, <2>2
<1>8. objects["watcher"] # Absent => objects["watcher"].hash = Config(n).code
  <2>1. CASE isWatcher(Config(n))
    <3>1. PICK strategy, image, ids, env, mounts, priority, labels, secrets :
            objects["watcher"] = Pod("watcher", 1, strategy, n, Config(n).code, image, ids, env,
                                     mounts, priority, labels, secrets)
      BY <1>5, <2>1, ManifestPods, Zenon
    <3> QED BY <3>1, PodFacts
  <2>2. CASE ~isWatcher(Config(n))
    BY <1>5, <2>2, ManifestPods
  <2> QED BY <2>1, <2>2
<1>9. ASSUME NEW type \in WebhookType, HasWebhook(Config(n), type)
      PROVE  objects[type] # Absent /\ objects[type].tls = n /\ objects[type].path = n
  <2>1. objects[type] = webhookConfigGenerator(n, type)
    BY DEF generateAllYaml, Object, WebhookType
  <2>2. objects[type].tls = n /\ objects[type].path = n /\ objects[type].kind = type
    <3>1. PICK b : b = webhookConfigGenerator(n, type)
      OBVIOUS
    <3>2. b.tls = n /\ b.path = n /\ b.kind = type
      BY <1>9, <3>1, Generated
    <3> QED BY <2>1, <3>1, <3>2
  <2> QED BY <2>2 DEF Absent, WebhookType
<1> QED BY <1>1, <1>2, <1>3, <1>6, <1>7, <1>8, <1>9 DEF Fits

\* What is garbled in a webhook depends on the build and the webhook alone.
LEMMA GarbledStays ==
  ASSUME NEW n, builds'[n] = builds[n]
  PROVE  /\ Config(n)' = Config(n)
         /\ \A type : Garbled(n, cluster[type])' = Garbled(n, cluster'[type])
<1>1. Config(n)' = Config(n)
  BY DEF Config
<1>2. \A kind : webhookConfigGenerator(n, kind)' = webhookConfigGenerator(n, kind)
  BY <1>1, Zenon DEF webhookConfigGenerator
<1>3. \A type : Garbled(n, cluster[type])' = Garbled(n, cluster'[type])
  BY <1>2 DEF Garbled
<1> QED BY <1>1, <1>3

\* What belongs together also does when it is in the cluster.
LEMMA InstalledFits ==
  ASSUME NEW n, NEW objects, Fits(objects, n), builds'[n] = builds[n],
         installed'.build = n, installed'.objects = Present(objects),
         \A x \in Present(objects) : cluster'[x] = objects[x]
  PROVE  Coherent'
<1>1. /\ cluster'["tls"] = objects["tls"] /\ cluster'["path"] = objects["path"]
      /\ cluster'["module"] = objects["module"]
  BY DEF Fits
<1>2. \A x \in Object : objects[x] # Absent => x \in Present(objects)
  BY DEF Present
<1>3. \A x \in Present(objects) : objects[x] # Absent
  BY DEF Present
<1>4. ASSUME NEW type \in WebhookType, HasWebhook(Config(n), type)
      PROVE  /\ cluster'[type] # Absent
             /\ "tls" \in Garbled(n, cluster'[type]) \/ cluster'[type].tls = n
             /\ "path" \in Garbled(n, cluster'[type]) \/ cluster'[type].path = n
             /\ "admission" \in Present(objects) => cluster'["admission"].stamp = n
  <2>0. type \in Object
    BY DEF Object, WebhookType
  <2>1. type \in Present(objects) /\ objects[type] # Absent
    BY <1>2, <1>4, <2>0 DEF Fits
  <2>2. /\ "tls" \in Garbled(n, objects[type]) \/ objects[type].tls = n
        /\ "path" \in Garbled(n, objects[type]) \/ objects[type].path = n
    BY <1>4 DEF Fits
  <2>3. objects["admission"] # Absent => objects["admission"].stamp = n
    BY <1>4 DEF Fits
  <2>4. cluster'[type] = objects[type]
    BY <2>1
  <2> QED BY <1>3, <2>1, <2>2, <2>3, <2>4
<1>5. ASSUME NEW d \in {"admission", "watcher"}, d \in Present(objects)
      PROVE  cluster'[d].hash = cluster'["module"].data
  <2>1. objects[d].hash = Config(n).code
    BY <1>3, <1>5 DEF Fits
  <2>2. objects["module"].data = Config(n).code
    BY DEF Fits
  <2> QED BY <1>1, <1>5, <2>1, <2>2
<1>6. objects["tls"].data = n /\ objects["path"].data = n
  BY DEF Fits
<1>7. Config(n)' = Config(n) /\ \A type : Garbled(n, cluster[type])' = Garbled(n, cluster'[type])
  BY GarbledStays
<1> QED BY <1>1, <1>4, <1>5, <1>6, <1>7, Zenon DEF Coherent

\* What is installed stays as it is until something is installed again.
LEMMA KeptCoherent ==
  ASSUME IInv, Coherent, UNCHANGED <<cluster, installed>>,
         \A n \in 1..Last : builds'[n] = builds[n]
  PROVE  Coherent'
<1>1. CASE installed.build = 0
  BY <1>1 DEF Coherent
<1>2. CASE installed.build # 0
  <2>1. PICK n \in 1..Last : n = installed.build
    BY <1>2, LastFacts DEF IInv, TypeOK
  <2>2. Config(n)' = Config(n) /\ \A type : Garbled(n, cluster[type])' = Garbled(n, cluster'[type])
    BY GarbledStays
  <2>3. /\ installed' = installed /\ cluster' = cluster
        /\ Config(installed.build)' = Config(installed.build)
        /\ \A type : Garbled(installed.build, cluster[type])' = Garbled(installed.build, cluster[type])
    BY <2>1, <2>2
  <2> QED BY <2>3 DEF Coherent
<1> QED BY <1>1, <1>2

\* An installation of a whole build.
LEMMA InstallCoherent ==
  ASSUME IInv, Whole, KeepsHash,
         KubectlApply \/ \E override \in Override : HelmUpgrade(override)
  PROVE  Coherent'
<1>1. CASE KubectlApply
  <2>1. PICK n : n = dir["yaml"]
    OBVIOUS
  <2>2. PICK objects : objects = generateAllYaml(n)
    OBVIOUS
  <2>3. /\ cluster' = [x \in Object |-> IF x \in Present(objects) THEN objects[x] ELSE cluster[x]]
        /\ installed' = [build |-> n, objects |-> Present(objects)] /\ UNCHANGED builds
    BY <1>1, <2>1, <2>2 DEF KubectlApply
  <2>4. Fits(objects, n) /\ builds'[n] = builds[n]
    BY <2>2, <2>3, ManifestFits
  <2>5. \A x \in Present(objects) : cluster'[x] = objects[x]
    BY <2>3 DEF Present
  <2>6. installed'.build = n /\ installed'.objects = Present(objects)
    BY <2>3
  <2> QED BY <2>4, <2>5, <2>6, InstalledFits
<1>2. ASSUME NEW override \in Override, HelmUpgrade(override) PROVE Coherent'
  <2>1. PICK objects : objects = Rendered(override)
    OBVIOUS
  <2>2. /\ cluster' = [x \in Object |-> IF x \in Present(objects) \cup release THEN objects[x] ELSE cluster[x]]
        /\ installed' = [build |-> IF maker.status = "done" THEN Last ELSE 0, objects |-> Present(objects)]
        /\ UNCHANGED builds
    BY <1>2, <2>1 DEF HelmUpgrade
  <2>3. CASE maker.status = "done"
    <3>1. Fits(objects, Last)
      BY <2>1, <2>2, <2>3, ChartFits
    <3>2. \A x \in Present(objects) : cluster'[x] = objects[x]
      BY <2>2 DEF Present
    <3>3. installed'.build = Last /\ installed'.objects = Present(objects)
      BY <2>2, <2>3
    <3>4. PICK n : n = Last
      OBVIOUS
    <3>5. builds'[n] = builds[n]
      BY <2>2
    <3> QED BY <3>1, <3>2, <3>3, <3>4, <3>5, InstalledFits
  <2>4. CASE maker.status # "done"
    BY <2>2, <2>4 DEF Coherent
  <2> QED BY <2>3, <2>4
<1> QED BY <1>1, <1>2

\* Whatever was installed before, and with whatever values, what is installed of a
\* whole build fits together, unless values replace the hash of the module.
THEOREM InstallsFit == ASSUME KeepsHash PROVE Spec => []Coherent
<1>1. Init => Coherent
  BY DEF Init, Coherent
<1>2. IInv /\ Whole /\ Coherent /\ [Next]_vars => Coherent'
  <2> SUFFICES ASSUME IInv, Whole, Coherent, [Next]_vars PROVE Coherent'
    OBVIOUS
  <2>1. ASSUME NEW m \in Project, NEW opts \in Options, NEW digits \in Digits, Build(m, opts, digits)
        PROVE  Coherent'
    <3>1. UNCHANGED <<cluster, installed>> /\ \A n \in 1..Last : builds'[n] = builds[n]
      <4>1. PICK S : builds \in Seq(S)
        BY DEF IInv, IsBuilds
      <4>2. PICK made : made = Made(m, opts, digits)
        OBVIOUS
      <4>3. builds' = Append(builds, made) /\ builds \in Seq(S \cup {made})
        BY <2>1, <4>1, <4>2 DEF Build
      <4> QED BY <2>1, <4>3 DEF Build, Last
    <3> QED BY <3>1, KeptCoherent
  <2>2. CASE KubectlApply \/ \E override \in Override : HelmUpgrade(override)
    BY <2>2, InstallCoherent
  <2>3. CASE UNCHANGED <<builds, cluster, installed>>
    BY <2>3, KeptCoherent
  <2> QED BY <2>1, <2>2, <2>3 DEF Next, Refused, Step, StepFails, Clean, vars
<1> QED BY <1>1, <1>2, Invariance, WholeBuilds, PTL DEF Spec

(***************************************************************************)
(* The chart and the manifest.                                             *)
(***************************************************************************)

\* A project that does not itself set the variables the build and the chart set, and
\* does not set its watch mode to the empty string, which counts as none in genEnv.
Plain(m) ==
  /\ AddedNamespaces \notin DOMAIN m.env
  /\ "PEPR_WATCH_MODE" \in DOMAIN m.env => m.env["PEPR_WATCH_MODE"] # ""

\* The environment of a Deployment by chart is that by manifest, and the namespaces
\* the chart adds.
LEMMA SameEnvironment ==
  ASSUME NEW m, Plain(m), NEW mode, NEW v
  PROVE  LET chart == TemplateEnv(v, genEnv(m, mode, TRUE), mode)
             manifest == genEnv(m, mode, FALSE)
         IN
         /\ Without(AddedNamespaces, chart) = Without(AddedNamespaces, manifest)
         /\ AddedNamespaces \notin DOMAIN manifest
         /\ AddedNamespaces \in DOMAIN chart <=> v.additionalIgnoredNamespaces # {}
         /\ AddedNamespaces \in DOMAIN chart =>
              chart[AddedNamespaces] = v.additionalIgnoredNamespaces
<1>0. PICK chart, manifest :
        chart = TemplateEnv(v, genEnv(m, mode, TRUE), mode) /\ manifest = genEnv(m, mode, FALSE)
  OBVIOUS
<1>1. PICK own, log, none, watch :
        /\ own = ownEnv(m) /\ log = [PEPR_PRETTY_LOG |-> "false", LOG_LEVEL |-> m.logLevel]
        /\ none = << >> /\ watch = [PEPR_WATCH_MODE |-> mode]
  OBVIOUS
<1>2. AddedNamespaces \notin DOMAIN own /\ "PEPR_WATCH_MODE" \notin DOMAIN own
  <2>1. CASE "PEPR_WATCH_MODE" \in DOMAIN m.env
    <3>1. own = Without("PEPR_WATCH_MODE", m.env)
      BY <1>1, <2>1 DEF ownEnv, Plain
    <3> QED BY <3>1 DEF Without, Plain
  <2>2. CASE "PEPR_WATCH_MODE" \notin DOMAIN m.env
    BY <1>1, <2>2 DEF ownEnv, Plain
  <2> QED BY <2>1, <2>2
<1>3. /\ DOMAIN log = {"PEPR_PRETTY_LOG", "LOG_LEVEL"} /\ DOMAIN none = {}
      /\ DOMAIN watch = {"PEPR_WATCH_MODE"} /\ watch["PEPR_WATCH_MODE"] = mode
  BY <1>1
<1>4. PICK env : env = genEnv(m, mode, TRUE)
  OBVIOUS
<1>5. PICK quiet, rest :
        /\ quiet = Over(log, none) /\ env = Over(own, quiet)
        /\ rest = Over(log, watch) /\ manifest = Over(own, rest)
  BY <1>0, <1>1, <1>4 DEF genEnv
<1>6. /\ DOMAIN env = DOMAIN own \cup DOMAIN log
      /\ \A x \in DOMAIN own : env[x] = own[x]
      /\ \A x \in DOMAIN log \ DOMAIN own : env[x] = log[x]
  BY <1>3, <1>5 DEF Over
<1>7. /\ DOMAIN manifest = DOMAIN own \cup DOMAIN log \cup DOMAIN watch
      /\ \A x \in DOMAIN own : manifest[x] = own[x]
      /\ \A x \in DOMAIN log \ DOMAIN own : manifest[x] = log[x]
      /\ manifest["PEPR_WATCH_MODE"] = mode
  BY <1>2, <1>3, <1>5 DEF Over
<1>8. PICK added, inner :
        /\ added = IF v.additionalIgnoredNamespaces = {} THEN << >>
                   ELSE [PEPR_ADDITIONAL_IGNORED_NAMESPACES |-> v.additionalIgnoredNamespaces]
        /\ inner = Over(watch, env)
  OBVIOUS
<1>9. /\ v.additionalIgnoredNamespaces = {} => DOMAIN added = {}
      /\ v.additionalIgnoredNamespaces # {} =>
           DOMAIN added = {AddedNamespaces} /\ added[AddedNamespaces] = v.additionalIgnoredNamespaces
  BY <1>8 DEF AddedNamespaces
<1>10. chart = Over(added, inner)
  BY <1>0, <1>1, <1>4, <1>8 DEF TemplateEnv
<1>11. /\ DOMAIN inner = DOMAIN env \cup DOMAIN watch /\ inner["PEPR_WATCH_MODE"] = mode
       /\ \A x \in DOMAIN env \ DOMAIN watch : inner[x] = env[x]
  BY <1>3, <1>8 DEF Over
<1>12. "PEPR_WATCH_MODE" \notin DOMAIN env /\ AddedNamespaces \notin DOMAIN inner
  BY <1>2, <1>3, <1>6, <1>11 DEF AddedNamespaces
<1>13. DOMAIN inner = DOMAIN manifest /\ \A x \in DOMAIN inner : inner[x] = manifest[x]
  BY <1>3, <1>6, <1>7, <1>11, <1>12
<1>14. /\ DOMAIN chart = DOMAIN added \cup DOMAIN inner
       /\ \A x \in DOMAIN added : chart[x] = added[x]
       /\ \A x \in DOMAIN inner \ DOMAIN added : chart[x] = inner[x]
  BY <1>10 DEF Over
<1>15. Without(AddedNamespaces, chart) = Without(AddedNamespaces, manifest)
  <2>1. DOMAIN chart \ {AddedNamespaces} = DOMAIN manifest \ {AddedNamespaces}
    BY <1>9, <1>13, <1>14
  <2>2. \A x \in DOMAIN chart \ {AddedNamespaces} : chart[x] = manifest[x]
    BY <1>9, <1>13, <1>14
  <2> QED BY <2>1, <2>2 DEF Without
<1>16. /\ AddedNamespaces \notin DOMAIN manifest
       /\ AddedNamespaces \in DOMAIN chart <=> v.additionalIgnoredNamespaces # {}
       /\ AddedNamespaces \in DOMAIN chart =>
            chart[AddedNamespaces] = v.additionalIgnoredNamespaces
  BY <1>9, <1>12, <1>13, <1>14
<1> QED BY <1>0, <1>15, <1>16, Zenon

\* What a process ignores is the same in both environments, but for what the chart adds
\* to a watcher that ignores less than admission does.
LEMMA SameIgnoring ==
  ASSUME NEW m, NEW type \in {"admission", "watcher"}, NEW chart, NEW manifest,
         AddedNamespaces \notin DOMAIN manifest,
         AddedNamespaces \in DOMAIN chart <=> getIgnoreNamespaces(m) # {},
         AddedNamespaces \in DOMAIN chart => chart[AddedNamespaces] = getIgnoreNamespaces(m)
  PROVE  SameIgnored(type, m, chart, manifest)
<1>1. PICK base : base = IF type = "admission" THEN getIgnoreNamespaces(m)
                         ELSE IF m.alwaysIgnore # {} THEN m.alwaysIgnore ELSE m.watchIgnore
  OBVIOUS
<1>2. IgnoredBy(type, m, manifest) = base
  BY <1>1 DEF IgnoredBy
<1>3. IgnoredBy(type, m, chart) = base \cup getIgnoreNamespaces(m)
  <2>1. CASE AddedNamespaces \in DOMAIN chart
    BY <1>1, <2>1 DEF IgnoredBy
  <2>2. CASE AddedNamespaces \notin DOMAIN chart
    BY <1>1, <2>2 DEF IgnoredBy
  <2> QED BY <2>1, <2>2
<1>4. CASE type = "admission" \/ m.alwaysIgnore # {}
  <2>1. base = getIgnoreNamespaces(m)
    BY <1>1, <1>4 DEF getIgnoreNamespaces
  <2> QED BY <1>2, <1>3, <2>1 DEF SameIgnored
<1>5. CASE type = "watcher" /\ m.alwaysIgnore = {}
  <2>1. base = m.watchIgnore /\ getIgnoreNamespaces(m) = m.admissionIgnore
    BY <1>1, <1>5 DEF getIgnoreNamespaces
  <2>2. CASE m.admissionIgnore \subseteq m.watchIgnore
    BY <1>2, <1>3, <2>1, <2>2 DEF SameIgnored
  <2>3. CASE ~(m.admissionIgnore \subseteq m.watchIgnore)
    BY <1>5, <2>3 DEF SameIgnored
  <2> QED BY <2>2, <2>3
<1> QED BY <1>4, <1>5

\* Deployments that differ in nothing but the environment and the secrets.
LEMMA SamePods ==
  ASSUME NEW m, NEW kind \in {"admission", "watcher"}, NEW replicas, NEW strategy, NEW stamp,
         NEW hash, NEW image, NEW ids, NEW mounts, NEW priority, NEW labels,
         NEW env1, NEW secrets1, NEW env2, NEW secrets2, NEW d1, NEW d2,
         d1 = Pod(kind, replicas, strategy, stamp, hash, image, ids, env1, mounts, priority,
                  labels, secrets1),
         d2 = Pod(kind, replicas, strategy, stamp, hash, image, ids, env2, mounts, priority,
                  labels, secrets2),
         Without(AddedNamespaces, env1) = Without(AddedNamespaces, env2),
         SameIgnored(kind, m, env1, env2)
  PROVE  SameDeployment(kind, m, d1, d2)
<1>1. d1.env = env1 /\ d2.env = env2 /\ d1.kind = kind /\ d2.kind = kind
  BY DEF Pod
<1>2. d1 # Absent /\ d2 # Absent
  BY <1>1 DEF Absent
<1>3. \A k \in DOMAIN d1 \ {"env", "pullSecrets"} : d1[k] = d2[k]
  BY DEF Pod
<1> QED BY <1>1, <1>2, <1>3 DEF SameDeployment

\* Projects are what type checks, with policies there are.
Registered ==
  \A n \in 1..Last :
    /\ \A chain \in Config(n).chains : WellTyped(chain)
    /\ Config(n).additional \in [DOMAIN Config(n).additional -> FailurePolicy]

\* A module that needs the admission controller has a webhook: with the binding that
\* calls a finalizer back there is always one that puts it on.
LEMMA AdmissionHasWebhook ==
  ASSUME NEW m, \A chain \in m.chains : WellTyped(chain), isAdmission(m)
  PROVE  \E type \in WebhookType : HasWebhook(m, type)
<1>1. PICK b \in Bindings(m) : b.isFinalize \/ b.isMutate \/ b.isValidate
  BY DEF isAdmission
<1>2. CASE b.isMutate \/ b.isValidate
  BY <1>1, <1>2 DEF HasWebhook, IsOfType, WebhookType
<1>3. CASE ~(b.isMutate \/ b.isValidate)
  <2>1. PICK chain \in m.chains :
          b \in (IF "Mutate" \in chain.methods THEN Mutate(chain, "build") ELSE {})
               \cup (IF "Validate" \in chain.methods THEN Validate(chain, "build") ELSE {})
               \cup (IF "Watch" \in chain.methods THEN Watch(chain, "build") ELSE {})
               \cup (IF "Reconcile" \in chain.methods THEN Reconcile(chain, "build") ELSE {})
               \cup (IF "Finalize" \in chain.methods THEN Finalize(chain, "build") ELSE {})
    BY DEF Bindings, bindings
  <2>2. PICK binding : binding = chain.binding
    OBVIOUS
  <2>3. Flag \cup {"kind", "event"} \subseteq DOMAIN binding /\ \A f \in Flag : binding[f] = FALSE
    BY <2>2 DEF WellTyped
  <2>4. "Finalize" \in chain.methods
    <3>1. ASSUME "Mutate" \in chain.methods, b \in Mutate(chain, "build") PROVE FALSE
      BY <1>3, <2>2, <2>3, <3>1 DEF Mutate, Pushed, registerAdmission, Flag
    <3>2. ASSUME b \in Validate(chain, "build") PROVE FALSE
      BY <1>3, <2>2, <2>3, <3>2 DEF Validate, Pushed, registerAdmission, Flag
    <3>3. ASSUME b \in Watch(chain, "build") PROVE FALSE
      <4>1. b = [binding EXCEPT !.isWatch = TRUE]
        BY <2>2, <3>3 DEF Watch, Pushed, registerWatch
      <4>2. b.isFinalize = FALSE
        BY <2>3, <4>1 DEF Flag
      <4> QED BY <1>1, <1>3, <4>2
    <3>4. ASSUME b \in Reconcile(chain, "build") PROVE FALSE
      <4>1. b = [binding EXCEPT !.isWatch = TRUE, !.isQueue = TRUE]
        BY <2>2, <3>4 DEF Reconcile, Pushed, registerWatch
      <4>2. b.isFinalize = FALSE
        BY <2>3, <4>1 DEF Flag
      <4> QED BY <1>1, <1>3, <4>2
    <3> QED BY <2>1, <3>1, <3>2, <3>3, <3>4
  <2>5. PICK c : c = [binding EXCEPT !.isMutate = TRUE, !.isFinalize = TRUE, !.event = "*"]
    OBVIOUS
  <2>6. c \in Finalize(chain, "build")
    BY <2>2, <2>5 DEF Finalize, Pushed, registerAdmission
  <2>7. c \in Bindings(m)
    BY <2>4, <2>6 DEF Bindings, bindings
  <2>8. c.isMutate = TRUE
    BY <2>3, <2>5 DEF Flag
  <2> QED BY <2>7, <2>8 DEF HasWebhook, IsOfType, WebhookType
<1> QED BY <1>2, <1>3

\* When a manifest has a Deployment.
LEMMA HasDeployment ==
  ASSUME NEW n
  PROVE  /\ getDeployment(n) = Absent <=> ~(isAdmission(Config(n)) \/ norWatchOrAdmission(Config(n)))
         /\ getWatcher(n) = Absent <=> ~isWatcher(Config(n))
<1>1. ASSUME isAdmission(Config(n)) \/ norWatchOrAdmission(Config(n)) PROVE getDeployment(n) # Absent
  <2>1. PICK image, ids, env, mounts, secrets :
          getDeployment(n) = Pod("admission", 2, "RollingUpdate", n, Config(n).code, image, ids, env,
                                 mounts, "system-node-critical", {}, secrets)
    BY <1>1, ManifestPods, Zenon
  <2> QED BY <2>1, PodFacts
<1>2. ASSUME isWatcher(Config(n)) PROVE getWatcher(n) # Absent
  <2>1. PICK strategy, image, ids, env, mounts, priority, labels, secrets :
          getWatcher(n) = Pod("watcher", 1, strategy, n, Config(n).code, image, ids, env,
                              mounts, priority, labels, secrets)
    BY <1>2, ManifestPods, Zenon
  <2> QED BY <2>1, PodFacts
<1> QED BY <1>1, <1>2 DEF getDeployment, getWatcher

\* The values of a build to which a user adds none.
LEMMA OwnValues ==
  ASSUME NEW n
  PROVE  LET v == Given(overridesFile(n), << >>)
             m == Config(n)
         IN
         /\ v.additionalIgnoredNamespaces = getIgnoreNamespaces(m)
         /\ v.rbac = rules(m) /\ v.hash = m.code /\ v.image = builds[n].image
         /\ v.namespaceLabels = IF m.labels = {} THEN {"pepr.dev"} ELSE m.labels
         /\ v.admissionEnabled = (isAdmission(m) \/ norWatchOrAdmission(m))
         /\ v.watcherEnabled = isWatcher(m)
         /\ v.failurePolicy = PolicyOf(m)
         /\ v.webhookTimeout = m.webhookTimeout
         /\ v.admissionEnv = genEnv(m, "false", TRUE) /\ v.watcherEnv = genEnv(m, "true", TRUE)
         /\ v.ids = runIdsForImage(builds[n].image) /\ v.podLabels = {}
         /\ v.admissionMonitor = FALSE /\ v.watcherMonitor = FALSE
<1> DEFINE v == Given(overridesFile(n), << >>)
           m == Config(n)
<1>1. PICK w : w = overridesFile(n)
  OBVIOUS
<1>2. DOMAIN v = DOMAIN w /\ \A k \in DOMAIN w : v[k] = w[k]
  BY <1>1 DEF Given
<1>3. DOMAIN w = {"imagePullSecrets", "additionalIgnoredNamespaces", "rbac", "hash",
                  "namespaceLabels", "admissionEnabled", "watcherEnabled", "failurePolicy",
                  "webhookTimeout", "admissionEnv", "watcherEnv", "image", "ids", "podLabels",
                  "admissionMonitor", "watcherMonitor"}
  BY <1>1 DEF overridesFile
<1>4. /\ w.additionalIgnoredNamespaces = getIgnoreNamespaces(m)
      /\ w.rbac = rules(m) /\ w.hash = m.code /\ w.image = builds[n].image
      /\ w.namespaceLabels = IF m.labels = {} THEN {"pepr.dev"} ELSE m.labels
  BY <1>1 DEF overridesFile
<1>5. /\ w.admissionEnabled = (isAdmission(m) \/ norWatchOrAdmission(m))
      /\ w.watcherEnabled = isWatcher(m)
      /\ w.failurePolicy = PolicyOf(m)
      /\ w.webhookTimeout = m.webhookTimeout
  BY <1>1 DEF overridesFile
<1>6. /\ w.admissionEnv = genEnv(m, "false", TRUE) /\ w.watcherEnv = genEnv(m, "true", TRUE)
      /\ w.ids = runIdsForImage(builds[n].image) /\ w.podLabels = {}
      /\ w.admissionMonitor = FALSE /\ w.watcherMonitor = FALSE
  BY <1>1 DEF overridesFile
<1> QED BY <1>2, <1>3, <1>4, <1>5, <1>6

\* A Deployment of the chart is that of the manifest.
LEMMA SameDeployments ==
  ASSUME IInv, Whole, Registered, maker.status = "done", Plain(Config(Last)),
         NEW chart, chart = Rendered(<< >>), NEW manifest, manifest = generateAllYaml(Last)
  PROVE  /\ SameDeployment("watcher", Config(Last), chart["watcher"], manifest["watcher"])
         /\ ~norWatchOrAdmission(Config(Last)) =>
              SameDeployment("admission", Config(Last), chart["admission"], manifest["admission"])
<1>1. PICK m, v, n : m = Config(n) /\ v = Given(overridesFile(n), << >>) /\ n = Last
  OBVIOUS
<1>2. /\ n \in Nat /\ n # 0 /\ dir["values"] = n
      /\ \A type \in WebhookType : HasWebhook(m, type) => dir["admission"] = n
      /\ isWatcher(m) => dir["watcher"] = n
  BY <1>1, DoneFacts DEF ChartFiles
<1>3. /\ v.additionalIgnoredNamespaces = getIgnoreNamespaces(m)
      /\ v.hash = m.code /\ v.image = builds[n].image
      /\ v.admissionEnabled = (isAdmission(m) \/ norWatchOrAdmission(m))
      /\ v.watcherEnabled = isWatcher(m)
      /\ v.admissionEnv = genEnv(m, "false", TRUE) /\ v.watcherEnv = genEnv(m, "true", TRUE)
      /\ v.ids = runIdsForImage(builds[n].image) /\ v.podLabels = {}
  BY <1>1, OwnValues, Zenon
<1>4. chart["watcher"] = From("watcher", watcherDeployTemplate(dir["watcher"], v))
  BY <1>1, <1>2 DEF Rendered, Object, WebhookType
<1>5. chart["admission"] = From("admission", admissionDeployTemplate(dir["admission"], v))
  BY <1>1, <1>2 DEF Rendered, Object, WebhookType
<1>6. manifest["watcher"] = getWatcher(n)
  BY <1>1 DEF generateAllYaml, Object, WebhookType
<1>7. manifest["admission"] = getDeployment(n)
  BY <1>1 DEF generateAllYaml, Object, WebhookType
<1>8. ASSUME NEW type \in {"admission", "watcher"}, NEW mode, NEW env1, NEW env2,
             env1 = TemplateEnv(v, genEnv(m, mode, TRUE), mode), env2 = genEnv(m, mode, FALSE)
      PROVE  /\ Without(AddedNamespaces, env1) = Without(AddedNamespaces, env2)
             /\ SameIgnored(type, m, env1, env2)
  <2>1. Plain(m)
    BY <1>1
  <2>2. /\ Without(AddedNamespaces, env1) = Without(AddedNamespaces, env2)
        /\ AddedNamespaces \notin DOMAIN env2
        /\ AddedNamespaces \in DOMAIN env1 <=> getIgnoreNamespaces(m) # {}
        /\ AddedNamespaces \in DOMAIN env1 => env1[AddedNamespaces] = getIgnoreNamespaces(m)
    <3>1. /\ Without(AddedNamespaces, env1) = Without(AddedNamespaces, env2)
          /\ AddedNamespaces \notin DOMAIN env2
          /\ AddedNamespaces \in DOMAIN env1 <=> v.additionalIgnoredNamespaces # {}
          /\ AddedNamespaces \in DOMAIN env1 =>
               env1[AddedNamespaces] = v.additionalIgnoredNamespaces
      BY <1>8, <2>1, SameEnvironment, Zenon
    <3>2. v.additionalIgnoredNamespaces = getIgnoreNamespaces(m)
      BY <1>3
    <3> QED BY <3>1, <3>2, Zenon
  <2> QED BY <2>2, SameIgnoring
<1>9. SameDeployment("watcher", m, chart["watcher"], manifest["watcher"])
  <2>1. CASE isWatcher(m)
    <3>1. PICK env1, env2 : /\ env1 = TemplateEnv(v, genEnv(m, "true", TRUE), "true")
                            /\ env2 = genEnv(m, "true", FALSE)
      OBVIOUS
    <3>2. PICK ids : ids = runIdsForImage(builds[n].image)
      OBVIOUS
    <3>3. chart["watcher"] = watcherDeployTemplate(n, v)
      BY <1>2, <1>4, <2>1 DEF From
    <3>4. watcherDeployTemplate(n, v) =
            Pod("watcher", 1, "Recreate", n, v.hash, v.image, v.ids,
                TemplateEnv(v, v.watcherEnv, "true"), {"tls", "module"}, "", {}, {})
      BY <1>3, <2>1, ChartPods
    <3>5. chart["watcher"] = Pod("watcher", 1, "Recreate", n, m.code, builds[n].image, ids, env1,
                                 {"tls", "module"}, "", {}, {})
      BY <1>3, <3>1, <3>2, <3>3, <3>4
    <3>6. manifest["watcher"] = Pod("watcher", 1, "Recreate", n, m.code, builds[n].image, ids, env2,
                                    {"tls", "module"}, "", {}, builds[n].pullSecrets)
      BY <1>1, <1>6, <2>1, <3>1, <3>2, ManifestPods, Zenon
    <3>7. /\ Without(AddedNamespaces, env1) = Without(AddedNamespaces, env2)
          /\ SameIgnored("watcher", m, env1, env2)
      BY <1>8, <3>1
    <3> QED BY <3>5, <3>6, <3>7, SamePods
  <2>2. CASE ~isWatcher(m)
    <3>1. manifest["watcher"] = Absent
      BY <1>1, <1>6, <2>2 DEF getWatcher
    <3>2. ~v.watcherEnabled
      BY <1>3, <2>2
    <3>3. chart["watcher"] = Absent
      BY <1>4, <3>2 DEF From, watcherDeployTemplate
    <3> QED BY <3>1, <3>3 DEF SameDeployment
  <2> QED BY <2>1, <2>2
<1>10. ASSUME ~norWatchOrAdmission(m)
       PROVE  SameDeployment("admission", m, chart["admission"], manifest["admission"])
  <2>1. CASE isAdmission(m)
    <3>1. PICK env1, env2 : /\ env1 = TemplateEnv(v, genEnv(m, "false", TRUE), "false")
                            /\ env2 = genEnv(m, "false", FALSE)
      OBVIOUS
    <3>2. PICK ids : ids = runIdsForImage(builds[n].image)
      OBVIOUS
    <3>3. \E type \in WebhookType : HasWebhook(m, type)
      BY <1>1, <1>2, <2>1, AdmissionHasWebhook DEF Registered
    <3>4. chart["admission"] = admissionDeployTemplate(n, v)
      BY <1>2, <1>5, <3>3 DEF From
    <3>5. admissionDeployTemplate(n, v) =
            Pod("admission", 2, "RollingUpdate", n, v.hash, v.image, v.ids,
                TemplateEnv(v, v.admissionEnv, "false"), {"tls", "path", "module"},
                "system-node-critical", v.podLabels, {})
      BY <1>3, <2>1, ChartPods
    <3>6. chart["admission"] = Pod("admission", 2, "RollingUpdate", n, m.code, builds[n].image, ids,
                                   env1, {"tls", "path", "module"}, "system-node-critical", {}, {})
      BY <1>3, <3>1, <3>2, <3>4, <3>5
    <3>7. manifest["admission"] =
            Pod("admission", 2, "RollingUpdate", n, m.code, builds[n].image, ids, env2,
                {"tls", "path", "module"}, "system-node-critical", {}, builds[n].pullSecrets)
      BY <1>1, <1>7, <2>1, <3>1, <3>2, ManifestPods, Zenon
    <3>8. /\ Without(AddedNamespaces, env1) = Without(AddedNamespaces, env2)
          /\ SameIgnored("admission", m, env1, env2)
      BY <1>8, <3>1
    <3> QED BY <3>6, <3>7, <3>8, SamePods
  <2>2. CASE ~isAdmission(m)
    <3>1. manifest["admission"] = Absent
      BY <1>1, <1>7, <1>10, <2>2 DEF getDeployment
    <3>2. ~v.admissionEnabled
      BY <1>3, <1>10, <2>2
    <3>3. chart["admission"] = Absent
      BY <1>5, <3>2 DEF From, admissionDeployTemplate
    <3> QED BY <3>1, <3>3 DEF SameDeployment
  <2> QED BY <2>1, <2>2
<1> QED BY <1>1, <1>9, <1>10

\* Without values of a user's, a webhook of the chart is that of the manifest.
LEMMA SameWebhook ==
  ASSUME NEW n, NEW type \in WebhookType, HasWebhook(Config(n), type), NEW S,
         Config(n).additional \in [S -> FailurePolicy]
  PROVE  createWebhookYaml(n, type, Given(overridesFile(n), << >>)) = webhookConfigGenerator(n, type)
<1>1. PICK m, v, b, w :
        /\ m = Config(n) /\ v = Given(overridesFile(n), << >>)
        /\ b = webhookConfigGenerator(n, type) /\ w = createWebhookYaml(n, type, v)
  OBVIOUS
<1>2. /\ v.additionalIgnoredNamespaces = getIgnoreNamespaces(m) /\ v.failurePolicy = PolicyOf(m)
      /\ v.webhookTimeout = m.webhookTimeout
  BY <1>1, OwnValues, Zenon
<1>3. /\ b.tls = n /\ b.path = n
      /\ b.timeoutSeconds = IF m.webhookTimeout = 0 THEN 10 ELSE m.webhookTimeout
      /\ b.failurePolicy = PolicyOf(m) /\ getIgnoreNamespaces(m) \subseteq b.ignored
      /\ b.additional = m.additional
  BY <1>1, Generated
<1>4. PICK timeout, garbled :
        /\ timeout = IF m.webhookTimeout = 0 THEN b.timeoutSeconds ELSE v.webhookTimeout
        /\ garbled = IF timeout = b.timeoutSeconds THEN {} ELSE builds[n].digits
  OBVIOUS
<1>5. timeout = b.timeoutSeconds /\ garbled = {}
  BY <1>2, <1>3, <1>4
<1>6. b.ignored \cup v.additionalIgnoredNamespaces = b.ignored
  BY <1>2, <1>3
<1>7. [namespace \in DOMAIN b.additional |->
         IF b.additional[namespace] = PolicyOf(m) THEN v.failurePolicy
         ELSE b.additional[namespace]] = b.additional
  BY <1>1, <1>2, <1>3
<1>8. (IF b.failurePolicy = PolicyOf(m) THEN v.failurePolicy ELSE b.failurePolicy) = b.failurePolicy
  BY <1>2, <1>3
<1>9. PICK rule, ignored, additional, policy :
        /\ rule = b.rules /\ ignored = b.ignored /\ additional = b.additional
        /\ policy = b.failurePolicy
  OBVIOUS
<1>10. w = [kind |-> type, tls |-> IF "tls" \in garbled THEN 0 ELSE b.tls,
            path |-> IF "path" \in garbled THEN 0 ELSE b.path,
            rules |-> IF "rules" \in garbled THEN {} ELSE b.rules,
            timeoutSeconds |-> timeout, failurePolicy |-> policy, ignored |-> ignored,
            additional |-> additional]
  <2>1. w = [kind |-> type, tls |-> IF "tls" \in garbled THEN 0 ELSE b.tls,
             path |-> IF "path" \in garbled THEN 0 ELSE b.path,
             rules |-> IF "rules" \in garbled THEN {} ELSE b.rules,
             timeoutSeconds |-> timeout,
             failurePolicy |-> IF b.failurePolicy = PolicyOf(m) THEN v.failurePolicy
                               ELSE b.failurePolicy,
             ignored |-> b.ignored \cup v.additionalIgnoredNamespaces,
             additional |-> [namespace \in DOMAIN b.additional |->
                               IF b.additional[namespace] = PolicyOf(m) THEN v.failurePolicy
                               ELSE b.additional[namespace]]]
    BY <1>1, <1>4, Zenon DEF createWebhookYaml
  <2> QED BY <1>6, <1>7, <1>8, <1>9, <2>1, Zenon
<1>11. w = [kind |-> type, tls |-> n, path |-> n, rules |-> rule, timeoutSeconds |-> timeout,
            failurePolicy |-> policy, ignored |-> ignored, additional |-> additional]
  BY <1>3, <1>5, <1>9, <1>10
<1>12. b = [kind |-> type, tls |-> n, path |-> n, rules |-> rule, timeoutSeconds |-> timeout,
            failurePolicy |-> policy, ignored |-> ignored, additional |-> additional]
  <2>1. PICK rule2, timeout2, policy2, ignored2, additional2 :
          b = [kind |-> type, tls |-> n, path |-> n, rules |-> rule2, timeoutSeconds |-> timeout2,
               failurePolicy |-> policy2, ignored |-> ignored2, additional |-> additional2]
    BY <1>1, Zenon DEF webhookConfigGenerator
  <2> QED BY <1>5, <1>9, <2>1
<1> QED BY <1>1, <1>11, <1>12

\* What comes from no file with a build of its own, or one that is always written.
LEMMA SameOthers ==
  ASSUME IInv, Whole, maker.status = "done",
         NEW chart, chart = Rendered(<< >>), NEW manifest, manifest = generateAllYaml(Last)
  PROVE  /\ \A x \in Object \ (WebhookType \cup {"namespace", "admission", "watcher"}) :
              chart[x] = manifest[x]
         /\ manifest["namespace"].labels \subseteq chart["namespace"].labels
<1>1. PICK m, v, n : m = Config(n) /\ v = Given(overridesFile(n), << >>) /\ n = Last
  OBVIOUS
<1>2. /\ dir["values"] = n /\ dir["tls"] = n /\ dir["path"] = n /\ dir["module"] = n
  BY <1>1, DoneFacts DEF ChartFiles, Pairs
<1>3. /\ v.rbac = rules(m) /\ v.namespaceLabels = IF m.labels = {} THEN {"pepr.dev"} ELSE m.labels
      /\ v.admissionEnabled = (isAdmission(m) \/ norWatchOrAdmission(m))
      /\ v.watcherEnabled = isWatcher(m)
      /\ v.admissionMonitor = FALSE /\ v.watcherMonitor = FALSE
  BY <1>1, OwnValues, Zenon
<1>4. chart["clusterRole"] = manifest["clusterRole"]
  BY <1>1, <1>2, <1>3 DEF Rendered, generateAllYaml, Object, WebhookType
<1>5. chart["access"] = manifest["access"]
  BY <1>1, <1>2 DEF Rendered, generateAllYaml, Object, WebhookType
<1>6. chart["tls"] = manifest["tls"]
  BY <1>1, <1>2 DEF Rendered, generateAllYaml, Object, WebhookType
<1>7. chart["path"] = manifest["path"]
  BY <1>1, <1>2 DEF Rendered, generateAllYaml, Object, WebhookType
<1>8. chart["module"] = manifest["module"]
  BY <1>1, <1>2 DEF Rendered, generateAllYaml, Object, WebhookType
<1>9. chart["admissionService"] = manifest["admissionService"]
  <2>1. chart["admissionService"] = serviceTemplate(v.admissionEnabled, "admission")
    BY <1>1, <1>2 DEF Rendered, Object, WebhookType
  <2>2. manifest["admissionService"] = service(n)
    BY <1>1 DEF generateAllYaml, Object, WebhookType
  <2>3. getDeployment(n) = Absent <=> ~(isAdmission(m) \/ norWatchOrAdmission(m))
    BY <1>1, HasDeployment
  <2> QED BY <1>3, <2>1, <2>2, <2>3 DEF serviceTemplate, service
<1>10. chart["watcherService"] = manifest["watcherService"]
  <2>1. chart["watcherService"] = serviceTemplate(v.watcherEnabled, "watcher")
    BY <1>1, <1>2 DEF Rendered, Object, WebhookType
  <2>2. manifest["watcherService"] = watcherService(n)
    BY <1>1 DEF generateAllYaml, Object, WebhookType
  <2>3. getWatcher(n) = Absent <=> ~isWatcher(m)
    BY <1>1, HasDeployment
  <2> QED BY <1>3, <2>1, <2>2, <2>3 DEF serviceTemplate, watcherService
<1>11. chart["admissionMonitor"] = manifest["admissionMonitor"]
  <2>1. chart["admissionMonitor"] =
          From("admissionMonitor", serviceMonitorTemplate(v.admissionMonitor, "admission"))
    BY <1>1, <1>2 DEF Rendered, Object, WebhookType
  <2>2. manifest["admissionMonitor"] = Absent
    BY DEF generateAllYaml, Object, WebhookType
  <2> QED BY <1>3, <2>1, <2>2 DEF From, serviceMonitorTemplate
<1>12. chart["watcherMonitor"] = manifest["watcherMonitor"]
  <2>1. chart["watcherMonitor"] =
          From("watcherMonitor", serviceMonitorTemplate(v.watcherMonitor, "watcher"))
    BY <1>1, <1>2 DEF Rendered, Object, WebhookType
  <2>2. manifest["watcherMonitor"] = Absent
    BY DEF generateAllYaml, Object, WebhookType
  <2> QED BY <1>3, <2>1, <2>2 DEF From, serviceMonitorTemplate
<1>13. manifest["namespace"].labels \subseteq chart["namespace"].labels
  <2>1. chart["namespace"] = [kind |-> "Namespace", labels |-> v.namespaceLabels]
    BY <1>1, <1>2 DEF Rendered, Object, WebhookType
  <2>2. manifest["namespace"] = [kind |-> "Namespace", labels |-> m.labels]
    BY <1>1 DEF generateAllYaml, Object, WebhookType
  <2> QED BY <1>3, <2>1, <2>2
<1>14. \A x \in Object \ (WebhookType \cup {"namespace", "admission", "watcher"}) :
         x \in {"clusterRole", "access", "tls", "path", "module", "admissionService",
                "watcherService", "admissionMonitor", "watcherMonitor"}
  BY DEF Object, WebhookType
<1> QED BY <1>4, <1>5, <1>6, <1>7, <1>8, <1>9, <1>10, <1>11, <1>12, <1>13, <1>14

\* After a build that has ended well the chart makes the objects of the manifest.
LEMMA DoneSame ==
  ASSUME IInv, Whole, OnlyWritten, Registered, maker.status = "done", Plain(Config(Last))
  PROVE  SameByChart
<1>1. PICK m, chart, manifest, n :
        /\ m = Config(n) /\ chart = Rendered(<< >>) /\ manifest = generateAllYaml(n) /\ n = Last
  OBVIOUS
<1>2. /\ n \in Nat /\ n # 0 /\ HasChart
      /\ dir["yaml"] = n /\ dir["zarf"] = n /\ dir["values"] = n
      /\ \A type \in WebhookType : HasWebhook(m, type) => dir[type] = n
  BY <1>1, DoneFacts DEF ChartFiles, HasChart
<1>3. /\ \A x \in Object \ (WebhookType \cup {"namespace", "admission", "watcher"}) :
           chart[x] = manifest[x]
      /\ manifest["namespace"].labels \subseteq chart["namespace"].labels
  BY <1>1, SameOthers
<1>4. /\ SameDeployment("watcher", m, chart["watcher"], manifest["watcher"])
      /\ ~norWatchOrAdmission(m) =>
           SameDeployment("admission", m, chart["admission"], manifest["admission"])
  BY <1>1, SameDeployments
<1>5. ASSUME NEW type \in WebhookType
      PROVE  IF HasWebhook(m, type) THEN chart[type] = manifest[type] ELSE dir[type] < n
  <2>1. CASE HasWebhook(m, type)
    <3>1. chart[type] = From(type, createWebhookYaml(dir[type], type, Given(overridesFile(n), << >>)))
      BY <1>1, <1>2 DEF Rendered, Object, WebhookType
    <3>2. chart[type] = createWebhookYaml(n, type, Given(overridesFile(n), << >>))
      BY <1>2, <2>1, <3>1 DEF From
    <3>3. manifest[type] = webhookConfigGenerator(n, type)
      BY <1>1 DEF generateAllYaml, Object, WebhookType
    <3>4. Config(n).additional \in [DOMAIN Config(n).additional -> FailurePolicy]
      BY <1>1, <1>2 DEF Registered
    <3> QED BY <1>1, <2>1, <3>2, <3>3, <3>4, SameWebhook
  <2>2. CASE ~HasWebhook(m, type)
    <3>1. type \in File
      BY DEF File, Steps, WebhookType
    <3>2. dir[type] \in 0..n
      BY <1>1, <3>1 DEF IInv, TypeOK
    <3>3. ~Writes(n, type)
      BY <1>1, <2>2 DEF Writes, WebhookType
    <3>4. dir[type] # n
      BY <1>2, <3>1, <3>3 DEF OnlyWritten
    <3> QED BY <1>2, <2>2, <3>2, <3>4
  <2> QED BY <2>1, <2>2
<1>6. ASSUME NEW x \in {"admission", "watcher"}
      PROVE  {d.image : d \in {chart[x], manifest[x]} \ {Absent}}
               \subseteq generateZarfYamlGeneric(n).images
  <2>1. generateZarfYamlGeneric(n).images = {builds[n].image}
    BY DEF generateZarfYamlGeneric
  <2>2. chart[x] # Absent => chart[x].image = builds[n].image
    <3>1. PICK v : v = Given(overridesFile(n), << >>)
      OBVIOUS
    <3>2. v.image = builds[n].image
      BY <3>1, OwnValues, Zenon
    <3>3. CASE x = "admission"
      <4>1. chart[x] = From(x, admissionDeployTemplate(dir[x], v))
        BY <1>1, <1>2, <3>1, <3>3 DEF Rendered, Object, WebhookType
      <4>2. CASE v.admissionEnabled
        <5>0. admissionDeployTemplate(dir[x], v) =
                Pod("admission", 2, "RollingUpdate", dir[x], v.hash, v.image, v.ids,
                      TemplateEnv(v, v.admissionEnv, "false"), {"tls", "path", "module"},
                      "system-node-critical", v.podLabels, {})
          BY <4>2, ChartPods
        <5>1. PICK strategy, stamp, hash, ids, env, mounts, priority, labels, secrets :
                admissionDeployTemplate(dir[x], v) =
                  Pod("admission", 2, strategy, stamp, hash, v.image, ids, env, mounts, priority,
                      labels, secrets)
          BY <5>0, Zenon
        <5>2. admissionDeployTemplate(dir[x], v).image = v.image
          BY <5>1, PodFacts
        <5> QED BY <3>2, <4>1, <5>2 DEF From
      <4>3. CASE ~v.admissionEnabled
        BY <4>1, <4>3 DEF From, admissionDeployTemplate
      <4> QED BY <4>2, <4>3
    <3>4. CASE x = "watcher"
      <4>1. chart[x] = From(x, watcherDeployTemplate(dir[x], v))
        BY <1>1, <1>2, <3>1, <3>4 DEF Rendered, Object, WebhookType
      <4>2. CASE v.watcherEnabled
        <5>0. watcherDeployTemplate(dir[x], v) =
                Pod("watcher", 1, "Recreate", dir[x], v.hash, v.image, v.ids,
                      TemplateEnv(v, v.watcherEnv, "true"), {"tls", "module"}, "", {}, {})
          BY <4>2, ChartPods
        <5>1. PICK strategy, stamp, hash, ids, env, mounts, priority, labels, secrets :
                watcherDeployTemplate(dir[x], v) =
                  Pod("watcher", 1, strategy, stamp, hash, v.image, ids, env, mounts, priority,
                      labels, secrets)
          BY <5>0, Zenon
        <5>2. watcherDeployTemplate(dir[x], v).image = v.image
          BY <5>1, PodFacts
        <5> QED BY <3>2, <4>1, <5>2 DEF From
      <4>3. CASE ~v.watcherEnabled
        BY <4>1, <4>3 DEF From, watcherDeployTemplate
      <4> QED BY <4>2, <4>3
    <3> QED BY <3>3, <3>4
  <2>3. manifest[x] # Absent => manifest[x].image = builds[n].image
    <3>1. CASE x = "admission"
      <4>1. manifest[x] = getDeployment(n)
        BY <1>1, <3>1 DEF generateAllYaml, Object, WebhookType
      <4>2. CASE isAdmission(Config(n)) \/ norWatchOrAdmission(Config(n))
        <5>1. PICK ids, hash, env, mounts, secrets :
                getDeployment(n) = Pod("admission", 2, "RollingUpdate", n, hash, builds[n].image, ids,
                                       env, mounts, "system-node-critical", {}, secrets)
          BY <4>2, ManifestPods, Zenon
        <5> QED BY <4>1, <5>1, PodFacts
      <4>3. CASE ~(isAdmission(Config(n)) \/ norWatchOrAdmission(Config(n)))
        BY <4>1, <4>3, HasDeployment
      <4> QED BY <4>2, <4>3
    <3>2. CASE x = "watcher"
      <4>1. manifest[x] = getWatcher(n)
        BY <1>1, <3>2 DEF generateAllYaml, Object, WebhookType
      <4>2. CASE isWatcher(Config(n))
        <5>1. PICK strategy, hash, ids, env, mounts, priority, labels, secrets :
                getWatcher(n) = Pod("watcher", 1, strategy, n, hash, builds[n].image, ids, env,
                                    mounts, priority, labels, secrets)
          BY <4>2, ManifestPods, Zenon
        <5> QED BY <4>1, <5>1, PodFacts
      <4>3. CASE ~isWatcher(Config(n))
        BY <4>1, <4>3, HasDeployment
      <4> QED BY <4>2, <4>3
    <3> QED BY <3>1, <3>2
  <2> QED BY <2>1, <2>2, <2>3
<1> QED BY <1>1, <1>2, <1>3, <1>4, <1>5, <1>6, Zenon DEF SameByChart

\* What is built is of a project.
LEMMA RegisteredStep == ASSUME IInv, Registered, [Next]_vars PROVE Registered'
<1>1. CASE UNCHANGED builds
  BY <1>1 DEF Registered, Config, Last
<1>2. ASSUME NEW m \in Project, NEW opts \in Options, NEW digits \in Digits, Build(m, opts, digits)
      PROVE  Registered'
  <2>1. PICK S : builds \in Seq(S)
    BY DEF IInv, IsBuilds
  <2>2. PICK mode, timeout, config :
          /\ config = [m EXCEPT !.rbacMode = mode, !.webhookTimeout = timeout]
          /\ Made(m, opts, digits).config = config
    BY DEF Made
  <2>3. /\ {"chains", "additional"} \subseteq DOMAIN m /\ \A chain \in m.chains : WellTyped(chain)
        /\ m.additional \in [DOMAIN m.additional -> FailurePolicy]
    BY ChartAssumption
  <2>4. config.chains = m.chains /\ config.additional = m.additional
    BY <2>2, <2>3
  <2>5. PICK made : made = Made(m, opts, digits)
    OBVIOUS
  <2>6. builds' = Append(builds, made) /\ builds \in Seq(S \cup {made})
    BY <1>2, <2>1, <2>5 DEF Build
  <2>7. Last' = Last + 1 /\ Last \in Nat /\ builds'[Last + 1] = made
        /\ \A n \in 1..Last : builds'[n] = builds[n]
    BY <2>6 DEF Last
  <2>8. ASSUME NEW n \in 1..(Last + 1), NEW chain \in builds'[n].config.chains PROVE WellTyped(chain)
    <3>1. CASE n = Last + 1
      BY <2>2, <2>3, <2>4, <2>5, <2>7, <2>8, <3>1
    <3>2. CASE n \in 1..Last
      BY <2>7, <2>8, <3>2 DEF Registered, Config
    <3> QED BY <2>7, <3>1, <3>2
  <2>9. ASSUME NEW n \in 1..(Last + 1)
        PROVE  builds'[n].config.additional \in [DOMAIN builds'[n].config.additional -> FailurePolicy]
    <3>1. CASE n = Last + 1
      BY <2>2, <2>3, <2>4, <2>5, <2>7, <3>1
    <3>2. CASE n \in 1..Last
      BY <2>7, <3>2 DEF Registered, Config
    <3> QED BY <2>7, <3>1, <3>2
  <2> QED BY <2>7, <2>8, <2>9 DEF Registered, Config
<1> QED BY <1>1, <1>2 DEF Next, Refused, Step, StepFails, Clean, HelmUpgrade, KubectlApply, vars

\* Whatever other builds left in the directory and wherever they failed, after a build
\* of a plain project that has ended well the chart makes the objects of the manifest.
THEOREM ChartIsManifest == Spec => [](Plain(Config(Last)) => SameByChart)
<1>1. Init => Registered
  BY DEF Init, Registered, Last
<1>2. Spec => []Registered
  BY <1>1, RegisteredStep, Invariance, PTL DEF Spec
<1>3. IInv /\ Whole /\ OnlyWritten /\ Registered => (Plain(Config(Last)) => SameByChart)
  <2>1. CASE maker.status # "done"
    BY <2>1 DEF SameByChart
  <2> QED BY <2>1, DoneSame
<1> QED BY <1>2, <1>3, Invariance, WholeBuilds, PTL

\* The values that go into a webhook, as a user may have set them.
LEMMA GivenValues ==
  ASSUME NEW n, NEW override
  PROVE  LET v == Given(overridesFile(n), override)
             m == Config(n)
         IN /\ v.failurePolicy = ValueOf(override, "failurePolicy", PolicyOf(m))
            /\ v.webhookTimeout = ValueOf(override, "webhookTimeout", m.webhookTimeout)
            /\ v.additionalIgnoredNamespaces =
                 ValueOf(override, "additionalIgnoredNamespaces", getIgnoreNamespaces(m))
<1>1. PICK w, m : w = overridesFile(n) /\ m = Config(n)
  OBVIOUS
<1>2. /\ w.failurePolicy = PolicyOf(m) /\ w.webhookTimeout = m.webhookTimeout
      /\ w.additionalIgnoredNamespaces = getIgnoreNamespaces(m)
      /\ {"failurePolicy", "webhookTimeout", "additionalIgnoredNamespaces"} \subseteq DOMAIN w
  BY <1>1 DEF overridesFile
<1>3. PICK v : v = Given(w, override)
  OBVIOUS
<1>4. v.failurePolicy = ValueOf(override, "failurePolicy", PolicyOf(m))
  BY <1>2, <1>3 DEF Given, ValueOf, Maps
<1>5. v.webhookTimeout = ValueOf(override, "webhookTimeout", m.webhookTimeout)
  BY <1>2, <1>3 DEF Given, ValueOf, Maps
<1>6. v.additionalIgnoredNamespaces =
        ValueOf(override, "additionalIgnoredNamespaces", getIgnoreNamespaces(m))
  BY <1>2, <1>3 DEF Given, ValueOf, Maps
<1> QED BY <1>1, <1>3, <1>4, <1>5, <1>6, Zenon

\* A webhook to whose values a user adds none.
LEMMA BuiltWebhook ==
  ASSUME NEW n, NEW type, HasWebhook(Config(n), type), NEW b, b = webhookConfigGenerator(n, type),
         NEW built, built = createWebhookYaml(n, type, Given(overridesFile(n), << >>))
  PROVE  /\ built.timeoutSeconds = b.timeoutSeconds /\ built.rules = b.rules
         /\ built.failurePolicy = PolicyOf(Config(n)) /\ built.ignored = b.ignored
         /\ DOMAIN built.additional = DOMAIN b.additional
         /\ \A namespace \in DOMAIN b.additional :
              built.additional[namespace] = b.additional[namespace]
<1>1. PICK v : v = Given(overridesFile(n), << >>)
  OBVIOUS
<1>2. /\ v.additionalIgnoredNamespaces = getIgnoreNamespaces(Config(n))
      /\ v.failurePolicy = PolicyOf(Config(n)) /\ v.webhookTimeout = Config(n).webhookTimeout
  BY <1>1, OwnValues, Zenon
<1>3. /\ b.timeoutSeconds = IF Config(n).webhookTimeout = 0 THEN 10 ELSE Config(n).webhookTimeout
      /\ b.kind = type /\ getIgnoreNamespaces(Config(n)) \subseteq b.ignored
  BY Generated
<1>4. /\ built.kind = type /\ built.failurePolicy = v.failurePolicy
      /\ built.rules = IF "rules" \in Garbled(n, built) THEN {} ELSE b.rules
      /\ built.timeoutSeconds = IF Config(n).webhookTimeout = 0 THEN b.timeoutSeconds
                                ELSE v.webhookTimeout
      /\ built.ignored = b.ignored \cup v.additionalIgnoredNamespaces
  BY <1>1, Filled
<1>5. /\ DOMAIN built.additional = DOMAIN b.additional
      /\ \A namespace \in DOMAIN b.additional :
           built.additional[namespace] =
             IF b.additional[namespace] = PolicyOf(Config(n)) THEN v.failurePolicy
             ELSE b.additional[namespace]
  BY <1>1, Filled
<1>6. built.timeoutSeconds = b.timeoutSeconds
  BY <1>2, <1>3, <1>4
<1>7. Garbled(n, built) = {}
  BY <1>4, <1>6 DEF Garbled
<1>8. built.rules = b.rules /\ built.ignored = b.ignored
  BY <1>2, <1>3, <1>4, <1>7
<1> QED BY <1>2, <1>4, <1>5, <1>6, <1>8

\* What accepted values change in a webhook.
LEMMA ReachWebhook ==
  ASSUME NEW n, n # 0, NEW override, accepts(overridesFile(n), override),
         NEW type, HasWebhook(Config(n), type),
         NEW built, built = createWebhookYaml(n, type, Given(overridesFile(n), << >>)),
         NEW now, now = createWebhookYaml(n, type, Given(overridesFile(n), override)),
         NEW ignored, ignored = ValueOf(override, "additionalIgnoredNamespaces", {})
  PROVE  LET policy(p) == IF p = built.failurePolicy
                          THEN ValueOf(override, "failurePolicy", p) ELSE p
         IN
         /\ \A namespace :
              PolicyIn(now, namespace) =
                IF namespace \in ignored \ DOMAIN built.additional THEN "none"
                ELSE policy(PolicyIn(built, namespace))
         /\ now.timeoutSeconds = ValueOf(override, "webhookTimeout", built.timeoutSeconds)
         /\ now.tls = n <=> "tls" \notin Garbled(n, now)
         /\ now.path = n <=> "path" \notin Garbled(n, now)
         /\ now.rules = built.rules <=> "rules" \notin Garbled(n, now)
<1>1. PICK m, v, b : /\ m = Config(n) /\ v = Given(overridesFile(n), override)
                     /\ b = webhookConfigGenerator(n, type)
  OBVIOUS
<1>2. /\ v.failurePolicy = ValueOf(override, "failurePolicy", PolicyOf(m))
      /\ v.webhookTimeout = ValueOf(override, "webhookTimeout", m.webhookTimeout)
      /\ v.additionalIgnoredNamespaces =
           ValueOf(override, "additionalIgnoredNamespaces", getIgnoreNamespaces(m))
  BY <1>1, GivenValues, Zenon
<1>3. /\ b.timeoutSeconds = IF m.webhookTimeout = 0 THEN 10 ELSE m.webhookTimeout
      /\ getIgnoreNamespaces(m) \subseteq b.ignored
      /\ b.rules = {<<x.kind, x.event>> : x \in {y \in Bindings(m) : IsOfType(y, type)}}
  BY <1>1, Generated
<1>4. /\ built.timeoutSeconds = b.timeoutSeconds /\ built.rules = b.rules
      /\ built.failurePolicy = PolicyOf(m) /\ built.ignored = b.ignored
      /\ DOMAIN built.additional = DOMAIN b.additional
      /\ \A namespace \in DOMAIN b.additional :
           built.additional[namespace] = b.additional[namespace]
  BY <1>1, BuiltWebhook
<1>5. /\ now.failurePolicy = v.failurePolicy
      /\ now.tls = IF "tls" \in Garbled(n, now) THEN 0 ELSE n
      /\ now.path = IF "path" \in Garbled(n, now) THEN 0 ELSE n
      /\ now.rules = IF "rules" \in Garbled(n, now) THEN {} ELSE b.rules
      /\ now.timeoutSeconds = IF m.webhookTimeout = 0 THEN b.timeoutSeconds ELSE v.webhookTimeout
      /\ now.ignored = b.ignored \cup v.additionalIgnoredNamespaces
  BY <1>1, Filled
<1>6. /\ DOMAIN now.additional = DOMAIN b.additional
      /\ \A namespace \in DOMAIN b.additional :
           now.additional[namespace] = IF b.additional[namespace] = PolicyOf(m) THEN v.failurePolicy
                                       ELSE b.additional[namespace]
  BY <1>1, Filled
<1>7. now.timeoutSeconds = ValueOf(override, "webhookTimeout", built.timeoutSeconds)
  <2>1. m.webhookTimeout = 0 => "webhookTimeout" \notin DOMAIN override
    <3>1. overridesFile(n).webhookTimeout = m.webhookTimeout
      BY <1>1 DEF overridesFile
    <3> QED BY <3>1 DEF accepts
  <2> QED BY <1>2, <1>3, <1>4, <1>5, <2>1 DEF ValueOf
<1>8. b.rules # {}
  BY <1>1, <1>3 DEF HasWebhook
<1>9. now.ignored = built.ignored \cup ignored
  BY <1>2, <1>3, <1>4, <1>5 DEF ValueOf
<1>10. PolicyOf(m) # "none"
  BY DEF PolicyOf
<1>11. ASSUME NEW namespace
       PROVE  PolicyIn(now, namespace) =
                IF namespace \in ignored \ DOMAIN built.additional THEN "none"
                ELSE IF PolicyIn(built, namespace) = built.failurePolicy
                     THEN ValueOf(override, "failurePolicy", PolicyIn(built, namespace))
                     ELSE PolicyIn(built, namespace)
  <2>1. CASE namespace \in DOMAIN b.additional
    <3>1. /\ PolicyIn(now, namespace) = now.additional[namespace]
          /\ PolicyIn(built, namespace) = b.additional[namespace]
      BY <1>4, <1>6, <2>1 DEF PolicyIn
    <3> QED BY <1>2, <1>4, <1>6, <2>1, <3>1
  <2>2. CASE namespace \notin DOMAIN b.additional /\ namespace \in now.ignored
    <3>1. PolicyIn(now, namespace) = "none"
      BY <1>6, <2>2 DEF PolicyIn
    <3>2. namespace \in built.ignored => PolicyIn(built, namespace) = "none"
      BY <1>4, <2>2 DEF PolicyIn
    <3> QED BY <1>4, <1>9, <1>10, <2>2, <3>1, <3>2
  <2>3. CASE namespace \notin DOMAIN b.additional /\ namespace \notin now.ignored
    <3>1. /\ PolicyIn(now, namespace) = now.failurePolicy
          /\ PolicyIn(built, namespace) = built.failurePolicy
      BY <1>4, <1>6, <1>9, <2>3 DEF PolicyIn
    <3> QED BY <1>2, <1>4, <1>5, <1>9, <2>3, <3>1
  <2> QED BY <2>1, <2>2, <2>3
<1>12. /\ now.tls = n <=> "tls" \notin Garbled(n, now)
       /\ now.path = n <=> "path" \notin Garbled(n, now)
       /\ now.rules = built.rules <=> "rules" \notin Garbled(n, now)
  BY <1>4, <1>5, <1>8
<1> QED BY <1>7, <1>11, <1>12, Zenon

\* The pods of a chart skip the namespaces that its values name.
LEMMA PodsSkip ==
  ASSUME NEW m, NEW stamp, NEW v, NEW d, d = admissionDeployTemplate(stamp, v), d # Absent
  PROVE  v.additionalIgnoredNamespaces \subseteq IgnoredBy("admission", m, d.env)
<1>1. PICK env, image, hash, ids, labels :
        /\ d = Pod("admission", 2, "RollingUpdate", stamp, hash, image, ids, env,
                   {"tls", "path", "module"}, "system-node-critical", labels, {})
        /\ env = TemplateEnv(v, v.admissionEnv, "false")
  BY ChartPods, Zenon
<1>2. d.env = env
  BY <1>1, PodFacts
<1>3. PICK inner : inner = Over([PEPR_WATCH_MODE |-> "false"], v.admissionEnv)
  OBVIOUS
<1>4. CASE v.additionalIgnoredNamespaces # {}
  <2>1. PICK added : added = [PEPR_ADDITIONAL_IGNORED_NAMESPACES |-> v.additionalIgnoredNamespaces]
    OBVIOUS
  <2>2. env = Over(added, inner)
    BY <1>1, <1>3, <1>4, <2>1 DEF TemplateEnv
  <2>3. DOMAIN added = {AddedNamespaces} /\ added[AddedNamespaces] = v.additionalIgnoredNamespaces
    BY <2>1 DEF AddedNamespaces
  <2>4. AddedNamespaces \in DOMAIN env /\ env[AddedNamespaces] = v.additionalIgnoredNamespaces
    BY <2>2, <2>3 DEF Over
  <2> QED BY <1>2, <2>4 DEF IgnoredBy
<1> QED BY <1>4

\* Values reach what they are documented to change.
LEMMA DoneReach ==
  ASSUME IInv, Whole, maker.status = "done"
  PROVE  OverridesReach
<1>1. PICK n, m : n = Last /\ m = Config(n)
  OBVIOUS
<1>2. /\ n \in Nat /\ n # 0 /\ dir["values"] = n /\ dir["schema"] = n
      /\ dir["tls"] = n /\ dir["path"] = n
      /\ \A type \in WebhookType : HasWebhook(m, type) => dir[type] = n
  BY <1>1, DoneFacts DEF ChartFiles, Pairs
<1>3. ASSUME NEW o, NEW type \in WebhookType, HasWebhook(m, type)
      PROVE  Rendered(o)[type] = createWebhookYaml(n, type, Given(overridesFile(n), o))
  <2>1. PICK v : v = Given(overridesFile(n), o)
    OBVIOUS
  <2>2. Rendered(o)[type] = From(type, createWebhookYaml(dir[type], type, v))
    BY <1>2, <2>1 DEF Rendered, Object, WebhookType
  <2> QED BY <1>2, <1>3, <2>1, <2>2 DEF From
<1>4. ASSUME NEW o
      PROVE  /\ Rendered(o)["tls"].data = n /\ Rendered(o)["path"].data = n
             /\ Rendered(o)["admission"] \in
                  {Absent, admissionDeployTemplate(dir["admission"], Given(overridesFile(n), o))}
  <2>1. PICK given, v : given = Rendered(o) /\ v = Given(overridesFile(n), o)
    OBVIOUS
  <2>2. given["tls"] = [kind |-> "Secret", data |-> n]
    BY <1>2, <2>1 DEF Rendered, Object, WebhookType
  <2>3. given["path"] = [kind |-> "Secret", data |-> n]
    BY <1>2, <2>1 DEF Rendered, Object, WebhookType
  <2>4. given["admission"] = From("admission", admissionDeployTemplate(dir["admission"], v))
    BY <1>2, <2>1 DEF Rendered, Object, WebhookType
  <2> QED BY <2>1, <2>2, <2>3, <2>4 DEF From
<1>5. ASSUME NEW override \in Override, NEW v, v = overridesFile(n), ~accepts(v, override)
      PROVE  \E k \in DOMAIN override : k = "webhookTimeout" \/ (k \in Maps /\ v[k] # {})
  BY <1>5 DEF accepts, fixSchemaForFlexibleMaps
<1>6. ASSUME NEW override \in Override, accepts(overridesFile(n), override),
             NEW type \in WebhookType, HasWebhook(m, type)
      PROVE  LET built == Rendered(<< >>)[type]
                 now == Rendered(override)[type]
                 ignored == ValueOf(override, "additionalIgnoredNamespaces", {})
                 policy(p) == IF p = built.failurePolicy
                              THEN ValueOf(override, "failurePolicy", p) ELSE p
             IN /\ \A namespace \in Namespace :
                     PolicyIn(now, namespace) =
                       IF namespace \in ignored \ DOMAIN built.additional THEN "none"
                       ELSE policy(PolicyIn(built, namespace))
                /\ now.timeoutSeconds = ValueOf(override, "webhookTimeout", built.timeoutSeconds)
                /\ now.tls = Rendered(override)["tls"].data <=> "tls" \notin Garbled(Last, now)
                /\ now.path = Rendered(override)["path"].data <=> "path" \notin Garbled(Last, now)
                /\ now.rules = built.rules <=> "rules" \notin Garbled(Last, now)
  <2>1. PICK built, now, ignored :
          /\ built = Rendered(<< >>)[type] /\ now = Rendered(override)[type]
          /\ ignored = ValueOf(override, "additionalIgnoredNamespaces", {})
    OBVIOUS
  <2>2. /\ built = createWebhookYaml(n, type, Given(overridesFile(n), << >>))
        /\ now = createWebhookYaml(n, type, Given(overridesFile(n), override))
    BY <1>3, <1>6, <2>1
  <2>3. /\ \A namespace :
             PolicyIn(now, namespace) =
               IF namespace \in ignored \ DOMAIN built.additional THEN "none"
               ELSE IF PolicyIn(built, namespace) = built.failurePolicy
                    THEN ValueOf(override, "failurePolicy", PolicyIn(built, namespace))
                    ELSE PolicyIn(built, namespace)
        /\ now.timeoutSeconds = ValueOf(override, "webhookTimeout", built.timeoutSeconds)
        /\ now.tls = n <=> "tls" \notin Garbled(n, now)
        /\ now.path = n <=> "path" \notin Garbled(n, now)
        /\ now.rules = built.rules <=> "rules" \notin Garbled(n, now)
    BY <1>1, <1>2, <1>6, <2>1, <2>2, ReachWebhook
  <2>4. Rendered(override)["tls"].data = n /\ Rendered(override)["path"].data = n /\ Last = n
    BY <1>1, <1>4
  <2> QED BY <2>1, <2>3, <2>4, Zenon
<1>7. ASSUME NEW override \in Override, Rendered(override)["admission"] # Absent
      PROVE  ValueOf(override, "additionalIgnoredNamespaces", {})
               \subseteq IgnoredBy("admission", Config(Last), Rendered(override)["admission"].env)
  <2>1. PICK v, d, stamp :
          /\ v = Given(overridesFile(n), override) /\ d = Rendered(override)["admission"]
          /\ stamp = dir["admission"]
    OBVIOUS
  <2>2. d = admissionDeployTemplate(stamp, v) /\ d # Absent
    BY <1>4, <1>7, <2>1
  <2>3. v.additionalIgnoredNamespaces \subseteq IgnoredBy("admission", m, d.env)
    BY <2>2, PodsSkip
  <2>4. v.additionalIgnoredNamespaces =
          ValueOf(override, "additionalIgnoredNamespaces", getIgnoreNamespaces(m))
    BY <1>1, <2>1, GivenValues, Zenon
  <2>5. ValueOf(override, "additionalIgnoredNamespaces", {}) \subseteq v.additionalIgnoredNamespaces
    BY <2>4 DEF ValueOf
  <2> QED BY <1>1, <2>1, <2>3, <2>5
<1>8. overridesFile(dir["schema"]) = overridesFile(n) /\ overridesFile(dir["values"]) = overridesFile(n)
  BY <1>2
<1>9. \A type \in {t \in WebhookType : HasWebhook(Config(Last), t)} :
        type \in WebhookType /\ HasWebhook(m, type)
  BY <1>1
<1> QED BY <1>5, <1>6, <1>7, <1>8, <1>9, Zenon DEF OverridesReach

\* Whatever was in the directory and whatever texts the digits of a timeout occur in,
\* values given after a build that has ended well reach each namespace, or are refused
\* for a reason.
THEOREM ValuesReach == Spec => []OverridesReach
<1>1. IInv /\ Whole => OverridesReach
  <2>1. CASE maker.status # "done"
    BY <2>1 DEF OverridesReach
  <2> QED BY <2>1, DoneReach
<1> QED BY <1>1, Invariance, WholeBuilds, PTL
=============================================================================

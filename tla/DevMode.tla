------------------------------ MODULE DevMode ------------------------------
(***************************************************************************)
(* npx pepr dev (cli/dev.ts): esbuild rebuilds the module with every edit  *)
(* and calls the reloader, which kills the module's process; when that has *)
(* exited, the webhooks are deployed anew (assets/deploy.ts) and the file  *)
(* on disk is run. When a process's streams have closed, whatever ended    *)
(* it, both webhooks are deleted. All of this but the module's process     *)
(* happens in one Node process, between whose awaits anything may come.    *)
(*                                                                         *)
(* Certificate and API path are made once; versions of the code are told   *)
(* apart by their number. webhooks[v] is what version v registers.         *)
(***************************************************************************)
EXTENDS Integers, FiniteSets

CONSTANTS
  MaxEdits, MaxCrashes,  \* bounds
  webhooks,              \* webhooks[v] \subseteq {"mutate", "validate"}
  Broken, Throws         \* versions esbuild reports errors of, and that throw when loaded

ASSUME DevAssumption ==
  /\ MaxEdits \in Nat \ {0} /\ MaxCrashes \in Nat
  /\ webhooks \in [1..MaxEdits -> SUBSET {"mutate", "validate"}]
  /\ Broken \subseteq 2..MaxEdits   \* the first has been through tsc
  /\ Throws \subseteq 1..MaxEdits

WebhookType == {"mutate", "validate"}
Version == 0..MaxEdits
Process == 1..2 * (MaxEdits + 1)

VARIABLES
  source,   \* the version a developer has saved
  esbuild,  \* [seen, step]: the version last built, and whether onEnd is under way
  file,     \* the version in dist; 0 if none
  program,  \* the process dev knows; 0 if none yet
  proc,     \* proc[p]: [stage, code, handlers : how many runFork wait for its exit]
  runs,     \* calls of runFork under way: records [id, step]
  capabilities, \* of the assets, which all the calls share: the version they are of
  deletes,  \* deletions of webhooks under way, [of, type]
  webhook,  \* webhook[t]: the version whose capabilities it was made from; 0 if absent
  crashes,
  \* History, which no step depends on:
  overtaken, \* whether the last reload came while the program was being replaced
  doubled,   \* reloads that came when the program was killed already, and not yet gone
  raced      \* raced[t]: whether a deletion of webhook t was under way when it was last deployed

history == <<overtaken, doubled, raced>>
vars == <<source, esbuild, file, program, proc, runs, capabilities, deletes, webhook, crashes, history>>

NoProcess == [stage |-> "none", code |-> 0, handlers |-> 0]
Alive == {"started", "listening", "killed"}
Living == {p \in Process : proc[p].stage \in Alive}

Init ==
  /\ source = 1 /\ esbuild = [seen |-> 0, step |-> "idle"] /\ file = 0
  /\ program = 0 /\ proc = [p \in Process |-> NoProcess]
  /\ runs = {} /\ capabilities = 0 /\ deletes = {}
  /\ webhook = [t \in WebhookType |-> 0]
  /\ crashes = 0
  /\ overtaken = FALSE /\ doubled = 0 /\ raced = [t \in WebhookType |-> FALSE]

Edit ==
  /\ source < MaxEdits /\ source' = source + 1
  /\ UNCHANGED <<esbuild, file, program, proc, runs, deletes, capabilities, webhook, crashes, history>>

\* A rebuild, after the last call of onEnd has been awaited. With errors in the code
\* nothing is written, and the reloader returns at once.
Rebuild ==
  /\ esbuild.step = "idle" /\ esbuild.seen # source
  /\ IF source \in Broken
     THEN UNCHANGED file /\ esbuild' = [seen |-> source, step |-> "idle"]
     ELSE file' = source /\ esbuild' = [seen |-> source, step |-> "onEnd"]
  /\ UNCHANGED <<source, program, proc, runs, deletes, capabilities, webhook, crashes, history>>

NextRun == Cardinality({p \in Process : proc[p].stage # "none"}) + Cardinality(runs) + 1

Calls(n) == {[id |-> NextRun + i, step |-> "load"] : i \in 0..(n - 1)}

Killed(p) == p \in Living /\ proc[p].stage = "killed"

\* Mutant of Reload: the module is run again at once.
ReloadAtOnce ==
  /\ esbuild.step = "onEnd"
  /\ esbuild' = [esbuild EXCEPT !.step = "idle"]
  /\ runs' = runs \cup Calls(1)
  /\ proc' = IF program \in Living THEN [proc EXCEPT ![program].stage = "killed"] ELSE proc
  /\ doubled' = IF Killed(program) THEN doubled + 1 ELSE doubled
  /\ UNCHANGED <<source, file, program, deletes, capabilities, webhook, crashes, overtaken, raced>>

\* The reloader. The first run is awaited; later ones wait for the exit of the program,
\* which for one that has exited never comes. One that was killed already, and has not
\* exited yet, gets another handler.
Reload ==
  /\ esbuild.step = "onEnd"
  /\ esbuild' = [esbuild EXCEPT !.step = IF program = 0 THEN "running" ELSE "idle"]
  /\ runs' = IF program = 0 THEN runs \cup Calls(1) ELSE runs
  /\ proc' = IF program \in Living
             THEN [proc EXCEPT ![program].stage = "killed", ![program].handlers = @ + 1]
             ELSE proc
  /\ overtaken' = (program # 0 /\ program \notin Living)
  /\ doubled' = IF Killed(program) THEN doubled + 1 ELSE doubled
  /\ UNCHANGED <<source, file, program, deletes, capabilities, webhook, crashes, raced>>

\* The killed process is gone: "exit" calls what waits for it, "close" starts to delete.
Exit(p) ==
  /\ proc[p].stage = "killed"
  /\ proc' = [proc EXCEPT ![p].stage = "gone", ![p].handlers = 0]
  /\ runs' = runs \cup Calls(proc[p].handlers)
  /\ deletes' = deletes \cup {[of |-> p, type |-> t] : t \in WebhookType}
  /\ UNCHANGED <<source, esbuild, file, program, capabilities, webhook, crashes, history>>

\* The module's process ends by itself: nothing waits for its exit.
Crash(p) ==
  /\ proc[p].stage \in {"started", "listening"}
  /\ crashes < MaxCrashes /\ crashes' = crashes + 1
  /\ proc' = [proc EXCEPT ![p].stage = "gone"]
  /\ deletes' = deletes \cup {[of |-> p, type |-> t] : t \in WebhookType}
  /\ UNCHANGED <<source, esbuild, file, program, runs, capabilities, webhook, history>>

Delete(d) ==
  /\ d \in deletes /\ deletes' = deletes \ {d}
  /\ webhook' = [webhook EXCEPT ![d.type] = 0]
  /\ UNCHANGED <<source, esbuild, file, program, proc, runs, capabilities, crashes, history>>

(***************************************************************************)
(* runFork.                                                                *)
(***************************************************************************)

Goes(r, step) == runs' = (runs \ {r}) \cup {[r EXCEPT !.step = step]}

\* Mutant of LoadCapabilities: they are loaded for the first deployment only.
LoadOnce(r) ==
  /\ r \in runs /\ r.step = "load"
  /\ capabilities' = IF capabilities = 0 THEN file ELSE capabilities
  /\ Goes(r, "mutate")
  /\ UNCHANGED <<source, esbuild, file, program, proc, deletes, webhook, crashes, history>>

\* The file on disk is run in build mode to send what it registers. loadCapabilities waits
\* for that or for an error of the fork: a module that throws sends neither.
LoadCapabilities(r) ==
  /\ r \in runs /\ r.step = "load"
  /\ IF file \in Throws THEN Goes(r, "hung") /\ UNCHANGED capabilities
                        ELSE Goes(r, "mutate") /\ capabilities' = file
  /\ UNCHANGED <<source, esbuild, file, program, proc, deletes, webhook, crashes, history>>

\* deployWebhook, of which a host leaves the webhooks and the CRD.
ApplyWebhook(r) ==
  /\ r \in runs /\ r.step \in WebhookType
  /\ webhook' = [webhook EXCEPT ![r.step] = 
                  IF r.step \in webhooks[capabilities] THEN capabilities ELSE 0]
  /\ raced' = [raced EXCEPT ![r.step] = \E d \in deletes : d.type = r.step]
  /\ Goes(r, IF r.step = "mutate" THEN "validate" ELSE "fork")
  /\ UNCHANGED <<source, esbuild, file, program, proc, deletes, capabilities, crashes,
                 overtaken, doubled>>

\* Mutant of Fork: the version that was loaded is run, not the file as it is now.
ForkLoaded(r) ==
  /\ r \in runs /\ r.step = "fork"
  /\ program' = r.id
  /\ proc' = [proc EXCEPT ![r.id] = [stage |-> "started", code |-> capabilities, handlers |-> 0]]
  /\ runs' = runs \ {r}
  /\ esbuild' = IF esbuild.step = "running" THEN [esbuild EXCEPT !.step = "idle"] ELSE esbuild
  /\ UNCHANGED <<source, file, deletes, capabilities, webhook, crashes, history>>

\* The file as it is now is run, and the reloader's first call returns.
Fork(r) ==
  /\ r \in runs /\ r.step = "fork"
  /\ program' = r.id
  /\ proc' = [proc EXCEPT ![r.id] = [stage |-> "started", code |-> file, handlers |-> 0]]
  /\ runs' = runs \ {r}
  /\ esbuild' = IF esbuild.step = "running" THEN [esbuild EXCEPT !.step = "idle"] ELSE esbuild
  /\ UNCHANGED <<source, file, deletes, capabilities, webhook, crashes, history>>

\* The server of the process; while another has the port, it tries every two seconds.
Listen(p) ==
  /\ proc[p].stage = "started"
  /\ ~ \E q \in Living : q # p /\ proc[q].stage # "started"
  /\ proc' = [proc EXCEPT ![p].stage = "listening"]
  /\ UNCHANGED <<source, esbuild, file, program, runs, deletes, capabilities, webhook, crashes, history>>

Next ==
  \/ Edit
  \/ Rebuild
  \/ Reload
  \/ \E p \in Process : Exit(p)
  \/ \E p \in Process : Crash(p)
  \/ \E d \in deletes : Delete(d)
  \/ \E r \in runs : LoadCapabilities(r)
  \/ \E r \in runs : ApplyWebhook(r)
  \/ \E r \in runs : Fork(r)
  \/ \E p \in Process : Listen(p)

Spec == Init /\ [][Next]_vars

\* Node, esbuild and the API server go on; nobody has to edit.
FairSpec ==
  /\ Spec
  /\ WF_vars(Rebuild) /\ WF_vars(Reload)
  /\ \A p \in Process : WF_vars(Exit(p)) /\ WF_vars(Listen(p))
  /\ WF_vars(\E d \in deletes : Delete(d))
  /\ WF_vars(\E r \in runs : LoadCapabilities(r) \/ ApplyWebhook(r) \/ Fork(r))

(***************************************************************************)
(* Properties.                                                             *)
(***************************************************************************)

\* What is run, loaded and deployed are versions there have been.
TypeOK ==
  /\ source \in Version \ {0} /\ {file, capabilities} \subseteq 0..source /\ program \in Nat
  /\ esbuild \in [seen : 0..source, step : {"idle", "onEnd", "running"}]
  /\ proc \in [Process -> [stage : {"none", "gone"} \cup Alive, code : 0..source, handlers : Nat]]
  /\ runs \subseteq [id : Nat, step : {"load", "hung", "fork"} \cup WebhookType]
  /\ deletes \subseteq [of : Process, type : WebhookType]
  /\ webhook \in [WebhookType -> 0..source]
  /\ crashes \in 0..MaxCrashes
  /\ overtaken \in BOOLEAN /\ doubled \in Nat /\ raced \in [WebhookType -> BOOLEAN]

\* However edits, kills, deployments and crashes interleave, there is one process of the
\* module and, since every handler runs it again, at most one more for each reload that
\* found the process killed and not yet gone. They would run every schedule and watch.
OneProcess == Cardinality(Living) <= 1 + doubled

\* A version that throws when loaded leaves runFork waiting, which later edits do not mend.
Hung == \E r \in runs : r.step = "hung"

\* When the edits end, the last version that could be built is the one in the process dev
\* knows, also if it was built while another was being deployed or killed; and it listens,
\* unless a process too many may have the port. But not when a process has ended by
\* itself, which no edit restarts, or a version has thrown.
RunsLatest ==
  <>[](/\ source \notin Broken /\ ~Hung => file = source
       /\ crashes = 0 /\ ~Hung /\ file # 0 =>
            /\ program \in Living /\ proc[program].code = file
            /\ doubled = 0 => proc[program].stage = "listening")

\* In the end the webhooks are those of the capabilities that were loaded last, those of
\* the version on disk unless a rebuild came while the program was being replaced. What
\* may be missing is a webhook that was deployed while a deletion of it, for the end of a
\* process before, was under way: neither waits for the other. And none are left when
\* nothing runs.
WebhooksSettle ==
  <>[](/\ crashes = 0 /\ ~Hung /\ file # 0 =>
            /\ ~overtaken => capabilities = file
            /\ \A t \in WebhookType :
                 \/ webhook[t] = IF t \in webhooks[capabilities] THEN capabilities ELSE 0
                 \/ raced[t] /\ webhook[t] = 0
       /\ Living = {} => \A t \in WebhookType : webhook[t] = 0)
=============================================================================

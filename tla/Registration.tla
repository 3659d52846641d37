---------------------------- MODULE Registration ----------------------------
(***************************************************************************)
(* What a module's code registers (core/capability.ts), which differs with *)
(* the mode it is run in: in full when it is built, and of that what is    *)
(* for admission or for the watch in the pods.                             *)
(*                                                                         *)
(* A chain When(kind).Is...().With...().Mutate(...).Watch(...)... is       *)
(* [binding, methods]: the binding as event and filters have made it, and  *)
(* the methods that register an action. The actions of a chain get copies  *)
(* of the binding that share its filters; a chain kept in a variable and   *)
(* given another filter after an action is left out.                       *)
(***************************************************************************)
Mode == {"build", "admission", "watch", "dev"}
Method == {"Mutate", "Validate", "Watch", "Reconcile", "Finalize"}

registerAdmission(mode) == mode # "watch"

\* Mutant of registerWatch: not when the module is built.
registerWatchUnbuilt(mode) == mode \in {"watch", "dev"}

registerWatch(mode) == mode # "admission"

Flag == {"isMutate", "isValidate", "isWatch", "isQueue", "isFinalize"}

\* Chains that type: only one of Watch and Reconcile, and Finalize after them. Their
\* binding is none of an action yet.
WellTyped(chain) ==
  /\ chain.methods \subseteq Method
  /\ ~({"Watch", "Reconcile"} \subseteq chain.methods)
  /\ "Finalize" \in chain.methods => {"Watch", "Reconcile"} \cap chain.methods # {}
  /\ Flag \cup {"kind", "event"} \subseteq DOMAIN chain.binding
  /\ \A f \in Flag : chain.binding[f] = FALSE

None == [key \in {} |-> ""]

When(kind) ==
  [kind |-> kind, event |-> "*", name |-> "", regexName |-> "", namespaces |-> {},
   regexNamespaces |-> {}, labels |-> None, annotations |-> None, deletionTimestamp |-> FALSE,
   isMutate |-> FALSE, isValidate |-> FALSE, isWatch |-> FALSE, isQueue |-> FALSE,
   isFinalize |-> FALSE]

bindEvent(binding, event) == [binding EXCEPT !.event = event]

InNamespace(binding, namespaces) == [binding EXCEPT !.namespaces = @ \cup namespaces]
InNamespaceRegex(binding, namespaces) == [binding EXCEPT !.regexNamespaces = @ \cup namespaces]
WithDeletionTimestamp(binding) == [binding EXCEPT !.deletionTimestamp = TRUE]
WithNameRegex(binding, regexName) == [binding EXCEPT !.regexName = regexName]
WithName(binding, name) == [binding EXCEPT !.name = name]

Put(meta, key, value) ==
  [k \in DOMAIN meta \cup {key} |-> IF k = key THEN value ELSE meta[k]]

WithLabel(binding, key, value) == [binding EXCEPT !.labels = Put(@, key, value)]
WithAnnotation(binding, key, value) == [binding EXCEPT !.annotations = Put(@, key, value)]

Pushed(when, binding) == IF when THEN {binding} ELSE {}

Mutate(chain, mode) ==
  Pushed(registerAdmission(mode), [chain.binding EXCEPT !.isMutate = TRUE])

Validate(chain, mode) ==
  Pushed(registerAdmission(mode), [chain.binding EXCEPT !.isValidate = TRUE])

Watch(chain, mode) ==
  Pushed(registerWatch(mode), [chain.binding EXCEPT !.isWatch = TRUE])

Reconcile(chain, mode) ==
  Pushed(registerWatch(mode), [chain.binding EXCEPT !.isWatch = TRUE, !.isQueue = TRUE])

\* One binding to put the finalizer on, one to call back and take it off.
Finalize(chain, mode) ==
  Pushed(registerAdmission(mode),
         [chain.binding EXCEPT !.isMutate = TRUE, !.isFinalize = TRUE, !.event = "*"])
    \cup Pushed(registerWatch(mode),
                [chain.binding EXCEPT !.isWatch = TRUE, !.isFinalize = TRUE, !.event = "UPDATE"])

\* The bindings of a capability after all its chains.
bindings(chains, mode) ==
  UNION {(IF "Mutate" \in c.methods THEN Mutate(c, mode) ELSE {})
           \cup (IF "Validate" \in c.methods THEN Validate(c, mode) ELSE {})
           \cup (IF "Watch" \in c.methods THEN Watch(c, mode) ELSE {})
           \cup (IF "Reconcile" \in c.methods THEN Reconcile(c, mode) ELSE {})
           \cup (IF "Finalize" \in c.methods THEN Finalize(c, mode) ELSE {}) : c \in chains}
=============================================================================

------------------------------ MODULE Manifests ------------------------------
(***************************************************************************)
(* What is made of a module when it is built (assets/assets.ts, rbac.ts,   *)
(* helpers.ts): which webhooks, which Deployments, and what its service    *)
(* account may do. The deployment by the command line, the manifest and    *)
(* the chart all rest on it.                                               *)
(*                                                                         *)
(* A module m has [chains, hasSchedule, rbacMode, rbac : custom pairs      *)
(* <<kind, verb>>], and maybe more.                                        *)
(***************************************************************************)
EXTENDS Registration

WebhookType == {"mutate", "validate"}

Verb == {"create", "delete", "get", "list", "patch", "update", "watch"}

Bindings(m) == bindings(m.chains, "build")

IsOfType(b, type) == IF type = "mutate" THEN b.isMutate ELSE b.isValidate

\* A webhook without rules is not made.
HasWebhook(m, type) == \E b \in Bindings(m) : IsOfType(b, type)

isAdmission(m) == \E b \in Bindings(m) : b.isFinalize \/ b.isMutate \/ b.isValidate

isWatcher(m) == m.hasSchedule \/ \E b \in Bindings(m) : b.isFinalize \/ b.isWatch \/ b.isQueue

norWatchOrAdmission(m) == ~isAdmission(m) /\ ~isWatcher(m)

\* Mutant of createRBACMap: only Watch is given the verb.
createRBACMapQueueless(m, kind) ==
  (IF kind = "peprstore" /\ Bindings(m) # {} THEN {"create", "get", "patch", "watch"} ELSE {})
    \cup (IF kind = "crd" /\ Bindings(m) # {} THEN {"patch", "create"} ELSE {})
    \cup (IF \E b \in Bindings(m) : b.kind = kind /\ b.isFinalize THEN {"patch"}
          ELSE IF \E b \in Bindings(m) : b.kind = kind /\ b.isWatch /\ ~b.isQueue THEN {"watch"}
          ELSE {})

\* Mutant of createRBACMap: nothing for the store.
createRBACMapStoreless(m, kind) ==
  (IF kind = "crd" /\ Bindings(m) # {} THEN {"patch", "create"} ELSE {})
    \cup (IF \E b \in Bindings(m) : b.kind = kind /\ b.isFinalize THEN {"patch"}
          ELSE IF \E b \in Bindings(m) : b.kind = kind /\ b.isWatch THEN {"watch"} ELSE {})

\* The verbs on a kind. A finalize binding assigns its verbs in place of those of
\* the watch bindings of the kind, whichever comes first.
createRBACMap(m, kind) ==
  (IF kind = "peprstore" /\ Bindings(m) # {} THEN {"create", "get", "patch", "watch"} ELSE {})
    \cup (IF kind = "crd" /\ Bindings(m) # {} THEN {"patch", "create"} ELSE {})
    \cup (IF \E b \in Bindings(m) : b.kind = kind /\ b.isFinalize THEN {"patch"}
          ELSE IF \E b \in Bindings(m) : b.kind = kind /\ b.isWatch THEN {"watch"} ELSE {})

\* The verbs the service account has with the role of the module. The store's own Role
\* names a resource that does not exist and adds nothing.
clusterRole(m, kind) ==
  IF m.rbacMode = "scoped" THEN createRBACMap(m, kind) \cup {v \in Verb : <<kind, v>> \in m.rbac}
  ELSE Verb
=============================================================================

------------------------------ MODULE MCChart ------------------------------
(* Small instance: what a module registers and how its package.json is written. *)
EXTENDS Chart

Chain(kind, methods) ==
  [binding |-> bindEvent(When(kind), "CREATEORUPDATE"), methods |-> methods]

Both ==
  [code |-> "both", chains |-> {Chain("a", {"Mutate", "Watch", "Finalize"}), Chain("b", {"Validate"})},
   hasSchedule |-> FALSE, onError |-> "reject", rbacMode |-> "", rbac |-> {},
   webhookTimeout |-> 10, alwaysIgnore |-> {"x"}, admissionIgnore |-> {"y"}, watchIgnore |-> {},
   additional |-> [strict |-> "Fail", lax |-> "Ignore"],
   env |-> [PEPR_WATCH_MODE |-> "true", MY_ENV |-> "1"], logLevel |-> "info", labels |-> {},
   includes |-> TRUE]

Policy ==
  [Both EXCEPT !.code = "policy", !.chains = {Chain("a", {"Validate"})}, !.onError = "audit",
     !.rbacMode = "scoped", !.rbac = {<<"a", "get">>}, !.webhookTimeout = 0, !.alwaysIgnore = {},
     !.env = << >>, !.includes = FALSE]

Watching ==
  [Policy EXCEPT !.code = "watching", !.chains = {Chain("a", {"Reconcile"})}, !.hasSchedule = TRUE,
     !.admissionIgnore = {}, !.watchIgnore = {"w"}, !.labels = {"mine"}]

Nothing == [Both EXCEPT !.code = "nothing", !.chains = {}]

MCProject == {Both, Policy, Watching, Nothing}

Default ==
  [rbacMode |-> "", customImage |-> "", registryInfo |-> "", registry |-> "", timeout |-> 0,
   withPullSecret |-> ""]

MCOptions ==
  {Default,
   [Default EXCEPT !.registryInfo = "mine", !.timeout = 15],
   [Default EXCEPT !.customImage = "private", !.rbacMode = "scoped", !.withPullSecret = "regcred"]}

MCOverride ==
  {<< >>, [failurePolicy |-> "Ignore", podLabels |-> {"team"}],
   [webhookTimeout |-> 20, additionalIgnoredNamespaces |-> {"z", "lax"}],
   [namespaceLabels |-> {"team"}, admissionEnabled |-> FALSE, admissionMonitor |-> TRUE]}

MCDigits == {{"path", "rules"}}

MCNamespace == {"kube-system", "x", "y", "z", "strict", "lax", "other"}
=============================================================================

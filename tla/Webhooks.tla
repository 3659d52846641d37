------------------------------ MODULE Webhooks ------------------------------
(***************************************************************************)
(* The webhook configurations made from a module (assets/webhooks.ts), and *)
(* which requests the API server sends to which of their webhooks.         *)
(*                                                                         *)
(* A module is [bindings : the sequence of all its capabilities' bindings, *)
(* onError, alwaysIgnore and admissionIgnore : the sets of namespaces of   *)
(* its configuration, additional : the sequence additionalWebhooks].       *)
(***************************************************************************)
EXTENDS Compliance

CONSTANT DefaultPlural  \* DefaultPlural[kind]: the kind's name in lower case and an s

peprIgnoreNamespaces == {"kube-system", "pepr-system"}

WebhookType == {"mutate", "validate"}

IsOfType(binding, type) ==
  IF type = "mutate" THEN binding.isMutate ELSE binding.isValidate

OperationsOf(event) ==
  IF event = "CREATEORUPDATE" THEN {"CREATE", "UPDATE"} ELSE {event}

ResourcesOf(kind) ==
  LET plural == IF kind.plural # "" THEN kind.plural ELSE DefaultPlural[kind.kind]
  IN {plural} \cup (IF plural = "pods" THEN {"pods/ephemeralcontainers"} ELSE {})

validateRule(binding) ==
  [apiGroups |-> {binding.kind.group},
   apiVersions |-> {IF binding.kind.version = "" THEN "*" ELSE binding.kind.version},
   operations |-> OperationsOf(binding.event),
   resources |-> ResourcesOf(binding.kind)]

generateWebhookRules(module, type) ==
  {validateRule(module.bindings[i]) :
     i \in {j \in DOMAIN module.bindings : IsOfType(module.bindings[j], type)}}

\* Mutant of configureAdditionalWebhooks: the first webhook keeps their namespaces.
configureAdditionalWebhooksKept(base, additional) ==
  <<base>> \o
  [i \in DOMAIN additional |->
     [failurePolicy |-> additional[i].failurePolicy, operator |-> "In",
      values |-> {additional[i].namespace}]]

\* The namespaces of the additional webhooks are taken from the first.
configureAdditionalWebhooks(base, additional) ==
  <<[base EXCEPT !.values = @ \cup {additional[i].namespace : i \in DOMAIN additional}]>> \o
  [i \in DOMAIN additional |->
     [failurePolicy |-> additional[i].failurePolicy, operator |-> "In",
      values |-> {additional[i].namespace}]]

\* The webhooks of both configurations; one without rules is not made.
webhookConfigGenerator(module) ==
  configureAdditionalWebhooks(
    [failurePolicy |-> IF module.onError = "reject" THEN "Fail" ELSE "Ignore",
     operator |-> "NotIn",
     values |-> peprIgnoreNamespaces \cup getIgnoreNamespaces(module)],
    module.additional)

(***************************************************************************)
(* The API server, external.                                               *)
(***************************************************************************)

MatchesRule(rule, req) ==
  /\ req.kind.group \in rule.apiGroups
  /\ {"*", req.kind.version} \cap rule.apiVersions # {}
  /\ {"*", req.operation} \cap rule.operations # {}
  /\ req.resource \in rule.resources

\* A namespace selector is held against the object's namespace, or against the
\* object if it is a namespace itself. Any other object has none, and is selected.
SelectedBy(webhook, obj) ==
  LET namespace == IF obj.kind = "Namespace" THEN obj.name ELSE obj.namespace
  IN \/ namespace = ""
     \/ IF webhook.operator = "In" THEN namespace \in webhook.values
                                   ELSE namespace \notin webhook.values

\* The webhooks of the type that are called for a request, by their places.
WebhooksCalled(module, type, req) ==
  LET webhooks == webhookConfigGenerator(module)
  IN {w \in DOMAIN webhooks :
        /\ \E rule \in generateWebhookRules(module, type) : MatchesRule(rule, req)
        /\ SelectedBy(webhooks[w], req.object)}
=============================================================================

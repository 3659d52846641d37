----------------------------- MODULE Admission -----------------------------
(***************************************************************************)
(* One request on its way through the API server and the two webhooks of   *)
(* a module: the mutation and the validation processors                    *)
(* (processors/mutate-processor.ts, processors/validate-processor.ts), the *)
(* reviews they answer with (controller/index.util.ts), and what the API   *)
(* server makes of them.                                                   *)
(*                                                                         *)
(* Requests do not share state in the module, so one is enough; a step is  *)
(* the run of one action, between two awaits. A call may fail at any time: *)
(* no pod, a time-out, a hook that throws. An action may throw before or   *)
(* after it has changed the object. An object is what the filters look at, *)
(* the changes made to it (by the actions' places in module.bindings) and  *)
(* the status annotations the module has put on it.                        *)
(***************************************************************************)
EXTENDS Webhooks

CONSTANTS
  Modules,         \* the modules considered
  Requests,        \* the requests considered
  CallsFail,       \* whether calls of a webhook may fail
  UnprintableErrors \* whether an action may throw what JSON.stringify throws at

\* The binding is for the group, version and kind of the request.
IsForKind(binding, req) ==
  /\ req.kind.group = binding.kind.group /\ req.kind.kind = binding.kind.kind
  /\ binding.kind.version \in {"", req.kind.version}

\* Namespaces have names, patterns compile, and the plural of a kind is what its
\* requests name as their resource. The namespace of an additional webhook is part of
\* its name, of which the API server takes none twice; and each action is registered
\* with a copy of its binding.
ASSUME AdmissionAssumption ==
  /\ \A m \in Modules :
       /\ \A s \in {m.bindings, m.additional} :
            Len(s) \in Nat /\ DOMAIN s = 1..Len(s)
       /\ \A j \in DOMAIN m.additional :
            /\ m.additional[j].namespace # ""
            /\ \A k \in DOMAIN m.additional \ {j} :
                 m.additional[k].namespace # m.additional[j].namespace
       /\ \A i \in DOMAIN m.bindings :
            LET b == m.bindings[i]
            IN /\ "" \notin b.capability.namespaces
               /\ ~(b.isMutate /\ b.isValidate)
               /\ b.regexNamespaces \cup ({b.regexName} \ {""}) \subseteq DOMAIN Matches
               /\ \A r \in Requests :
                    /\ IsForKind(b, r) => r.resource \in ResourcesOf(b.kind)
                    /\ b.capability.name \in DOMAIN r.object.status
  /\ \A r \in Requests :
       /\ {"operation", "kind", "resource", "object"} \subseteq DOMAIN r
       /\ {"kind", "name", "namespace", "labels", "changes", "status"}
            \subseteq DOMAIN r.object
       /\ r.object.changes = {}

VARIABLES
  module, request, \* chosen at the start
  object,          \* the object as it will be stored
  phase,           \* the API server's phase, or its verdict
  pending,         \* the webhooks of the phase that are still to be called
  current,         \* the webhook being called, or 0
  todo,            \* the bindings the call has still to run
  wrapped,         \* the object as the call has changed it
  response,        \* what the call has to say so far
  warned,          \* the actions whose warnings have reached the client
  succeeded, failed, denied, threw, \* how the actions of answered calls went
  mutated,         \* how many mutating calls were answered
  open             \* whether a call that failed was passed over

vars == <<module, request, object, phase, pending, current, todo, wrapped,
          response, warned, succeeded, failed, denied, threw, mutated, open>>

Decided == {"persisted", "rejected"}
Bindings == DOMAIN module.bindings
Binding(i) == module.bindings[i]
CapabilityName == {Binding(i).capability.name : i \in Bindings}

\* A request for the object as it is now.
Review == [request EXCEPT !.object = object]

\* ok, failed, denied: bindings run by this call, by how it went; warnings: the
\* bindings that warned.
NoResponse == [ok |-> {}, failed |-> {}, denied |-> {}, warnings |-> {}]

Init ==
  /\ module \in {m \in Modules : Builds(m)}
  /\ request \in Requests
  /\ object = request.object
  /\ phase = "mutate"
  /\ pending = WebhooksCalled(module, "mutate", request)
  /\ current = 0
  /\ todo = {} /\ wrapped = object /\ response = NoResponse
  /\ warned = {}
  /\ succeeded = {} /\ failed = {} /\ denied = {} /\ threw = {}
  /\ mutated = 0 /\ open = FALSE

First(S) == CHOOSE i \in S : \A j \in S : i <= j

\* The bindings whose action runs, all chosen before the first of them does.
Bindables ==
  {i \in Bindings :
     /\ IsOfType(Binding(i), phase)
     /\ ~shouldSkipRequest(Binding(i), Review, Binding(i).capability.namespaces,
                           getIgnoreNamespaces(module))}

\* The API server calls the next webhook.
Call ==
  /\ current = 0 /\ pending # {} /\ phase \notin Decided
  /\ current' = First(pending)
  /\ todo' = Bindables
  /\ wrapped' = object
  /\ response' = NoResponse
  /\ UNCHANGED <<module, request, object, phase, pending, warned,
                 succeeded, failed, denied, threw, mutated, open>>

(***************************************************************************)
(* Mutation.                                                               *)
(***************************************************************************)

\* Mutant of updateStatus: it takes the first status only.
updateStatusOnce(obj, i, status) ==
  IF request.operation = "DELETE" \/ obj.status[Binding(i).capability.name] # ""
  THEN obj
  ELSE [obj EXCEPT !.status[Binding(i).capability.name] = status]

updateStatus(obj, i, status) ==
  IF request.operation = "DELETE" THEN obj
  ELSE [obj EXCEPT !.status[Binding(i).capability.name] = status]

\* What the action does to the object: its own mark, and labels.
Changed(obj, i) ==
  LET labels == Binding(i).sets
  IN [obj EXCEPT
        !.changes = @ \cup {i},
        !.labels = [k \in DOMAIN @ \cup DOMAIN labels |->
                      IF k \in DOMAIN labels THEN labels[k] ELSE @[k]]]

\* Mutant of MutationFailed: the warnings of earlier actions are dropped.
MutationFailedAlone(i) ==
  [response EXCEPT !.failed = @ \cup {i}, !.warnings = {i}]

\* The catch of processRequest; audit annotations, which only inform, are left out.
MutationFailed(i) ==
  [response EXCEPT !.failed = @ \cup {i}, !.warnings = @ \cup {i}]

\* Mutant of Rejecting: another behaviour is asked for.
RejectingIgnored(resp) == module.onError = "ignore" /\ resp.warnings # {}

\* With onError reject the first failure is the last action.
Rejecting(resp) == module.onError = "reject" /\ resp.warnings # {}

Mutate(i, throws, changes) ==
  /\ phase = "mutate" /\ current # 0
  /\ todo # {} /\ i = First(todo)
  /\ throws \/ changes
  /\ wrapped' = updateStatus(
       IF changes THEN Changed(updateStatus(wrapped, i, "started"), i)
                  ELSE updateStatus(wrapped, i, "started"),
       i, IF throws THEN "warning" ELSE "succeeded")
  /\ response' = IF throws THEN MutationFailed(i)
                           ELSE [response EXCEPT !.ok = @ \cup {i}]
  /\ todo' = IF Rejecting(response') THEN {} ELSE todo \ {i}
  /\ UNCHANGED <<module, request, object, phase, pending, current, warned,
                 succeeded, failed, denied, threw, mutated, open>>

(***************************************************************************)
(* Validation.                                                             *)
(***************************************************************************)

\* The action approves, denies or throws; to throw is to deny.
Validate(i, allows) ==
  /\ phase = "validate" /\ current # 0
  /\ todo # {} /\ i = First(todo)
  /\ response' = IF allows THEN [response EXCEPT !.ok = @ \cup {i}]
                           ELSE [response EXCEPT !.denied = @ \cup {i}]
  /\ todo' = todo \ {i}
  /\ UNCHANGED <<module, request, object, phase, pending, current, wrapped, warned,
                 succeeded, failed, denied, threw, mutated, open>>

(***************************************************************************)
(* Answers.                                                                *)
(***************************************************************************)

\* Mutants of karForValidate: one approval is enough.
karForValidateAny(resp) == resp.denied = {} \/ resp.ok # {}

\* Allowed when every validation allows it, also when there is none.
karForValidate(resp) == resp.denied = {}

Allowed == IF phase = "mutate" THEN ~Rejecting(response) ELSE karForValidate(response)

\* The call answers. A patch is made of the changes, but for a DELETE.
Answer ==
  /\ current # 0 /\ todo = {}
  /\ succeeded' = succeeded \cup response.ok
  /\ failed' = failed \cup response.failed
  /\ denied' = denied \cup response.denied
  /\ warned' = warned \cup response.warnings
  /\ mutated' = IF phase = "mutate" THEN mutated + 1 ELSE mutated
  /\ current' = 0
  /\ IF Allowed
     THEN /\ pending' = pending \ {current}
          /\ object' = IF phase = "mutate" /\ request.operation # "DELETE"
                       THEN wrapped ELSE object
          /\ UNCHANGED phase
     ELSE phase' = "rejected" /\ UNCHANGED <<pending, object>>
  /\ UNCHANGED <<module, request, todo, wrapped, response, threw, open>>

\* What becomes of a call without an answer is for the webhook's failure policy.
PassOver ==
  /\ current' = 0
  /\ IF webhookConfigGenerator(module)[current].failurePolicy = "Fail"
     THEN phase' = "rejected" /\ UNCHANGED <<pending, open>>
     ELSE pending' = pending \ {current} /\ open' = TRUE /\ UNCHANGED phase
  /\ UNCHANGED <<module, request, object, todo, wrapped, response, warned,
                 succeeded, failed, denied, mutated>>

FailCall ==
  /\ CallsFail /\ current # 0
  /\ PassOver
  /\ UNCHANGED threw

\* The catch of the validation's processRequest throws itself: the answer is a 500.
ThrowUnprintable(i) ==
  /\ UnprintableErrors
  /\ phase = "validate" /\ current # 0
  /\ todo # {} /\ i = First(todo)
  /\ PassOver
  /\ threw' = threw \cup {i}

\* All webhooks of the phase have been called.
NextPhase ==
  /\ current = 0 /\ pending = {} /\ phase \notin Decided
  /\ phase' = IF phase = "mutate" THEN "validate" ELSE "persisted"
  /\ pending' = IF phase = "mutate" THEN WebhooksCalled(module, "validate", Review) ELSE {}
  /\ UNCHANGED <<module, request, object, current, todo, wrapped, response, warned,
                 succeeded, failed, denied, threw, mutated, open>>

Next ==
  \/ Call
  \/ \E i \in Bindings, throws \in BOOLEAN, changes \in BOOLEAN : Mutate(i, throws, changes)
  \/ \E i \in Bindings, allows \in BOOLEAN : Validate(i, allows)
  \/ Answer
  \/ FailCall
  \/ \E i \in Bindings : ThrowUnprintable(i)
  \/ NextPhase

Spec == Init /\ [][Next]_vars

(***************************************************************************)
(* Properties.                                                             *)
(***************************************************************************)

\* What is left to run is of the module, and a call is of a webhook that is pending.
TypeOK ==
  /\ phase \in WebhookType \cup Decided
  /\ pending \subseteq DOMAIN webhookConfigGenerator(module)
  /\ current \in pending \cup {0}
  /\ todo \subseteq Bindings
  /\ \A o \in {object, wrapped} : o.changes \subseteq Bindings
  /\ \A f \in {"ok", "failed", "denied", "warnings"} : response[f] \subseteq Bindings
  /\ \A S \in {warned, succeeded, failed, denied, threw} : S \subseteq Bindings
  /\ mutated \in Nat /\ open \in BOOLEAN

\* The namespace an object is in, or is.
Home(obj) == IF obj.kind = "Namespace" THEN obj.name ELSE obj.namespace

IsOfEvent(i) ==
  CASE Binding(i).event = "*" -> TRUE
    [] Binding(i).event = "CREATEORUPDATE" -> request.operation \in {"CREATE", "UPDATE"}
    [] OTHER -> request.operation = Binding(i).event

MetasHold(wanted, carried) ==
  \A k \in DOMAIN wanted :
    k \in DOMAIN carried /\ (wanted[k] = "" \/ wanted[k] = carried[k])

\* What a module's author means by a binding: the reference definition for the
\* filters, the rules and the checks of the build together.
Applies(i, obj) ==
  LET b == Binding(i)
      spaces == UNION {Matches[r] : r \in b.regexNamespaces}
  IN /\ IsForKind(b, request) /\ IsOfEvent(i)
     /\ b.deletionTimestamp => obj.deletionTimestamp /\ b.event # "DELETE"
     /\ b.name # "" => obj.name = b.name
     /\ b.regexName # "" => obj.name \in Matches[b.regexName]
     /\ b.namespaces # {} => obj.namespace \in b.namespaces
     /\ b.regexNamespaces # {} => obj.namespace \in spaces
     /\ b.capability.namespaces # {} => Home(obj) \in b.capability.namespaces
     /\ Home(obj) \notin peprIgnoreNamespaces \cup getIgnoreNamespaces(module)
     /\ MetasHold(b.labels, obj.labels) /\ MetasHold(b.annotations, obj.annotations)

Mutations(obj) == {i \in Bindings : Binding(i).isMutate /\ Applies(i, obj)}
Validations(obj) == {i \in Bindings : Binding(i).isValidate /\ Applies(i, obj)}

\* The module means to reject what it cannot process, and no additional webhook
\* for the object's namespace says otherwise.
Strict ==
  /\ module.onError = "reject"
  /\ \A j \in DOMAIN module.additional :
       module.additional[j].namespace = Home(request.object) =>
         module.additional[j].failurePolicy = "Fail"

\* With onError reject nothing is stored that has not been through every mutation
\* meant for it as it was submitted, without a failure, and every validation meant
\* for it as it is stored: the rules bring the request to the module, the filters
\* to the actions, and no failure on the way lets it pass.
RejectMeansProcessed ==
  phase = "persisted" /\ Strict =>
    Mutations(request.object) \subseteq succeeded /\ Validations(object) \subseteq succeeded

\* A mutation that fails is an end under onError reject, also for the mutations
\* before it: nothing is stored.
RejectMeansRejected ==
  phase = "persisted" /\ module.onError = "reject" => failed = {}

\* What one validation denies, or throws at, is stored only if a call got no answer
\* and the failure policy passed it over.
DenialStands == phase = "persisted" /\ denied \cup threw # {} => open

\* An object is stored with the truth about the capabilities that worked on it: none
\* is left at "started", the status of one tells of something that happened to this
\* request, and that of one without an action for it is as the request brought it. It
\* need not tell of a failure: a later success of the capability takes its place.
StatusTells ==
  phase = "persisted" /\ request.operation # "DELETE" =>
    \A name \in CapabilityName :
      LET mine == {j \in Bindings : Binding(j).isMutate /\ Binding(j).capability.name = name}
          status == object.status[name]
      IN \/ mine \cap (succeeded \cup failed) = {} /\ status = request.object.status[name]
         \/ mine \cap succeeded # {} /\ status = "succeeded"
         \/ mine \cap failed # {} /\ status = "warning"

\* A client is warned of every mutation that failed, whatever the verdict.
FailuresAreToldOf == phase \in Decided => failed \subseteq warned

\* Every object that has a namespace is mutated in one call, however many
\* additional webhooks there are. One without is selected by all of them.
MutatedOnce == Home(request.object) # "" => mutated <= 1
=============================================================================

-------------------------- MODULE AdmissionProofs --------------------------
(***************************************************************************)
(* Proofs about Admission, for any modules that build, with any bindings   *)
(* and additional webhooks, and any requests.                              *)
(***************************************************************************)
EXTENDS Admission, SequenceTheorems, WellFoundedInduction, TLAPS

(***************************************************************************)
(* Webhooks and filters.                                                   *)
(***************************************************************************)

\* A set of numbers has a first.
LEMMA FirstIsLeast ==
  ASSUME NEW S \in SUBSET Nat, S # {}
  PROVE  First(S) \in S /\ \A i \in S : First(S) <= i
<1> DEFINE R == {p \in Nat \X Nat : p[1] < p[2]}
<1>1. IsWellFoundedOn(R, Nat)
  BY NatLessThanWellFounded, Zenon DEF OpToRel
<1> HIDE DEF R
<1>2. PICK n \in S : \A i \in S : ~(<<i, n>> \in R)
  BY <1>1, WFMin, Zenon
<1>3. \A i \in S : n <= i
  <2>1. ASSUME NEW i \in S PROVE n <= i
    <3>1. i \in Nat /\ n \in Nat /\ <<i, n>> \notin R
      BY <1>2
    <3> QED BY <3>1 DEF R
  <2> QED BY <2>1
<1> QED BY <1>3 DEF First

FirstWebhook(m) ==
  [failurePolicy |-> IF m.onError = "reject" THEN "Fail" ELSE "Ignore",
   operator |-> "NotIn",
   values |-> (peprIgnoreNamespaces \cup getIgnoreNamespaces(m))
                \cup {m.additional[j].namespace : j \in DOMAIN m.additional}]

AdditionalWebhook(m, j) ==
  [failurePolicy |-> m.additional[j].failurePolicy, operator |-> "In",
   values |-> {m.additional[j].namespace}]

\* The webhooks made from a module: the first, and then one for each additional one.
LEMMA WebhooksMade ==
  ASSUME NEW m \in Modules
  PROVE  /\ Len(m.additional) \in Nat
         /\ DOMAIN m.additional = 1..Len(m.additional)
         /\ DOMAIN webhookConfigGenerator(m) = 1..(Len(m.additional) + 1)
         /\ 1 \in DOMAIN webhookConfigGenerator(m)
         /\ webhookConfigGenerator(m)[1] = FirstWebhook(m)
         /\ \A j \in DOMAIN m.additional :
              webhookConfigGenerator(m)[j + 1] = AdditionalWebhook(m, j)
<1> DEFINE n == Len(m.additional)
           t == [j \in DOMAIN m.additional |-> AdditionalWebhook(m, j)]
           T == {AdditionalWebhook(m, j) : j \in DOMAIN m.additional} \cup {FirstWebhook(m)}
<1>1. n \in Nat /\ DOMAIN m.additional = 1..n
  BY AdmissionAssumption
<1>2. webhookConfigGenerator(m) = <<FirstWebhook(m)>> \o t
  <2> DEFINE base ==
        [failurePolicy |-> IF m.onError = "reject" THEN "Fail" ELSE "Ignore",
         operator |-> "NotIn", values |-> peprIgnoreNamespaces \cup getIgnoreNamespaces(m)]
  <2>1. [base EXCEPT !.values = @ \cup {m.additional[i].namespace : i \in DOMAIN m.additional}]
          = FirstWebhook(m)
    BY DEF FirstWebhook
  <2>2. webhookConfigGenerator(m) = configureAdditionalWebhooks(base, m.additional)
    BY Zenon DEF webhookConfigGenerator
  <2> HIDE DEF base
  <2> QED BY <2>1, <2>2, Zenon DEF configureAdditionalWebhooks, AdditionalWebhook
<1>3. t \in Seq(T) /\ Len(t) = n
  BY <1>1
<1>4. <<FirstWebhook(m)>> \in Seq(T) /\ Len(<<FirstWebhook(m)>>) = 1
      /\ <<FirstWebhook(m)>>[1] = FirstWebhook(m)
  OBVIOUS
<1>5. \A j \in DOMAIN m.additional : t[j] = AdditionalWebhook(m, j)
  OBVIOUS
<1> HIDE DEF t, T, n
<1>6. /\ Len(<<FirstWebhook(m)>> \o t) = 1 + n
      /\ DOMAIN (<<FirstWebhook(m)>> \o t) = 1..(n + 1)
      /\ \A i \in 1..(n + 1) :
           (<<FirstWebhook(m)>> \o t)[i] = IF i <= 1 THEN <<FirstWebhook(m)>>[i] ELSE t[i - 1]
  BY <1>1, <1>3, <1>4
<1>7. ASSUME NEW j \in DOMAIN m.additional
      PROVE  webhookConfigGenerator(m)[j + 1] = AdditionalWebhook(m, j)
  <2>1. j + 1 \in 1..(n + 1) /\ ~(j + 1 <= 1) /\ (j + 1) - 1 = j
    BY <1>1
  <2> QED BY <1>2, <1>5, <1>6, <2>1
<1>8. 1 \in 1..(n + 1)
  BY <1>1
<1> QED BY <1>1, <1>2, <1>4, <1>6, <1>7, <1>8 DEF n

\* A request that differs from the one considered at most in its object.
IsReview(req) ==
  /\ req.kind = request.kind /\ req.operation = request.operation
  /\ req.resource = request.resource

\* A request that a binding is for is sent to some webhook.
LEMMA SentToSome ==
  ASSUME module \in Modules, request \in Requests, NEW type \in WebhookType,
         NEW req, IsReview(req), NEW i \in Bindings, IsOfType(Binding(i), type),
         Applies(i, req.object)
  PROVE  WebhooksCalled(module, type, req) # {}
<1> DEFINE b == Binding(i)
           rule == validateRule(b)
           webhooks == webhookConfigGenerator(module)
           ns == Home(req.object)
<1>1. IsForKind(b, request) /\ IsOfEvent(i)
      /\ ns \notin peprIgnoreNamespaces \cup getIgnoreNamespaces(module)
  BY DEF Applies
<1>2. rule \in generateWebhookRules(module, type)
  BY DEF generateWebhookRules, Bindings, Binding
<1>3. MatchesRule(rule, req)
  <2>1. req.kind.group \in rule.apiGroups
    BY <1>1 DEF IsForKind, IsReview, validateRule
  <2>2. {"*", req.kind.version} \cap rule.apiVersions # {}
    BY <1>1 DEF IsForKind, IsReview, validateRule
  <2>3. {"*", req.operation} \cap rule.operations # {}
    BY <1>1 DEF IsOfEvent, IsReview, validateRule, OperationsOf
  <2>4. req.resource \in rule.resources
    <3>1. request.resource \in ResourcesOf(b.kind)
      BY <1>1, AdmissionAssumption DEF Bindings, Binding
    <3> QED BY <3>1 DEF IsReview, validateRule
  <2> QED BY <2>1, <2>2, <2>3, <2>4 DEF MatchesRule
<1>4. ASSUME NEW w \in DOMAIN webhooks, SelectedBy(webhooks[w], req.object)
      PROVE  WebhooksCalled(module, type, req) # {}
  BY <1>2, <1>3, <1>4 DEF WebhooksCalled
<1>5. CASE \E j \in DOMAIN module.additional : module.additional[j].namespace = ns
  <2>1. PICK j \in DOMAIN module.additional : module.additional[j].namespace = ns
    BY <1>5
  <2>2. j + 1 \in DOMAIN webhooks /\ webhooks[j + 1] = AdditionalWebhook(module, j)
    BY WebhooksMade
  <2>3. webhooks[j + 1].operator = "In" /\ ns \in webhooks[j + 1].values
    BY <2>1, <2>2 DEF AdditionalWebhook
  <2>4. SelectedBy(webhooks[j + 1], req.object)
    BY <2>3, Zenon DEF SelectedBy, Home
  <2> QED BY <1>4, <2>2, <2>4
<1>6. CASE ~\E j \in DOMAIN module.additional : module.additional[j].namespace = ns
  <2>1. 1 \in DOMAIN webhooks /\ webhooks[1] = FirstWebhook(module)
    BY WebhooksMade
  <2>2. ns \notin FirstWebhook(module).values /\ FirstWebhook(module).operator = "NotIn"
    BY <1>1, <1>6 DEF FirstWebhook
  <2>3. SelectedBy(webhooks[1], req.object)
    BY <2>1, <2>2 DEF SelectedBy, Home
  <2> QED BY <1>4, <2>1, <2>3
<1> QED BY <1>5, <1>6

\* Under onError reject the first webhook a request is sent to does not let it pass
\* unanswered.
LEMMA FirstIsStrict ==
  ASSUME module \in Modules, Strict, NEW type \in WebhookType, NEW req,
         Home(req.object) = Home(request.object),
         WebhooksCalled(module, type, req) # {}
  PROVE  webhookConfigGenerator(module)[First(WebhooksCalled(module, type, req))].failurePolicy = "Fail"
<1> DEFINE called == WebhooksCalled(module, type, req)
           webhooks == webhookConfigGenerator(module)
           w == First(called)
<1>1. called \subseteq DOMAIN webhooks /\ called \in SUBSET Nat
  BY WebhooksMade DEF WebhooksCalled
<1>2. w \in called /\ \A v \in called : w <= v
  BY <1>1, FirstIsLeast
<1>3. SelectedBy(webhooks[w], req.object)
      /\ \E rule \in generateWebhookRules(module, type) : MatchesRule(rule, req)
  BY <1>2 DEF WebhooksCalled
<1>4. PICK n \in Nat : /\ n = Len(module.additional)
                      /\ DOMAIN module.additional = 1..n /\ DOMAIN webhooks = 1..(n + 1)
  BY WebhooksMade, Zenon
<1>5. /\ webhooks[1] = FirstWebhook(module)
      /\ \A j \in DOMAIN module.additional : webhooks[j + 1] = AdditionalWebhook(module, j)
  BY WebhooksMade, Zenon
<1>6. Home(req.object) = "" => 1 \in called
  <2> SUFFICES ASSUME Home(req.object) = "" PROVE 1 \in called
    OBVIOUS
  <2>1. 1 \in DOMAIN webhooks
    BY WebhooksMade, Zenon
  <2>2. SelectedBy(webhooks[1], req.object)
    BY Zenon DEF SelectedBy, Home
  <2> QED BY <1>3, <2>1, <2>2, Zenon DEF WebhooksCalled
<1>7. Strict
  OBVIOUS
<1> HIDE DEF called, webhooks, w
<1>8. CASE w = 1
  <2>1. module.onError = "reject" /\ webhooks[1] = FirstWebhook(module)
    BY <1>7, <1>5 DEF Strict
  <2>2. webhooks[w].failurePolicy = "Fail"
    BY <1>8, <2>1 DEF FirstWebhook
  <2> QED BY <2>2 DEF w, webhooks, called
<1>9. CASE w # 1
  <2>1. w \in 1..(n + 1)
    BY <1>1, <1>2, <1>4
  <2>2. PICK j \in DOMAIN module.additional : w = j + 1
    <3>1. w - 1 \in DOMAIN module.additional /\ w = (w - 1) + 1
      BY <1>4, <1>9, <2>1
    <3> QED BY <3>1
  <2>3. /\ webhooks[w].operator = "In"
        /\ webhooks[w].values = {module.additional[j].namespace}
        /\ webhooks[w].failurePolicy = module.additional[j].failurePolicy
    <3>1. webhooks[w] = AdditionalWebhook(module, j)
      BY <1>5, <2>2
    <3> QED BY <3>1 DEF AdditionalWebhook
  <2>4. Home(req.object) # ""
    <3>1. 1 \in called => w <= 1
      BY <1>2
    <3>2. ~(w <= 1)
      BY <1>4, <1>9, <2>1
    <3> QED BY <1>6, <3>1, <3>2
  <2>5. Home(req.object) \in webhooks[w].values
    BY <1>3, <2>3, <2>4, Zenon DEF SelectedBy, Home
  <2>6. webhooks[w].failurePolicy = "Fail"
    BY <1>7, <2>3, <2>5 DEF Strict
  <2> QED BY <2>6 DEF w, webhooks, called
<1> QED BY <1>8, <1>9

\* No filter turns down a request that the binding is for.
LEMMA NotSkipped ==
  ASSUME module \in Modules, Builds(module), NEW req, IsReview(req), NEW i \in Bindings,
         Applies(i, req.object)
  PROVE  ~shouldSkipRequest(Binding(i), req, Binding(i).capability.namespaces,
                            getIgnoreNamespaces(module))
<1> DEFINE b == Binding(i)
           obj == req.object
           capability == b.capability.namespaces
<1>1. /\ "" \notin capability
      /\ b.regexNamespaces \subseteq DOMAIN Matches
      /\ b.regexName # "" => b.regexName \in DOMAIN Matches
  BY AdmissionAssumption DEF Bindings, Binding
<1>2. ~unbindableNamespaces(capability, b)
  BY DEF Builds, Bindings, Binding, namespaceComplianceValidator,
         bindingAndCapabilityNSConflict, unbindableNamespaces
<1>3. ~uncarryableNamespace(capability, obj) /\ ~missingCarriableNamespace(capability, obj)
  BY <1>1 DEF Applies, Home, uncarryableNamespace, missingCarriableNamespace, IsNamespace
<1>4. ~carriesIgnoredNamespace(getIgnoreNamespaces(module), obj)
  BY DEF Applies, Home, carriesIgnoredNamespace, IsNamespace
<1>5. ~mismatchedNameRegex(b, obj) /\ ~mismatchedNamespaceRegex(b, obj)
  BY <1>1 DEF Applies, mismatchedNameRegex, mismatchedNamespaceRegex
<1>6. ~mismatchedName(b, obj) /\ ~mismatchedNamespace(b, obj)
      /\ ~mismatchedDeletionTimestamp(b, obj) /\ ~misboundDeleteWithDeletionTimestamp(b)
  BY DEF Applies, mismatchedName, mismatchedNamespace, mismatchedDeletionTimestamp,
         misboundDeleteWithDeletionTimestamp
<1>7. ~metasMismatch(b.labels, obj.labels) /\ ~metasMismatch(b.annotations, obj.annotations)
  BY DEF Applies, MetasHold, metasMismatch
<1>8. ~mismatchedGroup(b, req) /\ ~mismatchedVersion(b, req) /\ ~mismatchedKind(b, req)
  BY DEF Applies, IsForKind, IsReview, mismatchedGroup, mismatchedVersion, mismatchedKind
<1>9. operationMatchesEvent(req.operation, b.event)
  BY DEF Applies, IsOfEvent, IsReview, operationMatchesEvent, OperationsIn
<1> QED
  BY <1>2, <1>3, <1>4, <1>5, <1>6, <1>7, <1>8, <1>9, Zenon DEF shouldSkipRequest, MismatchedObject

(***************************************************************************)
(* The invariant.                                                          *)
(***************************************************************************)

\* The request is one of those considered, and no action changes what its object is.
SameObject(o) ==
  /\ DOMAIN o = DOMAIN request.object
  /\ o.kind = request.object.kind /\ o.name = request.object.name
  /\ o.namespace = request.object.namespace

Chosen ==
  /\ module \in Modules /\ Builds(module) /\ request \in Requests
  /\ SameObject(object) /\ SameObject(wrapped)

Response == [ok : SUBSET Bindings, failed : SUBSET Bindings, denied : SUBSET Bindings,
             warnings : SUBSET Bindings]

Typed ==
  /\ TypeOK /\ Chosen
  /\ response \in Response
  /\ current # 0 => phase \in WebhookType

\* A mutating call has denied nothing, a validating one failed at nothing, and
\* what failed has warned.
CallsTell ==
  /\ response.failed \subseteq response.warnings
  /\ current # 0 /\ phase = "mutate" => response.denied = {}
  /\ current # 0 /\ phase = "validate" => response.failed = {}

\* As long as the request is not rejected, nothing speaks against it.
NothingAgainst ==
  /\ failed \subseteq warned
  /\ phase # "rejected" /\ module.onError = "reject" => failed = {}
  /\ phase # "rejected" => denied = {}
  /\ phase # "rejected" /\ threw # {} => open

IInv == Typed /\ CallsTell /\ NothingAgainst

\* What Review differs in from the request.
LEMMA ReviewFacts ==
  ASSUME request \in Requests
  PROVE  IsReview(Review) /\ Review.object = object
BY AdmissionAssumption DEF Review, IsReview

\* Actions and statuses leave the object what it is.
LEMMA ChangesKeep ==
  ASSUME NEW o, SameObject(o), o.changes \subseteq Bindings, request \in Requests,
         NEW i \in Bindings, NEW status
  PROVE  /\ SameObject(updateStatus(o, i, status)) /\ SameObject(Changed(o, i))
         /\ updateStatus(o, i, status).changes \subseteq Bindings
         /\ Changed(o, i).changes \subseteq Bindings
<1>1. {"kind", "name", "namespace", "changes", "labels", "status"} \subseteq DOMAIN o
  BY AdmissionAssumption DEF SameObject
<1>2. SameObject(updateStatus(o, i, status)) /\ updateStatus(o, i, status).changes = o.changes
  BY <1>1 DEF SameObject, updateStatus
<1>3. SameObject(Changed(o, i)) /\ Changed(o, i).changes = o.changes \cup {i}
  BY <1>1 DEF SameObject, Changed
<1> QED BY <1>2, <1>3

\* The invariant holds of a request that no webhook has been called for.
THEOREM InitInv == Init => IInv
<1> SUFFICES ASSUME Init PROVE IInv
  OBVIOUS
<1>1. /\ module \in Modules /\ Builds(module) /\ request \in Requests
      /\ object = request.object /\ wrapped = object /\ object.changes = {}
  BY AdmissionAssumption DEF Init
<1>2. pending \subseteq DOMAIN webhookConfigGenerator(module)
  BY DEF Init, WebhooksCalled
<1>3. response \in Response /\ response.failed = {} /\ response.denied = {}
  BY DEF Init, NoResponse, Response
<1>4. TypeOK
  BY <1>1, <1>2, <1>3 DEF Init, TypeOK, WebhookType, Response
<1>5. Typed
  BY <1>1, <1>3, <1>4 DEF Init, Typed, Chosen, SameObject
<1> QED BY <1>3, <1>5 DEF Init, IInv, CallsTell, NothingAgainst

\* What an action that leaves module, request and object alone keeps.
LEMMA ChosenKept ==
  ASSUME Chosen, UNCHANGED <<module, request, object>>, wrapped' = wrapped \/ wrapped' = object
  PROVE  Chosen'
BY DEF Chosen, SameObject

\* Where the API server calls next.
LEMMA FirstPending ==
  ASSUME Typed, pending # {}
  PROVE  First(pending) \in pending /\ First(pending) # 0
<1>1. pending \in SUBSET Nat /\ 0 \notin pending
  BY WebhooksMade DEF Typed, TypeOK, Chosen
<1> QED BY <1>1, FirstIsLeast

\* A call is of a webhook that is pending, and has nothing to say yet.
LEMMA CallInv ==
  ASSUME IInv, Call
  PROVE  IInv'
<1>1. First(pending) \in pending
  BY FirstPending DEF IInv, Call
<1>2. todo' \subseteq Bindings /\ response' \in Response
  BY DEF Call, Bindables, NoResponse, Response
<1>3. response'.failed = {} /\ response'.denied = {}
  BY DEF Call, NoResponse
<1>4. Chosen'
  BY ChosenKept DEF IInv, Typed, Call
<1>5. TypeOK'
  BY <1>1, <1>2 DEF IInv, Typed, TypeOK, Call, Bindings, Response
<1>6. phase' \in WebhookType
  BY DEF IInv, Typed, TypeOK, Call
<1>7. Typed'
  BY <1>2, <1>4, <1>5, <1>6 DEF Typed, Call, Response, Bindings
<1> QED BY <1>3, <1>7 DEF IInv, CallsTell, NothingAgainst, Call

\* A mutation that fails warns, and no mutation denies.
LEMMA MutateInv ==
  ASSUME IInv, NEW i \in Bindings, NEW throws \in BOOLEAN, NEW changes \in BOOLEAN,
         Mutate(i, throws, changes)
  PROVE  IInv'
<1> DEFINE started == updateStatus(wrapped, i, "started")
           ran == IF changes THEN Changed(started, i) ELSE started
<1>1. /\ SameObject(wrapped) /\ wrapped.changes \subseteq Bindings
      /\ request \in Requests
  BY DEF IInv, Typed, Chosen, TypeOK
<1>2. SameObject(started) /\ started.changes \subseteq Bindings
  BY <1>1, ChangesKeep
<1>3. SameObject(ran) /\ ran.changes \subseteq Bindings
  BY <1>2, <1>1, ChangesKeep
<1>4. PICK status : wrapped' = updateStatus(ran, i, status)
  BY DEF Mutate
<1> HIDE DEF started, ran
<1>5. SameObject(wrapped') /\ wrapped'.changes \subseteq Bindings
  BY <1>1, <1>3, <1>4, ChangesKeep
<1>6. /\ response' \in Response /\ response'.failed \subseteq response'.warnings
      /\ response'.denied = response.denied
  <2>1. CASE throws
    BY <2>1 DEF Mutate, MutationFailed, IInv, Typed, CallsTell, Response
  <2>2. CASE ~throws
    BY <2>2 DEF Mutate, IInv, Typed, CallsTell, Response
  <2> QED BY <2>1, <2>2
<1>7. todo' \subseteq Bindings
  BY DEF Mutate, IInv, Typed, TypeOK
<1>8. Chosen'
  BY <1>5 DEF IInv, Typed, Chosen, SameObject, Mutate
<1>9. TypeOK'
  BY <1>5, <1>6, <1>7 DEF IInv, Typed, TypeOK, Mutate, Bindings, Response
<1>10. Typed'
  BY <1>6, <1>8, <1>9 DEF IInv, Typed, Mutate, Response, Bindings
<1> QED BY <1>6, <1>10 DEF IInv, CallsTell, NothingAgainst, Mutate

\* A validation fails at nothing and warns of nothing.
LEMMA ValidateInv ==
  ASSUME IInv, NEW i \in Bindings, NEW allows \in BOOLEAN, Validate(i, allows)
  PROVE  IInv'
<1>1. /\ response' \in Response /\ response'.failed = response.failed
      /\ response'.warnings = response.warnings
  <2>1. CASE allows
    BY <2>1 DEF Validate, IInv, Typed, Response
  <2>2. CASE ~allows
    BY <2>2 DEF Validate, IInv, Typed, Response
  <2> QED BY <2>1, <2>2
<1>2. Chosen'
  BY ChosenKept DEF IInv, Typed, Validate
<1>3. TypeOK'
  BY <1>1 DEF IInv, Typed, TypeOK, Validate, Bindings, Response
<1>4. Typed'
  BY <1>1, <1>2, <1>3 DEF IInv, Typed, Validate, Response, Bindings
<1> QED BY <1>1, <1>4 DEF IInv, CallsTell, NothingAgainst, Validate

\* An answer that allows carries over no denial, and no failure under onError reject.
LEMMA AnswerInv ==
  ASSUME IInv, Answer
  PROVE  IInv'
<1>1. object' = object \/ object' = wrapped
  BY DEF Answer
<1>2. Chosen'
  BY <1>1 DEF IInv, Typed, Chosen, SameObject, Answer
<1>3. mutated' \in Nat
  BY DEF IInv, Typed, TypeOK, Answer
<1>4. /\ pending' \subseteq DOMAIN webhookConfigGenerator(module)
      /\ phase' \in WebhookType \cup Decided /\ current' = 0
  BY DEF IInv, Typed, TypeOK, Answer, Decided
<1>5. /\ succeeded' \subseteq Bindings /\ failed' \subseteq Bindings
      /\ denied' \subseteq Bindings /\ warned' \subseteq Bindings
  BY DEF IInv, Typed, TypeOK, Answer, Response
<1>6. TypeOK'
  BY <1>1, <1>3, <1>4, <1>5 DEF IInv, Typed, TypeOK, Answer, Bindings
<1>7. Typed'
  BY <1>2, <1>4, <1>6 DEF IInv, Typed, Answer, Response, Bindings
<1>8. NothingAgainst'
  <2>1. failed' \subseteq warned'
    BY DEF IInv, CallsTell, NothingAgainst, Answer
  <2>2. ASSUME phase' # "rejected" PROVE Allowed /\ phase # "rejected"
    BY <2>2 DEF Answer, IInv, Typed, WebhookType
  <2>3. phase \in {"mutate", "validate"}
    BY DEF Answer, IInv, Typed, WebhookType
  <2>4. ASSUME phase' # "rejected", module.onError = "reject" PROVE failed' = {}
    <3>1. response.failed = {}
      BY <2>2, <2>3, <2>4 DEF Allowed, Rejecting, IInv, CallsTell, Answer
    <3> QED BY <2>2, <2>4, <3>1 DEF IInv, NothingAgainst, Answer
  <2>5. ASSUME phase' # "rejected" PROVE denied' = {}
    <3>1. response.denied = {}
      BY <2>2, <2>3, <2>5 DEF Allowed, karForValidate, IInv, CallsTell, Answer
    <3> QED BY <2>2, <2>5, <3>1 DEF IInv, NothingAgainst, Answer
  <2>6. ASSUME phase' # "rejected", threw' # {} PROVE open'
    BY <2>2, <2>6 DEF IInv, NothingAgainst, Answer
  <2> QED BY <2>1, <2>4, <2>5, <2>6 DEF NothingAgainst, Answer
<1> QED BY <1>4, <1>7, <1>8 DEF IInv, CallsTell, Answer

\* A call without an answer, whatever it is of.
LEMMA PassOverInv ==
  ASSUME IInv, PassOver, current # 0, threw' \subseteq Bindings
  PROVE  IInv'
<1>1. Chosen'
  BY ChosenKept DEF IInv, Typed, PassOver
<1>2. /\ pending' \subseteq DOMAIN webhookConfigGenerator(module)
      /\ phase' \in WebhookType \cup Decided /\ current' = 0 /\ open' \in BOOLEAN
  BY DEF IInv, Typed, TypeOK, PassOver, Decided
<1>3. TypeOK'
  BY <1>2 DEF IInv, Typed, TypeOK, PassOver, Bindings
<1>4. Typed'
  BY <1>1, <1>2, <1>3 DEF IInv, Typed, PassOver, Response, Bindings
<1>5. phase' # "rejected" => phase # "rejected" /\ open'
  BY DEF IInv, Typed, WebhookType, PassOver
<1>6. NothingAgainst'
  BY <1>5 DEF IInv, NothingAgainst, PassOver
<1> QED BY <1>2, <1>4, <1>6 DEF IInv, CallsTell, PassOver

\* The verdict is not reached by rejection here, and nothing new is known.
LEMMA NextPhaseInv ==
  ASSUME IInv, NextPhase
  PROVE  IInv'
<1>1. Chosen'
  BY ChosenKept DEF IInv, Typed, NextPhase
<1>2. /\ pending' \subseteq DOMAIN webhookConfigGenerator(module)
      /\ phase' \in {"validate", "persisted"}
  BY DEF NextPhase, WebhooksCalled
<1>3. TypeOK'
  BY <1>2 DEF IInv, Typed, TypeOK, NextPhase, Bindings, WebhookType, Decided
<1>4. Typed'
  BY <1>1, <1>3 DEF IInv, Typed, NextPhase, Response, Bindings
<1>5. phase # "rejected"
  BY DEF NextPhase, Decided
<1> QED BY <1>2, <1>4, <1>5 DEF IInv, CallsTell, NothingAgainst, NextPhase

\* Every step of the API server and of the processors keeps the invariant.
THEOREM StepInv == IInv /\ [Next]_vars => IInv'
<1> SUFFICES ASSUME IInv, [Next]_vars PROVE IInv'
  OBVIOUS
<1>1. CASE Call
  BY <1>1, CallInv
<1>2. CASE \E i \in Bindings, throws \in BOOLEAN, changes \in BOOLEAN :
             Mutate(i, throws, changes)
  BY <1>2, MutateInv
<1>3. CASE \E i \in Bindings, allows \in BOOLEAN : Validate(i, allows)
  BY <1>3, ValidateInv
<1>4. CASE Answer
  BY <1>4, AnswerInv
<1>5. CASE FailCall
  <2>1. threw' \subseteq Bindings
    BY <1>5 DEF FailCall, IInv, Typed, TypeOK
  <2> QED BY <1>5, <2>1, PassOverInv DEF FailCall
<1>6. CASE \E i \in Bindings : ThrowUnprintable(i)
  <2>1. threw' \subseteq Bindings
    BY <1>6 DEF ThrowUnprintable, IInv, Typed, TypeOK
  <2> QED BY <1>6, <2>1, PassOverInv DEF ThrowUnprintable
<1>7. CASE NextPhase
  BY <1>7, NextPhaseInv
<1>8. CASE UNCHANGED vars
  BY <1>8 DEF vars, IInv, Typed, TypeOK, Chosen, SameObject, CallsTell, NothingAgainst,
              Bindings, Response
<1> QED BY <1>1, <1>2, <1>3, <1>4, <1>5, <1>6, <1>7, <1>8, Zenon DEF Next

\* The invariant holds throughout the way of a request.
THEOREM SpecInv == Spec => []IInv
BY InitInv, StepInv, PTL DEF Spec
(***************************************************************************)
(* The way of what a request needs under onError reject.                   *)
(***************************************************************************)

\* Until the mutations due have succeeded, the first webhook is still to answer, and
\* whatever it has not run yet is left in its call.
Mutating ==
  phase = "mutate" /\ Strict =>
    \/ Mutations(request.object) \subseteq succeeded
    \/ /\ pending = WebhooksCalled(module, "mutate", request)
       /\ object = request.object
       /\ current # 0 =>
            /\ current = First(pending)
            /\ response.warnings = {} =>
                 Mutations(request.object) \subseteq todo \cup response.ok

\* The same of validations.
Validating ==
  phase = "validate" /\ Strict =>
    \/ Validations(object) \subseteq succeeded
    \/ /\ pending = WebhooksCalled(module, "validate", Review)
       /\ current # 0 =>
            /\ current = First(pending)
            /\ Validations(object) \subseteq todo \cup response.ok \cup response.denied

Carried ==
  /\ phase \in {"validate", "persisted"} /\ Strict =>
       Mutations(request.object) \subseteq succeeded
  /\ phase = "persisted" /\ Strict => Validations(object) \subseteq succeeded

Processing == Mutating /\ Validating /\ Carried

\* What is due depends on module, request and object only.
LEMMA DuesKept ==
  ASSUME UNCHANGED <<module, request>>
  PROVE  /\ Strict' <=> Strict
         /\ Mutations(request.object)' = Mutations(request.object)
         /\ UNCHANGED object =>
              Validations(object)' = Validations(object) /\ Review' = Review
<1>1. Strict' <=> Strict
  BY DEF Strict
<1>2. Mutations(request.object)' = Mutations(request.object)
  BY DEF Mutations, Applies, IsOfEvent, Binding, Bindings
<1>3. UNCHANGED object => Validations(object)' = Validations(object)
  BY DEF Validations, Applies, IsOfEvent, Binding, Bindings
<1> QED BY <1>1, <1>2, <1>3 DEF Review

\* A call has before it every action that is due.
LEMMA DueAreChosen ==
  ASSUME Typed
  PROVE  /\ phase = "mutate" => Mutations(object) \subseteq Bindables
         /\ phase = "validate" => Validations(object) \subseteq Bindables
<1>1. /\ module \in Modules /\ Builds(module)
      /\ IsReview(Review) /\ Review.object = object
  BY ReviewFacts DEF Typed, Chosen
<1>2. \A i \in Bindings : Applies(i, object) =>
        ~shouldSkipRequest(Binding(i), Review, Binding(i).capability.namespaces,
                           getIgnoreNamespaces(module))
  BY <1>1, NotSkipped
<1> QED BY <1>2, Zenon DEF Mutations, Validations, Bindables, IsOfType

\* Nothing is due of a request that no webhook is called for.
LEMMA NoneDue ==
  ASSUME Typed
  PROVE  /\ WebhooksCalled(module, "mutate", request) = {} => Mutations(request.object) = {}
         /\ WebhooksCalled(module, "validate", Review) = {} => Validations(object) = {}
<1>1. /\ module \in Modules /\ request \in Requests
      /\ IsReview(Review) /\ Review.object = object /\ IsReview(request)
  BY ReviewFacts DEF Typed, Chosen, IsReview
<1>2. ASSUME NEW i \in Mutations(request.object)
      PROVE  WebhooksCalled(module, "mutate", request) # {}
  <2>1. i \in Bindings /\ IsOfType(Binding(i), "mutate") /\ Applies(i, request.object)
    BY DEF Mutations, IsOfType
  <2>2. "mutate" \in WebhookType
    BY DEF WebhookType
  <2> QED BY <1>1, <2>1, <2>2, SentToSome
<1>3. ASSUME NEW i \in Validations(object)
      PROVE  WebhooksCalled(module, "validate", Review) # {}
  <2>1. i \in Bindings /\ IsOfType(Binding(i), "validate") /\ Applies(i, Review.object)
    BY <1>1 DEF Validations, IsOfType
  <2>2. "validate" \in WebhookType
    BY DEF WebhookType
  <2> QED BY <1>1, <2>1, <2>2, SentToSome
<1> QED BY <1>2, <1>3
\* At the start every webhook of the mutation is still to be called.
THEOREM InitProcessing == Init => Processing
<1> SUFFICES ASSUME Init PROVE Processing
  OBVIOUS
<1> QED BY DEF Init, Processing, Mutating, Validating, Carried

\* The actions that are due are among those a call has chosen.
LEMMA CallProcessing ==
  ASSUME IInv, Processing, Call
  PROVE  Processing'
<1>1. /\ Strict' <=> Strict
      /\ Mutations(request.object)' = Mutations(request.object)
      /\ Validations(object)' = Validations(object) /\ Review' = Review
  BY DuesKept DEF Call
<1>2. /\ phase = "mutate" => Mutations(object) \subseteq Bindables
      /\ phase = "validate" => Validations(object) \subseteq Bindables
  BY DueAreChosen DEF IInv
<1>3. /\ current' = First(pending) /\ todo' = Bindables
      /\ UNCHANGED <<module, request, object, phase, pending, succeeded>>
  BY DEF Call
<1>4. Mutating'
  BY <1>1, <1>2, <1>3 DEF Processing, Mutating
<1>5. Validating'
  BY <1>1, <1>2, <1>3 DEF Processing, Validating
<1> QED BY <1>1, <1>3, <1>4, <1>5 DEF Processing, Carried

\* A mutation that does not warn has succeeded, and goes from todo to ok.
LEMMA MutateProcessing ==
  ASSUME IInv, Processing, NEW i \in Bindings, NEW throws \in BOOLEAN,
         NEW changes \in BOOLEAN, Mutate(i, throws, changes)
  PROVE  Processing'
<1>1. /\ Strict' <=> Strict
      /\ Mutations(request.object)' = Mutations(request.object)
  BY DuesKept DEF Mutate
<1>2. /\ phase = "mutate"
      /\ UNCHANGED <<module, request, object, phase, pending, current, succeeded>>
  BY DEF Mutate
<1>3. ASSUME response'.warnings = {}
      PROVE  /\ response.warnings = {}
             /\ todo \cup response.ok \subseteq todo' \cup response'.ok
  <2>1. ~throws
    BY <1>3 DEF Mutate, MutationFailed, IInv, Typed, Response
  <2>2. /\ response'.warnings = response.warnings
        /\ response'.ok = response.ok \cup {i}
    BY <2>1 DEF Mutate, IInv, Typed, Response
  <2>3. todo' = todo \ {i}
    BY <1>3 DEF Mutate, Rejecting
  <2> QED BY <1>3, <2>2, <2>3
<1>4. Mutating'
  BY <1>1, <1>2, <1>3 DEF Processing, Mutating
<1> QED BY <1>2, <1>4 DEF Processing, Validating, Carried

\* A validation goes from todo to ok or to denied.
LEMMA ValidateProcessing ==
  ASSUME IInv, Processing, NEW i \in Bindings, NEW allows \in BOOLEAN, Validate(i, allows)
  PROVE  Processing'
<1>1. /\ Strict' <=> Strict
      /\ Mutations(request.object)' = Mutations(request.object)
      /\ Validations(object)' = Validations(object) /\ Review' = Review
  BY DuesKept DEF Validate
<1>2. /\ phase = "validate"
      /\ UNCHANGED <<module, request, object, phase, pending, current, succeeded>>
  BY DEF Validate
<1>3. todo \cup response.ok \cup response.denied
        \subseteq todo' \cup response'.ok \cup response'.denied
  <2>1. todo' = todo \ {i}
    BY DEF Validate
  <2>2. CASE allows
    BY <2>1, <2>2 DEF Validate, IInv, Typed, Response
  <2>3. CASE ~allows
    BY <2>1, <2>3 DEF Validate, IInv, Typed, Response
  <2> QED BY <2>2, <2>3
<1>4. Validating'
  BY <1>1, <1>2, <1>3 DEF Processing, Validating
<1> QED BY <1>1, <1>2, <1>4 DEF Processing, Mutating, Carried

\* The answer that allows has run all that was due, and without a failure.
LEMMA AnswerProcessing ==
  ASSUME IInv, Processing, Answer
  PROVE  Processing'
<1>1. Strict' <=> Strict /\ Mutations(request.object)' = Mutations(request.object)
  BY DuesKept DEF Answer
<1>2. /\ UNCHANGED <<module, request>> /\ succeeded' = succeeded \cup response.ok
      /\ current # 0 /\ current' = 0 /\ todo = {}
      /\ phase \in WebhookType
  BY DEF Answer, IInv, Typed
<1>3. CASE ~Allowed
  <2>1. phase' = "rejected"
    BY <1>3 DEF Answer
  <2> QED BY <2>1 DEF Processing, Mutating, Validating, Carried
<1>4. CASE Allowed /\ phase = "mutate"
  <2>1. phase' = "mutate"
    BY <1>4 DEF Answer
  <2>2. Strict => Mutations(request.object) \subseteq succeeded'
    <3>1. Strict => response.warnings = {}
      BY <1>4 DEF Allowed, Rejecting, Strict
    <3> QED BY <1>2, <1>4, <3>1 DEF Processing, Mutating
  <2> QED BY <1>1, <2>1, <2>2 DEF Processing, Mutating, Validating, Carried
<1>5. CASE Allowed /\ phase = "validate"
  <2>1. phase' = "validate" /\ UNCHANGED object
    BY <1>5 DEF Answer
  <2>2. Strict => Validations(object) \subseteq succeeded'
    <3>1. response.denied = {}
      BY <1>5 DEF Allowed, karForValidate
    <3> QED BY <1>2, <1>5, <3>1 DEF Processing, Validating
  <2>3. Validations(object)' = Validations(object)
    BY <1>2, <2>1, DuesKept
  <2> QED BY <1>1, <1>2, <1>5, <2>1, <2>2, <2>3 DEF Processing, Mutating, Validating, Carried
<1> QED BY <1>2, <1>3, <1>4, <1>5 DEF WebhookType

\* The first webhook is not passed over: its failure policy is Fail.
LEMMA PassOverProcessing ==
  ASSUME IInv, Processing, PassOver, current # 0
  PROVE  Processing'
<1>1. /\ Strict' <=> Strict
      /\ Mutations(request.object)' = Mutations(request.object)
      /\ Validations(object)' = Validations(object)
  BY DuesKept DEF PassOver
<1>2. /\ phase \in {"mutate", "validate"} /\ pending # {}
      /\ module \in Modules
      /\ Home(Review.object) = Home(request.object)
  BY ReviewFacts DEF IInv, Typed, TypeOK, WebhookType, Chosen, SameObject, Home
<1>3. /\ phase' = phase \/ phase' = "rejected"
      /\ webhookConfigGenerator(module)[current].failurePolicy = "Fail" => phase' = "rejected"
      /\ UNCHANGED succeeded
  BY DEF PassOver
<1>4. ASSUME Strict, phase = "mutate", phase' # "rejected"
      PROVE  Mutations(request.object) \subseteq succeeded
  <2> SUFFICES ASSUME ~(Mutations(request.object) \subseteq succeeded) PROVE FALSE
    OBVIOUS
  <2>1. pending = WebhooksCalled(module, "mutate", request) /\ current = First(pending)
    BY <1>4 DEF Processing, Mutating
  <2>2. "mutate" \in WebhookType
    BY DEF WebhookType
  <2>3. webhookConfigGenerator(module)[current].failurePolicy = "Fail"
    BY <1>2, <1>4, <2>1, <2>2, FirstIsStrict
  <2> QED BY <1>3, <1>4, <2>3
<1>5. ASSUME Strict, phase = "validate", phase' # "rejected"
      PROVE  Validations(object) \subseteq succeeded
  <2> SUFFICES ASSUME ~(Validations(object) \subseteq succeeded) PROVE FALSE
    OBVIOUS
  <2>1. pending = WebhooksCalled(module, "validate", Review) /\ current = First(pending)
    BY <1>5 DEF Processing, Validating
  <2>2. "validate" \in WebhookType
    BY DEF WebhookType
  <2>3. webhookConfigGenerator(module)[current].failurePolicy = "Fail"
    BY <1>2, <1>5, <2>1, <2>2, FirstIsStrict
  <2> QED BY <1>3, <1>5, <2>3
<1> QED BY <1>1, <1>2, <1>3, <1>4, <1>5 DEF Processing, Mutating, Validating, Carried

\* A phase with no webhook to call is one in which nothing was due.
LEMMA NextPhaseProcessing ==
  ASSUME IInv, Processing, NextPhase
  PROVE  Processing'
<1>1. /\ Strict' <=> Strict
      /\ Mutations(request.object)' = Mutations(request.object)
      /\ Validations(object)' = Validations(object) /\ Review' = Review
  BY DuesKept DEF NextPhase
<1>2. /\ WebhooksCalled(module, "mutate", request) = {} => Mutations(request.object) = {}
      /\ WebhooksCalled(module, "validate", Review) = {} => Validations(object) = {}
  BY NoneDue DEF IInv
<1>3. /\ phase \in {"mutate", "validate"} /\ pending = {} /\ current = 0
      /\ UNCHANGED <<module, request, object, current, succeeded>>
  BY DEF NextPhase, IInv, Typed, TypeOK, WebhookType, Decided
<1>4. CASE phase = "mutate"
  <2>1. phase' = "validate" /\ pending' = WebhooksCalled(module, "validate", Review)
    BY <1>4 DEF NextPhase
  <2>2. Strict => Mutations(request.object) \subseteq succeeded
    BY <1>2, <1>3, <1>4 DEF Processing, Mutating
  <2> QED BY <1>1, <1>3, <2>1, <2>2 DEF Processing, Mutating, Validating, Carried
<1>5. CASE phase = "validate"
  <2>1. phase' = "persisted"
    BY <1>5 DEF NextPhase
  <2>2. Strict => Validations(object) \subseteq succeeded
    BY <1>2, <1>3, <1>5 DEF Processing, Validating
  <2> QED BY <1>1, <1>3, <1>5, <2>1, <2>2 DEF Processing, Mutating, Validating, Carried
<1> QED BY <1>3, <1>4, <1>5

\* Every step keeps what is due in sight until it has succeeded.
THEOREM StepProcessing == IInv /\ Processing /\ [Next]_vars => Processing'
<1> SUFFICES ASSUME IInv, Processing, [Next]_vars PROVE Processing'
  OBVIOUS
<1>1. CASE Call
  BY <1>1, CallProcessing
<1>2. CASE \E i \in Bindings, throws \in BOOLEAN, changes \in BOOLEAN :
             Mutate(i, throws, changes)
  BY <1>2, MutateProcessing
<1>3. CASE \E i \in Bindings, allows \in BOOLEAN : Validate(i, allows)
  BY <1>3, ValidateProcessing
<1>4. CASE Answer
  BY <1>4, AnswerProcessing
<1>5. CASE FailCall
  BY <1>5, PassOverProcessing DEF FailCall
<1>6. CASE \E i \in Bindings : ThrowUnprintable(i)
  BY <1>6, PassOverProcessing DEF ThrowUnprintable
<1>7. CASE NextPhase
  BY <1>7, NextPhaseProcessing
<1>8. CASE UNCHANGED vars
  <2>1. /\ Strict' <=> Strict
        /\ Mutations(request.object)' = Mutations(request.object)
        /\ Validations(object)' = Validations(object) /\ Review' = Review
    BY <1>8, DuesKept DEF vars
  <2>2. UNCHANGED <<module, request, object, phase, pending, current, todo, response, succeeded>>
    BY <1>8 DEF vars
  <2> QED BY <2>1, <2>2 DEF Processing, Mutating, Validating, Carried
<1> QED BY <1>1, <1>2, <1>3, <1>4, <1>5, <1>6, <1>7, <1>8, Zenon DEF Next

(***************************************************************************)
(* The status annotations.                                                 *)
(***************************************************************************)

\* The mutations of a capability.
Mine(name) == {j \in Bindings : Binding(j).isMutate /\ Binding(j).capability.name = name}

\* What object o says of each capability is true, if the actions in S have succeeded and
\* those in F failed.
Told(o, S, F) ==
  \A name \in CapabilityName :
    /\ name \in DOMAIN o.status
    /\ \/ Mine(name) \cap (S \cup F) = {} /\ o.status[name] = request.object.status[name]
       \/ Mine(name) \cap S # {} /\ o.status[name] = "succeeded"
       \/ Mine(name) \cap F # {} /\ o.status[name] = "warning"

\* The object as it is tells of the answered calls, and the one a call is working on of
\* this call as well.
Telling ==
  request.operation # "DELETE" /\ phase # "rejected" =>
    /\ Told(object, succeeded, failed)
    /\ phase = "mutate" /\ current # 0 =>
         Told(wrapped, succeeded \cup response.ok, failed \cup response.failed)

\* A call runs what its webhook is for.
OfType == current # 0 => \A i \in todo \cup response.ok : IsOfType(Binding(i), phase)

\* Whether an object tells the truth depends on the module and the request only.
LEMMA ToldKept ==
  ASSUME UNCHANGED <<module, request>>, NEW o, NEW S, NEW F, Told(o, S, F)
  PROVE  Told(o, S, F)'
BY DEF Told, Mine, CapabilityName, Bindings, Binding

\* What other actions have done does not count.
LEMMA ToldMore ==
  ASSUME NEW o, NEW S, NEW F, NEW T, Told(o, S, F), \A i \in T \cap Bindings : ~Binding(i).isMutate
  PROVE  Told(o, S \cup T, F)
<1>1. ASSUME NEW name PROVE Mine(name) \cap T = {}
  BY DEF Mine
<1>2. ASSUME NEW name
      PROVE  /\ Mine(name) \cap (S \cup T) = Mine(name) \cap S
             /\ Mine(name) \cap ((S \cup T) \cup F) = Mine(name) \cap (S \cup F)
  BY <1>1
<1> QED BY <1>2, Zenon DEF Told

\* An action that is done has its capability's status, and no other.
LEMMA ToldMutated ==
  ASSUME request.operation # "DELETE", NEW o, "status" \in DOMAIN o, NEW S, NEW F, Told(o, S, F),
         NEW i \in Bindings, Binding(i).isMutate, NEW p, p.status =
           [o.status EXCEPT ![Binding(i).capability.name] = "succeeded"],
         NEW q, q.status = [o.status EXCEPT ![Binding(i).capability.name] = "warning"]
  PROVE  Told(p, S \cup {i}, F) /\ Told(q, S, F \cup {i})
<1>1. PICK c : c = Binding(i).capability.name
  OBVIOUS
<1>2. c \in CapabilityName /\ c \in DOMAIN o.status /\ i \in Mine(c)
  BY <1>1 DEF Told, CapabilityName, Mine
<1>3. /\ DOMAIN p.status = DOMAIN o.status /\ p.status[c] = "succeeded"
      /\ DOMAIN q.status = DOMAIN o.status /\ q.status[c] = "warning"
  BY <1>1, <1>2
<1>4. \A name \in DOMAIN o.status \ {c} : p.status[name] = o.status[name] /\ q.status[name] = o.status[name]
  BY <1>1
<1>5. ASSUME NEW name \in CapabilityName
      PROVE  /\ name \in DOMAIN p.status
             /\ \/ Mine(name) \cap ((S \cup {i}) \cup F) = {} /\ p.status[name] = request.object.status[name]
                \/ Mine(name) \cap (S \cup {i}) # {} /\ p.status[name] = "succeeded"
                \/ Mine(name) \cap F # {} /\ p.status[name] = "warning"
             /\ name \in DOMAIN q.status
             /\ \/ Mine(name) \cap (S \cup (F \cup {i})) = {} /\ q.status[name] = request.object.status[name]
                \/ Mine(name) \cap S # {} /\ q.status[name] = "succeeded"
                \/ Mine(name) \cap (F \cup {i}) # {} /\ q.status[name] = "warning"
  <2>1. name \in DOMAIN o.status
    BY DEF Told
  <2>2. CASE name = c
    <3>1. Mine(name) \cap (S \cup {i}) # {} /\ Mine(name) \cap (F \cup {i}) # {}
      BY <1>2, <2>2
    <3> QED BY <1>3, <2>1, <2>2, <3>1
  <2>3. CASE name # c
    <3>1. i \notin Mine(name)
      BY <1>1, <2>3 DEF Mine
    <3>2. /\ Mine(name) \cap (S \cup {i}) = Mine(name) \cap S
          /\ Mine(name) \cap ((S \cup {i}) \cup F) = Mine(name) \cap (S \cup F)
          /\ Mine(name) \cap (F \cup {i}) = Mine(name) \cap F
          /\ Mine(name) \cap (S \cup (F \cup {i})) = Mine(name) \cap (S \cup F)
      BY <3>1
    <3>3. p.status[name] = o.status[name] /\ q.status[name] = o.status[name]
      BY <1>4, <2>1, <2>3
    <3>4. \/ Mine(name) \cap (S \cup F) = {} /\ o.status[name] = request.object.status[name]
          \/ Mine(name) \cap S # {} /\ o.status[name] = "succeeded"
          \/ Mine(name) \cap F # {} /\ o.status[name] = "warning"
      BY DEF Told
    <3> QED BY <1>3, <2>1, <3>2, <3>3, <3>4
  <2> QED BY <2>2, <2>3
<1> QED BY <1>5 DEF Told

\* What actions and statuses do to the annotations.
LEMMA StatusFacts ==
  ASSUME request \in Requests, NEW o, SameObject(o), NEW i \in Bindings
  PROVE  /\ "status" \in DOMAIN o
         /\ Changed(o, i).status = o.status
         /\ request.operation # "DELETE" =>
              \A status : updateStatus(o, i, status).status =
                            [o.status EXCEPT ![Binding(i).capability.name] = status]
<1>1. {"kind", "name", "namespace", "changes", "labels", "status"} \subseteq DOMAIN o
  BY AdmissionAssumption DEF SameObject
<1>2. Changed(o, i).status = o.status
  BY <1>1 DEF Changed
<1>3. ASSUME request.operation # "DELETE", NEW status
      PROVE  updateStatus(o, i, status).status =
               [o.status EXCEPT ![Binding(i).capability.name] = status]
  BY <1>1, <1>3 DEF updateStatus
<1> QED BY <1>1, <1>2, <1>3

\* Nothing has happened to a request at the start.
LEMMA InitTelling == Init => Telling /\ OfType
<1> SUFFICES ASSUME Init PROVE Telling /\ OfType
  OBVIOUS
<1>1. /\ module \in Modules /\ request \in Requests /\ object = request.object
      /\ succeeded = {} /\ failed = {} /\ current = 0
  BY DEF Init
<1>2. ASSUME NEW name \in CapabilityName PROVE name \in DOMAIN object.status
  <2>1. PICK i \in Bindings : name = Binding(i).capability.name
    BY DEF CapabilityName
  <2> QED BY <1>1, <2>1, AdmissionAssumption DEF Bindings, Binding
<1>3. Told(object, succeeded, failed)
  BY <1>1, <1>2 DEF Told
<1> QED BY <1>1, <1>3 DEF Telling, OfType

\* A call starts from the object as it is.
LEMMA CallTelling == ASSUME IInv, Telling, Call PROVE Telling' /\ OfType'
<1>1. /\ UNCHANGED <<module, request, object, phase, succeeded, failed>> /\ wrapped' = object
      /\ response' = NoResponse /\ todo' = Bindables
  BY DEF Call
<1>2. PICK o, S, F : o = object /\ S = succeeded /\ F = failed
  OBVIOUS
<1>3. Told(o, S, F) => Told(o, S, F)'
  BY <1>1, ToldKept
<1>4. S \cup response'.ok = S /\ F \cup response'.failed = F /\ response'.ok = {}
  BY <1>1 DEF NoResponse
<1>5. Telling'
  BY <1>1, <1>2, <1>3, <1>4 DEF Telling
<1>6. \A i \in Bindables : IsOfType(Binding(i), phase)
  BY DEF Bindables
<1>7. OfType'
  BY <1>1, <1>4, <1>6 DEF OfType, Binding
<1> QED BY <1>5, <1>7

\* What runs next is something that is to be run.
LEMMA FirstToDo == ASSUME IInv, todo # {} PROVE First(todo) \in todo
<1>1. PICK m \in Modules : m = module
  BY DEF IInv, Typed, Chosen
<1>2. PICK s \in {m.bindings, m.additional} : s = module.bindings
  BY <1>1
<1>3. Len(s) \in Nat /\ DOMAIN s = 1..Len(s)
  BY <1>2, AdmissionAssumption
<1>4. Bindings \subseteq Nat
  BY <1>2, <1>3 DEF Bindings
<1> QED BY <1>4, FirstIsLeast DEF IInv, Typed, TypeOK

\* An action leaves the status that it deserves.
LEMMA MutateTelling ==
  ASSUME IInv, Telling, OfType, NEW i \in Bindings, NEW throws \in BOOLEAN,
         NEW changes \in BOOLEAN, Mutate(i, throws, changes)
  PROVE  Telling' /\ OfType'
<1>1. /\ UNCHANGED <<module, request, object, phase, current, succeeded, failed>>
      /\ phase = "mutate" /\ current # 0 /\ todo # {} /\ i = First(todo) /\ todo' \subseteq todo
  BY DEF Mutate
<1>2. IsOfType(Binding(i), phase) /\ i \in todo
  BY <1>1, FirstToDo DEF OfType
<1>3. Binding(i).isMutate
  BY <1>1, <1>2 DEF IsOfType
<1>4. /\ throws => response'.ok = response.ok /\ response'.failed = response.failed \cup {i}
      /\ ~throws => response'.ok = response.ok \cup {i} /\ response'.failed = response.failed
  BY DEF Mutate, MutationFailed, IInv, Typed, Response
<1>5. OfType'
  BY <1>1, <1>2, <1>4 DEF OfType, Binding
<1>6. ASSUME request.operation # "DELETE"
      PROVE  /\ Told(object, succeeded, failed)'
             /\ Told(wrapped, succeeded \cup response.ok, failed \cup response.failed)'
  <2>1. /\ Told(object, succeeded, failed)
        /\ Told(wrapped, succeeded \cup response.ok, failed \cup response.failed)
    BY <1>1, <1>6 DEF Telling
  <2>2. Told(object, succeeded, failed)'
    <3>1. PICK o, S, F : o = object /\ S = succeeded /\ F = failed
      OBVIOUS
    <3>2. Told(o, S, F)'
      BY <1>1, <2>1, <3>1, ToldKept
    <3> QED BY <1>1, <3>1, <3>2
  <2>3. PICK w, c : w = wrapped /\ c = Binding(i).capability.name
    OBVIOUS
  <2>4. PICK started : started = updateStatus(w, i, "started")
    OBVIOUS
  <2>5. PICK ran : ran = IF changes THEN Changed(started, i) ELSE started
    OBVIOUS
  <2>6. PICK status : status = IF throws THEN "warning" ELSE "succeeded"
    OBVIOUS
  <2>7. wrapped' = updateStatus(ran, i, status)
    BY <2>3, <2>4, <2>5, <2>6, Zenon DEF Mutate
  <2>8. SameObject(w) /\ w.changes \subseteq Bindings /\ request \in Requests
    BY <2>3 DEF IInv, Typed, Chosen, TypeOK
  <2>9. SameObject(started) /\ started.changes \subseteq Bindings
    BY <2>4, <2>8, ChangesKeep
  <2>10. SameObject(ran)
    BY <2>5, <2>8, <2>9, ChangesKeep
  <2>11. started.status = [w.status EXCEPT ![c] = "started"] /\ "status" \in DOMAIN w
    BY <1>6, <2>3, <2>4, <2>8, StatusFacts
  <2>12. ran.status = started.status
    BY <2>5, <2>8, <2>9, StatusFacts
  <2>13. wrapped'.status = [ran.status EXCEPT ![c] = status]
    BY <1>6, <2>3, <2>7, <2>8, <2>10, StatusFacts
  <2>14. c \in DOMAIN w.status
    BY <2>1, <2>3 DEF Told, CapabilityName
  <2>15. wrapped'.status = [w.status EXCEPT ![c] = status]
    BY <2>11, <2>12, <2>13, <2>14
  <2>16. PICK S, F : S = succeeded \cup response.ok /\ F = failed \cup response.failed
    OBVIOUS
  <2>17. PICK o, p, q : /\ o = wrapped'
                        /\ p = [status |-> [w.status EXCEPT ![c] = "succeeded"]]
                        /\ q = [status |-> [w.status EXCEPT ![c] = "warning"]]
    OBVIOUS
  <2>18. Told(p, S \cup {i}, F) /\ Told(q, S, F \cup {i})
    <3>1. /\ p.status = [w.status EXCEPT ![Binding(i).capability.name] = "succeeded"]
          /\ q.status = [w.status EXCEPT ![Binding(i).capability.name] = "warning"]
      BY <2>3, <2>17
    <3> QED BY <1>3, <1>6, <2>1, <2>3, <2>11, <2>16, <3>1, ToldMutated
  <2>19. CASE throws
    <3>1. o.status = q.status
      BY <2>6, <2>15, <2>17, <2>19
    <3>2. Told(o, S, F \cup {i})
      BY <2>18, <3>1 DEF Told
    <3>3. (succeeded \cup response.ok)' = S /\ (failed \cup response.failed)' = F \cup {i}
      BY <1>1, <1>4, <2>16, <2>19
    <3>4. Told(o, S, F \cup {i})'
      BY <1>1, <3>2, ToldKept
    <3> QED BY <2>2, <2>17, <3>3, <3>4
  <2>20. CASE ~throws
    <3>1. o.status = p.status
      BY <2>6, <2>15, <2>17, <2>20
    <3>2. Told(o, S \cup {i}, F)
      BY <2>18, <3>1 DEF Told
    <3>3. (succeeded \cup response.ok)' = S \cup {i} /\ (failed \cup response.failed)' = F
      BY <1>1, <1>4, <2>16, <2>20
    <3>4. Told(o, S \cup {i}, F)'
      BY <1>1, <3>2, ToldKept
    <3> QED BY <2>2, <2>17, <3>3, <3>4
  <2> QED BY <2>19, <2>20
<1> QED BY <1>1, <1>5, <1>6 DEF Telling

\* A step that leaves the object and what is known of it alone.
LEMMA SameTelling ==
  ASSUME Telling, UNCHANGED <<module, request, object, succeeded, failed>>,
         phase' = "rejected" \/ current' = 0 \/ phase' # "mutate", phase = "rejected" => phase' = phase
  PROVE  Telling'
<1>1. PICK o, S, F : o = object /\ S = succeeded /\ F = failed
  OBVIOUS
<1>2. Told(o, S, F) => Told(o, S, F)'
  BY ToldKept
<1> QED BY <1>1, <1>2 DEF Telling

\* What a mutating call says becomes what has happened, and its object the object.
LEMMA AnswerTelling == ASSUME IInv, Telling, OfType, Answer PROVE Telling' /\ OfType'
<1>1. /\ UNCHANGED <<module, request>> /\ current # 0 /\ current' = 0
      /\ succeeded' = succeeded \cup response.ok /\ failed' = failed \cup response.failed
      /\ phase \in WebhookType
  BY DEF Answer, IInv, Typed
<1>2. OfType'
  BY <1>1 DEF OfType
<1>3. CASE phase' = "rejected"
  BY <1>2, <1>3 DEF Telling
<1>4. ASSUME phase' # "rejected", request.operation # "DELETE" PROVE Told(object, succeeded, failed)'
  <2>1. UNCHANGED phase /\ (phase = "mutate" => object' = wrapped) /\ (phase # "mutate" => object' = object)
    BY <1>4 DEF Answer
  <2>2. PICK S, F : S = succeeded \cup response.ok /\ F = failed \cup response.failed
    OBVIOUS
  <2>3. CASE phase = "mutate"
    <3>1. PICK o : o = wrapped
      OBVIOUS
    <3>2. Told(o, S, F)
      BY <1>1, <1>4, <2>2, <2>3, <3>1 DEF Telling
    <3>3. Told(o, S, F)'
      BY <1>1, <3>2, ToldKept
    <3> QED BY <1>1, <2>1, <2>2, <2>3, <3>1, <3>3
  <2>4. CASE phase = "validate"
    <3>1. PICK o, S0, T : o = object /\ S0 = succeeded /\ T = response.ok
      OBVIOUS
    <3>2. F = failed
      BY <1>1, <2>2, <2>4 DEF IInv, CallsTell
    <3>3. \A i \in T \cap Bindings : ~Binding(i).isMutate
      BY <1>1, <2>4, <3>1, AdmissionAssumption DEF OfType, IsOfType, IInv, Typed, Chosen, Bindings, Binding
    <3>4. Told(o, S0, F)
      BY <1>1, <1>4, <2>4, <3>1, <3>2 DEF Telling
    <3>5. Told(o, S0 \cup T, F)
      BY <3>3, <3>4, ToldMore
    <3>6. Told(o, S0 \cup T, F)'
      BY <1>1, <3>5, ToldKept
    <3> QED BY <1>1, <2>1, <2>2, <2>4, <3>1, <3>6
  <2> QED BY <1>1, <2>3, <2>4 DEF WebhookType
<1> QED BY <1>1, <1>2, <1>3, <1>4 DEF Telling

\* Every step keeps the object's tale true.
LEMMA StepTelling == IInv /\ Telling /\ OfType /\ [Next]_vars => Telling' /\ OfType'
<1> SUFFICES ASSUME IInv, Telling, OfType, [Next]_vars PROVE Telling' /\ OfType'
  OBVIOUS
<1>1. CASE Call
  BY <1>1, CallTelling
<1>2. CASE \E i \in Bindings, throws \in BOOLEAN, changes \in BOOLEAN : Mutate(i, throws, changes)
  BY <1>2, MutateTelling
<1>3. ASSUME NEW i \in Bindings, NEW allows \in BOOLEAN, Validate(i, allows) PROVE Telling' /\ OfType'
  <2>1. /\ UNCHANGED <<module, request, object, phase, current, succeeded, failed>>
        /\ phase = "validate" /\ todo # {} /\ i = First(todo) /\ todo' \subseteq todo
        /\ response'.ok \subseteq response.ok \cup {i}
    BY <1>3 DEF Validate, IInv, Typed, Response
  <2>2. i \in todo
    BY <2>1, FirstToDo
  <2>3. Telling'
    BY <2>1, SameTelling
  <2>4. OfType'
    BY <2>1, <2>2 DEF OfType, Binding
  <2> QED BY <2>3, <2>4
<1>4. CASE Answer
  BY <1>4, AnswerTelling
<1>5. ASSUME PassOver, current # 0 PROVE Telling' /\ OfType'
  <2>1. /\ UNCHANGED <<module, request, object, succeeded, failed>> /\ current' = 0
        /\ phase' = phase \/ phase' = "rejected"
    BY <1>5 DEF PassOver
  <2>2. Telling'
    BY <2>1, SameTelling
  <2> QED BY <2>1, <2>2 DEF OfType
<1>6. CASE NextPhase
  <2>1. /\ UNCHANGED <<module, request, object, succeeded, failed, current>> /\ current = 0
        /\ phase # "rejected"
    BY <1>6 DEF NextPhase, Decided
  <2>2. Telling'
    BY <2>1, SameTelling
  <2> QED BY <2>1, <2>2 DEF OfType
<1>7. CASE UNCHANGED vars
  <2>1. PICK o, S, F, w, T, G :
          /\ o = object /\ S = succeeded /\ F = failed
          /\ w = wrapped /\ T = succeeded \cup response.ok /\ G = failed \cup response.failed
    OBVIOUS
  <2>2. (Told(o, S, F) => Told(o, S, F)') /\ (Told(w, T, G) => Told(w, T, G)')
    BY <1>7, ToldKept DEF vars
  <2> QED BY <1>7, <2>1, <2>2 DEF vars, Telling, OfType, Binding
<1> QED BY <1>1, <1>2, <1>3, <1>4, <1>5, <1>6, <1>7, Zenon DEF Next, FailCall, ThrowUnprintable

(***************************************************************************)
(* One call for a mutation.                                                *)
(***************************************************************************)

HasHome(obj) == Home(obj) # ""

\* What is in a namespace is sent to one webhook at most: the namespace of each
\* additional one is taken from the first, and no two have the same.
LEMMA SentToOne ==
  ASSUME module \in Modules, NEW type \in WebhookType, NEW req, HasHome(req.object)
  PROVE  \A v, w \in WebhooksCalled(module, type, req) : v = w
<1> DEFINE webhooks == webhookConfigGenerator(module)
           ns == Home(req.object)
<1>1. PICK n \in Nat : /\ n = Len(module.additional)
                      /\ DOMAIN module.additional = 1..n /\ DOMAIN webhooks = 1..(n + 1)
  BY WebhooksMade, Zenon
<1>2. /\ webhooks[1] = FirstWebhook(module)
      /\ \A j \in DOMAIN module.additional : webhooks[j + 1] = AdditionalWebhook(module, j)
  BY WebhooksMade, Zenon
<1>3. \A w \in WebhooksCalled(module, type, req) :
        w \in DOMAIN webhooks /\ SelectedBy(webhooks[w], req.object)
  BY DEF WebhooksCalled
<1>4. \A w \in DOMAIN webhooks : SelectedBy(webhooks[w], req.object) =>
        IF webhooks[w].operator = "In" THEN ns \in webhooks[w].values
                                       ELSE ns \notin webhooks[w].values
  BY Zenon DEF SelectedBy, HasHome, Home
<1> HIDE DEF webhooks, ns
<1>5. ASSUME NEW w \in WebhooksCalled(module, type, req)
      PROVE  \/ w = 1 /\ \A j \in DOMAIN module.additional : module.additional[j].namespace # ns
             \/ \E j \in DOMAIN module.additional :
                  w = j + 1 /\ module.additional[j].namespace = ns
  <2>1. w \in 1..(n + 1) /\ IF webhooks[w].operator = "In" THEN ns \in webhooks[w].values
                                                          ELSE ns \notin webhooks[w].values
    BY <1>1, <1>3, <1>4
  <2>2. CASE w = 1
    <3>1. webhooks[w] = FirstWebhook(module)
      BY <1>2, <2>2
    <3>2. webhooks[w].operator = "NotIn"
      BY <3>1 DEF FirstWebhook
    <3>3. ns \notin webhooks[w].values
      BY <2>1, <3>2
    <3>4. \A j \in DOMAIN module.additional : module.additional[j].namespace \in webhooks[w].values
      BY <3>1 DEF FirstWebhook
    <3> QED BY <2>2, <3>3, <3>4
  <2>3. CASE w # 1
    <3>1. PICK j \in DOMAIN module.additional : w = j + 1
      <4>1. w \in 1..(n + 1)
        BY <2>1
      <4>2. w - 1 \in DOMAIN module.additional /\ w = (w - 1) + 1
        BY <1>1, <2>3, <4>1
      <4> QED BY <4>2
    <3>2. webhooks[w] = AdditionalWebhook(module, j)
      BY <1>2, <3>1
    <3>3. /\ webhooks[w].operator = "In"
          /\ webhooks[w].values = {module.additional[j].namespace}
      BY <3>2 DEF AdditionalWebhook
    <3>4. ns \in webhooks[w].values
      BY <2>1, <3>3
    <3>5. module.additional[j].namespace = ns
      BY <3>3, <3>4
    <3> QED BY <3>1, <3>5
  <2> QED BY <2>2, <2>3
<1>6. \A j, k \in DOMAIN module.additional :
        module.additional[j].namespace = module.additional[k].namespace => j = k
  <2>1. PICK m \in Modules : m = module
    OBVIOUS
  <2>2. \A j, k \in DOMAIN m.additional :
          m.additional[j].namespace = m.additional[k].namespace => j = k
    BY AdmissionAssumption
  <2> QED BY <2>1, <2>2
<1> QED BY <1>5, <1>6

\* Of an object in a namespace one mutating call is, or was, to be answered.
OneCall ==
  HasHome(request.object) =>
    /\ mutated = 0 \/ (mutated = 1 /\ (phase = "mutate" => pending = {}))
    /\ phase = "mutate" => \A v, w \in pending : v = w

\* The invariant holds at first.
LEMMA InitOneCall == Init => OneCall
<1> SUFFICES ASSUME Init PROVE OneCall
  OBVIOUS
<1>1. module \in Modules /\ pending = WebhooksCalled(module, "mutate", request)
  BY DEF Init
<1>2. ASSUME HasHome(request.object) PROVE \A v, w \in pending : v = w
  BY <1>1, <1>2, SentToOne DEF WebhookType
<1>3. mutated = 0
  BY DEF Init
<1> QED BY <1>2, <1>3 DEF OneCall

\* An answer is to the one call, and no step adds a webhook to the mutating phase.
LEMMA StepOneCall == IInv /\ OneCall /\ [Next]_vars => OneCall'
<1> SUFFICES ASSUME IInv, OneCall, [Next]_vars PROVE OneCall'
  OBVIOUS
<1>1. ASSUME UNCHANGED <<request, mutated>>, phase' = "mutate" => phase = "mutate",
             pending' \subseteq pending \/ phase' # "mutate"
      PROVE  OneCall'
  BY <1>1 DEF OneCall, HasHome, Home
<1>2. CASE Call \/ UNCHANGED vars
  BY <1>1, <1>2 DEF Call, vars
<1>3. CASE \E i \in Bindings, throws \in BOOLEAN, changes \in BOOLEAN : Mutate(i, throws, changes)
  BY <1>1, <1>3 DEF Mutate
<1>4. CASE \E i \in Bindings, allows \in BOOLEAN : Validate(i, allows)
  BY <1>1, <1>4 DEF Validate
<1>5. CASE Answer
  <2>1. CASE phase = "mutate"
    <3>1. current \in pending /\ UNCHANGED request /\ mutated' = mutated + 1
      BY <1>5, <2>1 DEF Answer, IInv, Typed, TypeOK
    <3>2. phase' = "rejected" \/ pending' = pending \ {current}
      BY <1>5 DEF Answer
    <3> SUFFICES ASSUME HasHome(request.object)'
                 PROVE  mutated' = 1 /\ (phase' = "mutate" => pending' = {})
      BY DEF OneCall
    <3>3. HasHome(request.object)
      BY <3>1 DEF HasHome, Home
    <3>4. \A v \in pending : v = current
      BY <2>1, <3>1, <3>3 DEF OneCall
    <3>5. mutated = 0
      BY <2>1, <3>1, <3>3 DEF OneCall
    <3>6. phase' = "mutate" => pending' = {}
      BY <3>2, <3>4
    <3> QED BY <3>1, <3>5, <3>6
  <2>2. CASE phase # "mutate"
    <3>1. /\ UNCHANGED <<request, mutated>> /\ phase' \in {phase, "rejected"}
      BY <1>5, <2>2 DEF Answer
    <3> QED BY <1>1, <2>2, <3>1
  <2> QED BY <2>1, <2>2
<1>6. CASE PassOver
  <2>1. /\ UNCHANGED <<request, mutated>> /\ phase' \in {phase, "rejected"}
        /\ pending' \subseteq pending
    BY <1>6 DEF PassOver
  <2> QED BY <1>1, <2>1
<1>7. CASE NextPhase
  <2>1. UNCHANGED <<request, mutated>> /\ phase' # "mutate"
    BY <1>7 DEF NextPhase
  <2> QED BY <1>1, <2>1
<1> QED BY <1>2, <1>3, <1>4, <1>5, <1>6, <1>7, Zenon DEF Next, FailCall, ThrowUnprintable

(***************************************************************************)
(* What is proved of every request.                                        *)
(***************************************************************************)

\* The variables keep their types, for any modules and requests.
THEOREM TypeCorrect == Spec => []TypeOK
<1>1. IInv => TypeOK
  BY DEF IInv, Typed
<1> QED BY <1>1, SpecInv, PTL

\* What a validation denies, or throws at, is stored only if a call without an
\* answer was passed over.
THEOREM DenialsStand == Spec => []DenialStands
<1>1. IInv => DenialStands
  BY DEF IInv, NothingAgainst, DenialStands
<1> QED BY <1>1, SpecInv, PTL

\* Under onError reject an object is stored only if no mutation of it has failed.
THEOREM FailuresReject == Spec => []RejectMeansRejected
<1>1. IInv => RejectMeansRejected
  BY DEF IInv, NothingAgainst, RejectMeansRejected
<1> QED BY <1>1, SpecInv, PTL

\* A client is warned of every mutation that has failed.
THEOREM FailuresWarn == Spec => []FailuresAreToldOf
<1>1. IInv => FailuresAreToldOf
  BY DEF IInv, NothingAgainst, FailuresAreToldOf
<1> QED BY <1>1, SpecInv, PTL

\* Under onError reject nothing is stored that has not been through every mutation
\* and validation meant for it: the rules of the webhooks, the filters and the checks
\* of the build leave no gap, whatever the bindings, the additional webhooks and the
\* request, and no failure opens one.
THEOREM NothingUnprocessed == Spec => []RejectMeansProcessed
<1>1. Spec => []Processing
  BY InitProcessing, StepProcessing, SpecInv, PTL DEF Spec
<1>2. Processing => RejectMeansProcessed
  BY DEF Processing, Carried, RejectMeansProcessed
<1> QED BY <1>1, <1>2, PTL

\* A stored object says of each capability what has happened to this request, and of
\* one that had no action for it what it said before.
THEOREM StatusesTell == Spec => []StatusTells
<1>1. Spec => [](Telling /\ OfType)
  BY InitTelling, StepTelling, SpecInv, PTL DEF Spec
<1>2. Telling => StatusTells
  BY DEF Telling, Told, Mine, StatusTells
<1> QED BY <1>1, <1>2, PTL
\* An object in a namespace is mutated in one call, whatever the additional webhooks.
THEOREM MutatesOnce == Spec => []MutatedOnce
<1>1. Spec => []OneCall
  BY InitOneCall, StepOneCall, SpecInv, PTL DEF Spec
<1>2. OneCall => MutatedOnce
  <2>1. mutated = 0 \/ mutated = 1 => mutated <= 1
    OBVIOUS
  <2> QED BY <2>1 DEF OneCall, MutatedOnce, HasHome
<1> QED BY <1>1, <1>2, PTL
=============================================================================

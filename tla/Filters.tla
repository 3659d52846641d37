------------------------------ MODULE Filters ------------------------------
(***************************************************************************)
(* Which objects an action is for: the filters of a binding, of its        *)
(* capability and of the module's configuration, as admission requests     *)
(* (shouldSkipRequest) and watch events (filterNoMatchReason) are held     *)
(* against them. The code answers with the first reason not to run the     *)
(* action, or ""; here the answer is whether there is one.                 *)
(*                                                                         *)
(* A field that is not given is "", {} or the function of no arguments;    *)
(* Labels and annotations are functions from the keys that are there.      *)
(***************************************************************************)

CONSTANT Matches  \* Matches[r]: the strings r matches, for each r that is a regular expression

(***************************************************************************)
(* The adjudicators, named as in filter/adjudicators.                      *)
(***************************************************************************)

mismatchedDeletionTimestamp(binding, obj) ==
  binding.deletionTimestamp /\ ~obj.deletionTimestamp

mismatchedName(binding, obj) == binding.name \notin {"", obj.name}

\* A pattern that does not compile matches nothing.
mismatchedNameRegex(binding, obj) ==
  /\ binding.regexName # ""
  /\ \/ binding.regexName \notin DOMAIN Matches
     \/ obj.name \notin Matches[binding.regexName]

mismatchedNamespace(binding, obj) ==
  binding.namespaces # {} /\ obj.namespace \notin binding.namespaces

\* All patterns are compiled first: one that is bad makes them all match nothing.
mismatchedNamespaceRegex(binding, obj) ==
  /\ binding.regexNamespaces # {}
  /\ \/ ~(binding.regexNamespaces \subseteq DOMAIN Matches)
     \/ \A r \in binding.regexNamespaces : obj.namespace \notin Matches[r]

\* A key defined without a value only has to be there.
metasMismatch(defined, carried) ==
  \E k \in DOMAIN defined :
    \/ k \notin DOMAIN carried
    \/ defined[k] # "" /\ carried[k] # defined[k]

\* The operations whose name is part of the event's name.
OperationsIn(event) ==
  IF event = "CREATEORUPDATE" THEN {"CREATE", "UPDATE"} ELSE {event}

\* Mutant of operationMatchesEvent: the third alternative is left out.
operationEqualsEvent(operation, event) == event \in {"*", operation}

operationMatchesEvent(operation, event) ==
  \/ event = "*"
  \/ operation = event
  \/ operation \in OperationsIn(event)

mismatchedGroup(binding, req) == binding.kind.group \notin {"", req.kind.group}
mismatchedVersion(binding, req) == binding.kind.version \notin {"", req.kind.version}
mismatchedKind(binding, req) == binding.kind.kind \notin {"", req.kind.kind}

misboundNamespace(binding) ==
  binding.kind.kind = "Namespace" /\ binding.namespaces # {}

misboundDeleteWithDeletionTimestamp(binding) ==
  binding.event = "DELETE" /\ binding.deletionTimestamp

\* The namespaces a binding asks for must all be the capability's.
unbindableNamespaces(capabilityNamespaces, binding) ==
  capabilityNamespaces # {} /\ ~(binding.namespaces \subseteq capabilityNamespaces)

IsNamespace(obj) == obj.kind = "Namespace"

uncarryableNamespace(capabilityNamespaces, obj) ==
  /\ capabilityNamespaces # {}
  /\ IF IsNamespace(obj)
     THEN obj.name \notin capabilityNamespaces
     ELSE obj.namespace \notin capabilityNamespaces \cup {""}

missingCarriableNamespace(capabilityNamespaces, obj) ==
  /\ capabilityNamespaces # {}
  /\ IF IsNamespace(obj)
     THEN obj.name \notin capabilityNamespaces
     ELSE obj.namespace = ""

carriesIgnoredNamespace(ignoredNamespaces, obj) ==
  /\ ignoredNamespaces # {}
  /\ IF IsNamespace(obj)
     THEN obj.name \in ignoredNamespaces
     ELSE obj.namespace # "" /\ obj.namespace \in ignoredNamespaces

(***************************************************************************)
(* The two filters.                                                        *)
(***************************************************************************)

\* What both ask of the object.
MismatchedObject(binding, obj, capabilityNamespaces, ignoredNamespaces) ==
  \/ mismatchedDeletionTimestamp(binding, obj)
  \/ mismatchedName(binding, obj)
  \/ unbindableNamespaces(capabilityNamespaces, binding)
  \/ uncarryableNamespace(capabilityNamespaces, obj)
  \/ mismatchedNamespace(binding, obj)
  \/ metasMismatch(binding.labels, obj.labels)
  \/ metasMismatch(binding.annotations, obj.annotations)
  \/ mismatchedNamespaceRegex(binding, obj)
  \/ mismatchedNameRegex(binding, obj)
  \/ carriesIgnoredNamespace(ignoredNamespaces, obj)
  \/ missingCarriableNamespace(capabilityNamespaces, obj)

\* req.object is the object the request is about, the old one of a DELETE.
shouldSkipRequest(binding, req, capabilityNamespaces, ignoredNamespaces) ==
  \/ misboundDeleteWithDeletionTimestamp(binding)
  \/ ~operationMatchesEvent(req.operation, binding.event)
  \/ mismatchedGroup(binding, req)
  \/ mismatchedVersion(binding, req)
  \/ mismatchedKind(binding, req)
  \/ MismatchedObject(binding, req.object, capabilityNamespaces, ignoredNamespaces)

\* The watch has chosen kind and event already.
filterNoMatchReason(binding, obj, capabilityNamespaces, ignoredNamespaces) ==
  \/ misboundNamespace(binding)
  \/ MismatchedObject(binding, obj, capabilityNamespaces, ignoredNamespaces)
=============================================================================

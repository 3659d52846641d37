---------------------------- MODULE Compliance ----------------------------
(***************************************************************************)
(* What the build demands of the namespaces in a module: the checks of     *)
(* helpers.ts that assets.ts makes of every capability.                    *)
(***************************************************************************)
EXTENDS Filters, Integers, Sequences

ignoredNamespaceConflict(ignoredNamespaces, bindingNamespaces) ==
  bindingNamespaces \cap ignoredNamespaces # {}

bindingAndCapabilityNSConflict(bindingNamespaces, capabilityNamespaces) ==
  /\ capabilityNamespaces # {}
  /\ ~(bindingNamespaces \subseteq capabilityNamespaces)

matchesRegex(r, namespace) == namespace \in Matches[r]

\* Whether the namespace filters of a binding pass. The code collects those of a
\* capability's bindings and checks each filter by itself.
namespaceComplianceValidator(binding, ignoredNamespaces) ==
  LET capabilityNamespaces == binding.capability.namespaces
  IN /\ ~ignoredNamespaceConflict(ignoredNamespaces, binding.namespaces)
     /\ ~bindingAndCapabilityNSConflict(binding.namespaces, capabilityNamespaces)
     /\ \A r \in binding.regexNamespaces :
          /\ capabilityNamespaces # {} =>
               \E n \in capabilityNamespaces : matchesRegex(r, n)
          /\ ~\E n \in ignoredNamespaces : matchesRegex(r, n)

\* The build of a module: alwaysIgnore.namespaces binds every binding, that of
\* the admission controller only the mutating ones.
Builds(module) ==
  \A i \in DOMAIN module.bindings :
    LET binding == module.bindings[i]
    IN /\ namespaceComplianceValidator(binding, module.alwaysIgnore)
       /\ binding.isMutate => namespaceComplianceValidator(binding, module.admissionIgnore)

\* getIgnoreNamespaces, without the environment's additions.
getIgnoreNamespaces(module) ==
  IF module.alwaysIgnore # {} THEN module.alwaysIgnore ELSE module.admissionIgnore
=============================================================================

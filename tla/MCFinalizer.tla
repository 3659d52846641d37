---------------------------- MODULE MCFinalizer ----------------------------
(* Small instance: one other controller with a finalizer, chains with and without *)
(* filters, and names in namespaces that are ignored or not.                      *)
EXTENDS Finalizer

CONSTANT backup

MCForeign == {backup}
MCVerdicts == {"done", "keep", "throw"}
MCDone == {"done"}

MCMatches == [r \in {"^o"} |-> {"one"}]
Tier == [k \in {"tier"} |-> "db"]
MCLabelings == {None, Tier}
MCUnlabelled == {None}
MCPlaces == {[name |-> "one", namespace |-> n] : n \in {"app", "system"}}
MCApp == {[name |-> "one", namespace |-> "app"]}

ConfigMap == When([group |-> "", version |-> "v1", kind |-> "ConfigMap"])

Labelled ==
  [chain |-> [binding |-> WithLabel(InNamespace(bindEvent(ConfigMap, "CREATE"), {"app"}), "tier", ""),
              methods |-> {"Reconcile", "Finalize"}],
   namespaces |-> {"app", "system"},
   alwaysIgnore |-> {"system"}, admissionIgnore |-> {}, watchIgnore |-> {"app"}]

Unlabelled ==
  [chain |-> [binding |-> WithNameRegex(bindEvent(ConfigMap, "CREATEORUPDATE"), "^o"),
              methods |-> {"Watch", "Finalize"}],
   namespaces |-> {},
   alwaysIgnore |-> {}, admissionIgnore |-> {"system"}, watchIgnore |-> {"system"}]

MCModules == {Labelled, Unlabelled}
MCSimple == {Unlabelled}

\* Not ignored by admission, ignored by the watch.
MCIgnoredByWatch == {[Unlabelled EXCEPT !.admissionIgnore = {}]}
=============================================================================

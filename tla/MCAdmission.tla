---------------------------- MODULE MCAdmission ----------------------------
(* Small instance: config maps, namespaces and cluster roles, pairs of actions. *)
EXTENDS Admission

None == [k \in {} |-> ""]
App(v) == [k \in {"app"} |-> v]

MCMatches == [r \in {"w", ".*-system"} |->
                IF r = "w" THEN {"web", "a"} ELSE {"kube-system", "pepr-system"}]

ConfigMap == [group |-> "", version |-> "v1", kind |-> "ConfigMap", plural |-> ""]
NamespaceKind == [group |-> "", version |-> "v1", kind |-> "Namespace", plural |-> "namespaces"]
ClusterRole == [group |-> "rbac", version |-> "v1", kind |-> "ClusterRole", plural |-> ""]

MCDefaultPlural == [k \in {"ConfigMap", "ClusterRole"} |->
                      IF k = "ConfigMap" THEN "configmaps" ELSE "clusterroles"]

Anywhere == [name |-> "one", namespaces |-> {}]
Web == [name |-> "two", namespaces |-> {"web"}]

Bind(capability, kind, event) ==
  [capability |-> capability, kind |-> kind, event |-> event, name |-> "", regexName |-> "",
   namespaces |-> {}, regexNamespaces |-> {}, labels |-> None, annotations |-> None,
   deletionTimestamp |-> FALSE, isMutate |-> TRUE, isValidate |-> FALSE, sets |-> None]

Validating(b) == [b EXCEPT !.isMutate = FALSE, !.isValidate = TRUE]

MCMutating == {
  Bind(Anywhere, ConfigMap, "CREATEORUPDATE"),
  [Bind(Anywhere, ConfigMap, "*") EXCEPT !.sets = App("x")],
  [Bind(Web, ConfigMap, "CREATE") EXCEPT !.namespaces = {"web"}, !.labels = App("")],
  [Bind(Anywhere, ConfigMap, "UPDATE") EXCEPT !.regexNamespaces = {"w"}],
  [Bind(Anywhere, ConfigMap, "UPDATE") EXCEPT !.deletionTimestamp = TRUE],
  Bind(Web, NamespaceKind, "CREATE"),
  Bind(Anywhere, ClusterRole, "CREATE")}

MCValidating == {
  Validating(Bind(Anywhere, ConfigMap, "*")),
  Validating([Bind(Web, ConfigMap, "CREATE") EXCEPT !.labels = App("x")]),
  Validating([Bind(Anywhere, ConfigMap, "DELETE") EXCEPT !.regexName = "w"])}

\* The namespace of a module that does not build: web for a capability of ops only.
Misplaced ==
  [Bind([name |-> "three", namespaces |-> {"ops", "web"}], ConfigMap, "CREATE")
     EXCEPT !.namespaces = {"web", "all"}]

MCBindings ==
  {<<b, c>> : b \in MCMutating \cup {Misplaced}, c \in MCMutating}
    \cup {<<b, c>> : b \in MCMutating, c \in MCValidating}
    \cup {<<b, c>> : b \in MCValidating, c \in MCValidating}

MCModules ==
  [bindings : MCBindings, onError : {"ignore", "reject"},
   alwaysIgnore : {{}, {"ops"}}, admissionIgnore : {{}, {"ops"}},
   additional : {<< >>, <<[namespace |-> "web", failurePolicy |-> "Ignore"]>>,
                 <<[namespace |-> "web", failurePolicy |-> "Fail"]>>}]

Object(kind, name, namespace, labels) ==
  [kind |-> kind.kind, name |-> name, namespace |-> namespace, labels |-> labels,
   annotations |-> None, deletionTimestamp |-> FALSE, changes |-> {},
   status |-> [c \in {"one", "two", "three"} |-> ""]]

Request(operation, kind, resource, obj) ==
  [operation |-> operation, kind |-> kind, resource |-> resource, object |-> obj]

MCRequests ==
  {Request(op, ConfigMap, "configmaps", Object(ConfigMap, "a", n, l)) :
     op \in {"CREATE", "UPDATE", "DELETE"}, n \in {"web", "ops"}, l \in {None, App("y")}}
    \cup {Request("UPDATE", ConfigMap, "configmaps",
                  [Object(ConfigMap, "a", "web", None) EXCEPT
                     !.deletionTimestamp = TRUE, !.status["one"] = "warning"])}
    \cup {Request("CREATE", NamespaceKind, "namespaces",
                  Object(NamespaceKind, n, "", None)) : n \in {"web", "kube-system"}}
    \cup {Request("CREATE", ClusterRole, "clusterroles",
                  Object(ClusterRole, "a", "", None))}
=============================================================================

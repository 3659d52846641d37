------------------------- MODULE MCReconcileQueue -------------------------
(* Small instance: three Reconcile bindings and a Watch binding, on two    *)
(* namespaced objects of one kind and a cluster-scoped object of another.  *)
EXTENDS ReconcileQueue

CONSTANTS create, any, nodes, watch

one == [kind |-> "Pod", ns |-> "default", name |-> "one"]
two == [kind |-> "Pod", ns |-> "default", name |-> "two"]
node == [kind |-> "Node", ns |-> Absent, name |-> "one"]

MCBinding == {create, any, nodes, watch}
MCQueued == {create, any, nodes}
MCObject == {one, two, node}
MCDelivers ==
  [b \in MCBinding |->
     IF b = any THEN {one, two} ELSE IF b = nodes THEN {node} ELSE {one}]
MCPhaseMatch ==
  [b \in MCBinding |->
     IF b = create THEN {"Added"}
     ELSE IF b = any THEN {"Added", "Modified"} ELSE {"Modified"}]
MCFilterMatch == [b \in MCBinding |-> IF b = any THEN {one, two} ELSE MCDelivers[b]]
MCKindShown == {TRUE}
MCKindSometimesShown == {TRUE, FALSE}
=============================================================================

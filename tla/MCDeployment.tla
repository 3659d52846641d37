---------------------------- MODULE MCDeployment ----------------------------
(* Small instance: modules of one or two chains, deployed one after the other. *)
EXTENDS Deployment

Chain(kind, methods) ==
  [binding |-> bindEvent(When(kind), "CREATEORUPDATE"), methods |-> methods]

Plain(chains) ==
  [chains |-> chains, hasSchedule |-> FALSE, onError |-> "reject", rbacMode |-> "admin",
   rbac |-> {}, wellNamed |-> TRUE]

Scoped(chains) == [Plain(chains) EXCEPT !.rbacMode = "scoped"]

Both == Plain({Chain("a", {"Mutate", "Watch", "Finalize"}), Chain("b", {"Validate"})})
ScopedBoth == Scoped({Chain("a", {"Validate", "Reconcile"})})
Policy == Scoped({Chain("a", {"Validate"})})
Finalizing == Scoped({Chain("a", {"Reconcile", "Finalize"})})
Scheduled == [Plain({}) EXCEPT !.hasSchedule = TRUE]
Guarding == Plain({Chain("crd", {"Validate"})})
Misnamed == [Plain({}) EXCEPT !.wellNamed = FALSE]

MCModule == {Both, ScopedBoth, Policy, Finalizing, Scheduled, Guarding, Misnamed}
=============================================================================

SPECIFICATION FairSpec
CONSTANTS
  create = create
  any = any
  watch = watch
  nodes = nodes
  Absent = Absent
  Binding <- MCBinding
  Queued <- MCQueued
  PhaseMatch <- MCPhaseMatch
  Object <- MCObject
  Delivers <- MCDelivers
  FilterMatch <- MCFilterMatch
  KindShown <- MCKindShown
  Strategies = {"unset", "kind", "global"}
  MaxEvents = 3
CHECK_DEADLOCK FALSE
INVARIANTS ObjectOrder NoIdleBacklog
PROPERTIES ImplementsLanes HandledUnlessHung

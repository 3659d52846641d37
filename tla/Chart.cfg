SPECIFICATION Spec
CONSTANTS
  Project <- MCProject
  Options <- MCOptions
  Override <- MCOverride
  Digits <- MCDigits
  Namespace <- MCNamespace
  MaxBuilds = 2
  MaxFailures = 1
CHECK_DEADLOCK FALSE
INVARIANTS ImagesThere SameByChart OverridesReach Coherent

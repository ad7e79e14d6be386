SPECIFICATION Spec
CONSTANTS
  Sessions = {s1, s2}
  Departments = {d1, d2}
  ActiveDepartments = {d1}
  MaxClarifications = 1
  TransitionTargets <- SomeTargets
  Faults <- AllFaults
  MaxCalls = 5
  None = None
  d1 = d1
  d2 = d2
  s1 = s1
  s2 = s2
SYMMETRY Symmetric
INVARIANTS
  IInv
  DocumentFollowsRow
  AnsweredAtMostOnce
  EndIsExplained
PROPERTIES
  QuietTerminalStays
CHECK_DEADLOCK FALSE

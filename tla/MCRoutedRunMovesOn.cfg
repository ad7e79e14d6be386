SPECIFICATION Spec
CONSTANTS
  Sessions = {s1}
  Departments = {d1, d2}
  ActiveDepartments = {d1, d2}
  MaxClarifications = 1
  TransitionTargets <- NoTargets
  Faults <- NoFaults
  MaxCalls = 4
  None = None
  d1 = d1
  d2 = d2
  s1 = s1
PROPERTIES
  RoutedRunMovesOn
CHECK_DEADLOCK FALSE

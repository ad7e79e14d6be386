SPECIFICATION FairSpec
CONSTANTS
  Sessions = {s1}
  Departments = {d1, d2}
  ActiveDepartments = {d1, d2}
  MaxClarifications = 2
  TransitionTargets <- AllTargets
  Faults <- AllFaults
  MaxCalls = 7
  None = None
  d1 = d1
  d2 = d2
  s1 = s1
PROPERTIES
  ImplementsPromise
  CallsReturn
CHECK_DEADLOCK FALSE

SPECIFICATION Spec
CONSTANTS
  None = None
  Payloads = {p1}
  MaxDepth = 3
  MaxCalls = 4
  MaxAttempts = 2
  MaxRevisions = 1
  Owners = {"procurement"}
INVARIANT
  ProcurementIsToldTheTruth
CHECK_DEADLOCK FALSE

SPECIFICATION Spec
CONSTANTS
  None = None
  Payloads = {p1}
  MaxDepth = 3
  MaxCalls = 4
  MaxAttempts = 2
  MaxRevisions = 1
  Owners = {"it", "hr"}
\* One at a time: AlarmsAreReal or FailedStaysFailed.
PROPERTY
  AlarmsAreReal
CHECK_DEADLOCK FALSE

SPECIFICATION Spec
CONSTANTS
  None = None
  Payloads = {p1}
  MaxDepth = 3
  MaxCalls = 4
  MaxAttempts = 2
  MaxRevisions = 1
  Owners = {"it", "hr", "customer_support", "finance", "procurement"}
INVARIANTS
  CallsNest
  AnswersReachTheAsker
  EndIsEarned
PROPERTIES
  CallReturns
CHECK_DEADLOCK FALSE

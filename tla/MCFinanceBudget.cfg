SPECIFICATION Spec
CONSTANTS
  Sessions = {s1, s2}
  Budgets = {b1}
  Requests = {r1}
  Answers <- NotAsked
  References = {k1, k2, k3}
  Amounts = {1, 2}
  Authorized = TRUE
  Executed = TRUE
  MaxAllocated = 2
  MaxVersion = 2
  None = None
  s1 = s1
  s2 = s2
SYMMETRY Symmetric
INVARIANTS
  HolderIsCurrent
  LedgerExplainsTotals
PROPERTIES
  NeverOverspends
  EntriesAreFinal
  RevisionsNotLost
CHECK_DEADLOCK FALSE

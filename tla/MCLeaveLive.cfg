SPECIFICATION LiveSpec
CONSTANTS
  r1 = r1
  r2 = r2
  e1 = e1
  e2 = e2
  None = None
  Sessions = {s1, s2}
  Requests = {r1}
  Employees = {e1}
  Cases <- OneCase
  Rules = {u1}
  Minima = {0}
  AdminOverlap = FALSE
PROPERTY
  CallsReturn
INVARIANT
  NobodyIsStuck

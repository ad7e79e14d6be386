SPECIFICATION DeskSpec
CONSTANTS
  Company = company
  Managers = {m1}
  Staff = {e1, e2}
  Requester = e1
  Departments = {d1, d2}
  Actions = {a1}
  MaxLoads = 3
  Nothing = Nothing
  m1 = m1
  e1 = e1
  e2 = e2
  d1 = d1
  d2 = d2
  a1 = a1
  company = company
SYMMETRY Symmetric
INVARIANTS
  RefusedMeansMoved
  DeskAgrees
CHECK_DEADLOCK FALSE

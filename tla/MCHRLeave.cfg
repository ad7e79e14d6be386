SPECIFICATION Spec
CONSTANTS
  r1 = r1
  r2 = r2
  e1 = e1
  e2 = e2
  None = None
  Sessions = {s1, s2}
  Requests = {r1, r2}
  Employees = {e1, e2}
  Cases <- EachCase
  Rules = {u1, u2}
  Minima = {1}
  AdminOverlap = FALSE
SYMMETRY Symmetric
INVARIANTS
  BooksAgree
  CancelsAreSafe
PROPERTIES
  StaffingKept

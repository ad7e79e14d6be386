SPECIFICATION Spec
CONSTANTS
  Tabs = {b1, b2}
  Reqs = {q1, q2}
  MaxPairs = 3
  MaxChanges = 1
  Actors = {"company", "employee"}
  None = None
SYMMETRY Symmetry
INVARIANTS
  SessionsAgree
  OnlyCopiesAreRefused
CHECK_DEADLOCK FALSE

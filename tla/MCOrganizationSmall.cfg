SPECIFICATION RegistersSpec
CONSTANTS
    s1 = s1
    s2 = s2
    e1 = e1
    e2 = e2
    e3 = e3
    e4 = e4
    d1 = d1
    d2 = d2
    x1 = x1
    j1 = j1
    Nil = Nil
    k1 = k1
    k2 = k2
    k3 = k3
    Keys = {k1, k2, k3}
    Fold <- MCFold
    Padded = {k3}
    Holds <- MCHolds
    Entries = {1, 2, 3}
    MaxKinds = 1
    Sessions = {s1, s2}
    Employees = {e1, e2, e3, e4}
    Departments = {d1, d2}
    Assets = {x1}
    Jobs = {j1}
    File <- MCFile
    Covered = {d1}
    Founders <- MCFounders
    MaxCalls = 3
    MaxStops = 1
\* One at a time: CompletedIsKept, RetiredAfterUnassignment or ManagersAreAppointed
\* as PROPERTY, DisabledIsEmpty or NobodyIsStuck (which holds) as INVARIANT.
PROPERTY
    CompletedIsKept
CHECK_DEADLOCK FALSE

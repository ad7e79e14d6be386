SPECIFICATION Spec
CONSTANTS
  c1 = c1
  c2 = c2
  c3 = c3
  Clients = {c1}
  Requests = {"r1"}
  Visible <- OneReader
  MaxEvents = 4
  MaxConnections = 1
  MaxReplay = 2
  BatchSize = 2
INVARIANTS PageKeepsUp

SPECIFICATION LiveSpec
CONSTANTS
  c1 = c1
  c2 = c2
  c3 = c3
  Clients = {c1, c2, c3}
  Requests = {"r1"}
  Visible <- ThreeReaders
  MaxEvents = 6
  MaxConnections = 2
  MaxReplay = 2
  BatchSize = 2
INVARIANTS
  PlacesCounted
  NothingSkipped
PROPERTIES
  EventsArrive

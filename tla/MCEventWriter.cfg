SPECIFICATION Spec
CONSTANTS
  e1 = e1
  e2 = e2
  e3 = e3
  e4 = e4
  Events = {e1, e2, e3, e4}
  QueueCap = 1
  BatchSize = 2
  Backends = {"postgres", "valkey"}
  WritesFail = TRUE
  Stops = {"close", "return"}
INVARIANTS
  EventsAreUnique
  StoppingKeepsEvents
PROPERTIES
  CommittedIsLogged

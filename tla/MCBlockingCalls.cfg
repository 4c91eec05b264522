SPECIFICATION CallsSpec
CONSTANTS
  c1 = c1
  c2 = c2
  s1 = s1
  s2 = s2
  Servers = {s1, s2}
  Callers = {c1, c2}
  MayRead = {c2}
  Home <- HomeOfEach
  Backends = {"postgres", "sqlite", "valkey"}
  Lossy = TRUE
  MaxWork = 2
INVARIANTS
  AgreeingHandlersAnswer
PROPERTIES
  CallsReturn
  WaitingWorkIsTaken
CHECK_DEADLOCK FALSE

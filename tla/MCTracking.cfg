CONSTANTS
  Download = {d1}
  Obj = {1, 2, 3, 4}
  Foreign = {d1}
  Categorised = {}
  CompletedHandling = TRUE
  MaxGrabs = 1
  None = None
  Refresher = {r1, r2}
  Processor = {p1}
  User = {}
  RemoveFromClient = TRUE
  ImportThrows = TRUE
  MaxFaults = 0
  MaxCalls = 2
  MaxRestarts = 1
SPECIFICATION Spec
CHECK_DEADLOCK FALSE
INVARIANTS CompletedOncePerGrab CacheSurvivesRestart
PROPERTIES ImplementsLife  LegalTransitions

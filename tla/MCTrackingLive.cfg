CONSTANTS
  Download = {d1}
  Obj = {1, 2, 3}
  Foreign = {}
  Categorised = {}
  CompletedHandling = TRUE
  MaxGrabs = 1
  None = None
  Refresher = {r1}
  Processor = {p1}
  User = {u1}
  RemoveFromClient = TRUE
  ImportThrows = FALSE
  MaxFaults = 1
  MaxCalls = 2
  MaxRestarts = 0
SPECIFICATION FairSpec
CHECK_DEADLOCK FALSE
PROPERTIES FailureIsHandled CompletionIsHandled ImportedIsRemoved

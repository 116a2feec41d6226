CONSTANTS
  Command = {1, 2, 3}
  Worker = {w1, w2}
  Name = {"Plain", "Sync", "Move", "Rebuild", "Process", "Update"}
  Bodies <- MCBodies
  NoCommand = NoCommand
SPECIFICATION Spec
INVARIANTS ExclusiveRunsAlone ResourcesNotShared NoLostWakeup
PROPERTIES ExclusiveKeepsItsTurn EventuallyLeavesQueue ShutdownCompletes
CHECK_DEADLOCK FALSE

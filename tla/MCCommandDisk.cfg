CONSTANTS
  Command = {1, 2}
  Worker = {w1, w2}
  Name = {"MoveAuthor", "Unknown"}
  Kinds <- MCKinds
  Bodies <- MCBodies
  Handled = {"MoveAuthor"}
  MaxDbErrors = 0
  MaxRestarts = 0
  NoCommand = NoCommand
SPECIFICATION ExecSpec
INVARIANT DiskUsersRunApart
CHECK_DEADLOCK FALSE

CONSTANTS
  Command = {1, 2}
  Worker = {w1, w2}
  Name = {"MoveAuthor", "Unknown"}
  Kinds <- MCKinds
  Bodies <- MCBodies
  Handled = {"MoveAuthor"}
  MaxDbErrors = 1
  MaxRestarts = 1
  NoCommand = NoCommand
SPECIFICATION ExecSpec
INVARIANTS RunsAtMostOnce QueueMirrorsTable StartedRowIsRunning ContextIsRunning
PROPERTIES ImplementsLifecycle EventuallyExecuted
CHECK_DEADLOCK FALSE

SPECIFICATION Spec
CONSTANTS
  Check = {1, 2}
  Startup = {1}
  Scheduled = {1, 2}
  Event = {"failure", "imported", "import failed"}
  Failure = "failure"
  Condition <- MCCondition
  Command = {cmd}
  Handler = {h1, h2}
  MaxThrows = 1
  GraceThrows = FALSE
  Nothing = Nothing
INVARIANTS NotifiedOnce
PROPERTIES  FailuresAreNotified

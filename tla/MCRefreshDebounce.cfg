CONSTANTS
  Refresher = {r1, r2, r3}
  Duration = 5
  Restarts = FALSE
  MaxQueued = 3
SPECIFICATION Spec
INVARIANTS NothingForgotten QuietWhileRefreshing
SYMMETRY Symmetric

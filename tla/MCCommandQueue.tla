--------------------------- MODULE MCCommandQueue ---------------------------
EXTENDS CommandQueue, TLC

Kind(n, p, flags) ==
  [name |-> n, class |-> n, priority |-> p,
   requiresDiskAccess |-> "disk" \in flags,
   isExclusive        |-> "exclusive" \in flags,
   isTypeExclusive    |-> "type" \in flags,
   isLongRunning      |-> "long" \in flags]

MCBodies ==
  { Kind("Plain", 0, {}),
    Kind("Sync",  1, {"type"}),
    Kind("Move",  0, {"disk"}),
    Kind("Rebuild", -1, {"disk", "exclusive"}),
    Kind("Process", 0, {"disk", "long"}),
    Kind("Update", 0, {"exclusive"}) }
=============================================================================

-------------------------- MODULE MCCommandExecutor --------------------------
EXTENDS CommandExecutor, TLC

Kind(n, p, flags) ==
  [name |-> n, class |-> n, priority |-> p,
   requiresDiskAccess |-> "disk" \in flags,
   isExclusive        |-> "exclusive" \in flags,
   isTypeExclusive    |-> "type" \in flags,
   isLongRunning      |-> "long" \in flags]

\* MoveAuthor needs the disk; Unknown is queued although nobody executes it.
MCKinds  == { Kind("MoveAuthor", 0, {"disk"}), Kind("Unknown", 1, {}) }
MCBodies == { Parsed(k) : k \in MCKinds }
OneKind  == { Kind("MoveAuthor", 0, {"disk"}) }
OneBody  == { Parsed(k) : k \in OneKind }

Symmetric == Permutations(Worker)
=============================================================================

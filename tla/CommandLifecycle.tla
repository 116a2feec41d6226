-------------------------- MODULE CommandLifecycle --------------------------
(***************************************************************************)
(* What the command subsystem promises of one command, whatever the number *)
(* of workers, restarts and failed writes: it is started at most once,     *)
(* and once it ended it is over.  A command taken out of the queue without *)
(* having run ("dropped") may come back, but only when the process starts  *)
(* again; a command that was running when the process died is over.        *)
(***************************************************************************)
CONSTANT Command

VARIABLE life   \* life[c] in "new", "queued", "dropped", "running", "ended"

LifeInit == life = [c \in Command |-> "new"]

To(C, s) == life' = [c \in Command |-> IF c \in C THEN s ELSE life[c]]

Accept == \E C \in SUBSET Command : (\A c \in C : life[c] = "new") /\ To(C, "queued")
Drop(c) == life[c] = "queued" /\ To({c}, "dropped")
Run(c)  == life[c] = "queued" /\ To({c}, "running")
End(c)  == life[c] \in {"queued", "running"} /\ To({c}, "ended")

StartAgain ==
  life' = [c \in Command |-> CASE life[c] = "running" -> "ended"
                               [] life[c] = "dropped" -> "queued"
                               [] OTHER               -> life[c]]

LifeNext ==
  \/ Accept
  \/ \E c \in Command : Drop(c) \/ Run(c) \/ End(c)
  \/ StartAgain

LifeSpec == LifeInit /\ [][LifeNext]_life
=============================================================================

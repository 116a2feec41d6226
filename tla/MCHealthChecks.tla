--------------------------- MODULE MCHealthChecks ---------------------------
(***************************************************************************)
(* Two checks: one looked at after the start and by the schedule, the      *)
(* other, like RecyclingBinCheck, by the schedule and when an import       *)
(* succeeds while it fails or fails while it does not.                     *)
(***************************************************************************)
EXTENDS HealthChecks

MCCondition ==
  [e \in Event |-> [c \in Check |->
     IF e = Failure \/ c = 1 THEN "Never"
     ELSE IF e = "imported" THEN "FailedOnly" ELSE "SuccessfulOnly"]]
=============================================================================

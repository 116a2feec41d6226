----------------------------- MODULE DownloadLife -----------------------------
(***************************************************************************)
(* What download tracking promises about one download, told in the terms   *)
(* of its history: a grab ends in at most one way, an end is final until   *)
(* the release is grabbed again, and nothing leaves the download client    *)
(* before it was imported or has failed.                                   *)
(***************************************************************************)
CONSTANTS Download, Foreign

VARIABLES
  phase,    \* phase[d]: the latest event of d
  present   \* downloads the client still has

Open(d) == phase[d] = "Grabbed" \/ (phase[d] = "None" /\ d \in Foreign)

Init ==
  /\ phase   = [d \in Download |-> "None"]
  /\ present \in SUBSET Foreign

Grab(d) ==
  /\ d \notin present
  /\ phase'   = [phase EXCEPT ![d] = "Grabbed"]
  /\ present' = present \cup {d}

Finish(d, end) ==
  /\ Open(d)
  /\ phase' = [phase EXCEPT ![d] = end]
  /\ UNCHANGED present

\* Downloads that have failed are marked together.
Fail(ds) ==
  /\ \A d \in ds : phase[d] = "Grabbed"
  /\ phase' = [d \in Download |-> IF d \in ds THEN "Failed" ELSE phase[d]]
  /\ UNCHANGED present

Remove(d) ==
  /\ d \in present /\ phase[d] \in {"Imported", "Failed"}
  /\ present' = present \ {d}
  /\ UNCHANGED phase

Next ==
  \/ \E d \in Download :
       Grab(d) \/ Finish(d, "Imported") \/ Finish(d, "Incomplete") \/ Remove(d)
  \/ \E ds \in SUBSET Download : Fail(ds)

Spec == Init /\ [][Next]_<<phase, present>>
=============================================================================

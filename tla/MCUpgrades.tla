----------------------------- MODULE MCUpgrades -----------------------------
(***************************************************************************)
(* A profile of three items, the middle one a group of two qualities, and  *)
(* releases that differ in quality, revision and score.                    *)
(***************************************************************************)
EXTENDS Upgrades, TLC

CONSTANTS pdf, mobi, epub, azw3, high, proper, top

MCItems == <<{pdf}, {mobi, epub}, {azw3}>>

G(q, rev, score) == [quality |-> q, revision |-> rev, score |-> score]

MCClaim == high :> G(epub, 1, 5) @@ proper :> G(epub, 2, 0) @@ top :> G(azw3, 2, 0)
\* Two releases that say they are better than they are.
MCBoast == high :> G(azw3, 1, 0) @@ top :> G(azw3, 1, 0)
MCTruth == high :> G(epub, 1, 0) @@ top :> G(epub, 1, 0)
MCItems3 == <<{pdf}, {epub}, {mobi, azw3}>>
MCGroupOf == [r \in Release |-> IF r = top THEN "h" ELSE "g"]
=============================================================================

--------------------------- MODULE MCAdServing ---------------------------
(* Instances of AdServing for TLC. *)
EXTENDS AdServing, TLC

CONSTANTS p1, p2, p3, g1, g2, a1, a2

\* One group whose ads have different weights, one of them not set.
OneGroup == a1 :> g1 @@ a2 :> g1
OneGroupWeights == a1 :> 2 @@ a2 :> 0

\* Two groups of one ad.
TwoGroups == a1 :> g1 @@ a2 :> g2
TwoGroupsWeights == a1 :> 1 @@ a2 :> 1

ProcSymmetry == Permutations(Procs)
=============================================================================

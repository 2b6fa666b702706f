------------------------- MODULE MCLocationIngest -------------------------
(* Instances of LocationIngest for TLC. *)
EXTENDS LocationIngest, TLC

CONSTANTS p1, p2, m1, m2

OneUser == m1 :> 1

ProcSymmetry == Permutations(Procs)
=============================================================================

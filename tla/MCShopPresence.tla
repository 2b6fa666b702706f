-------------------------- MODULE MCShopPresence --------------------------
(* Instances of ShopPresence for TLC. *)
EXTENDS ShopPresence, TLC

CONSTANTS m1, m2, s1, s2

OneUser == m1 :> 1
NoGhosts == m1 :> {}

\* The phone and one other number that may stand for it.
TwoUsers == m1 :> 1 @@ m2 :> 2
OneGhost == m1 :> {m2}

ShopSymmetry == Permutations(Shops)
=============================================================================

---------------------------- MODULE MCCoinsCache ----------------------------
(* CoinsCache on two outpoints, two spendable coins and an unspendable one. *)
EXTENDS CoinsCache, TLC

CONSTANTS o1, o2, c1, c2, u1, b1, b2

Symmetry == Permutations({o1, o2}) \cup Permutations({c1, c2}) \cup Permutations({b1, b2})
=============================================================================

---------------------- MODULE MCCollectionTransaction ----------------------
(* CollectionTransaction for TLC: two collections, so that one may have been   *)
(* replaced and the other not, two contents, old and new, and two manifests,  *)
(* one of them a leftover.                                                   *)
EXTENDS CollectionTransaction, TLC

CONSTANTS c1, c2, r1, r2

MCCols     == {c1, c2}
MCContents == {r1, r2}
MCTxns     == {1, 2}

Symmetry == Permutations(MCCols) \cup Permutations(MCContents)
=============================================================================

-------------------------- MODULE MC_ProdConsUndo ---------------------------
(* TLC instances of ProdConsUndo. *)
EXTENDS ProdConsUndo, TLC

CONSTANTS p1, p2, c1

MCTwoP == {p1, p2}
MCOneC == {c1}

Symmetry == Permutations({p1, p2})
=============================================================================

----------------------------- MODULE MC_MutCopy -----------------------------
(* TLC instances of MutCopy. *)
EXTENDS MutCopy

MCSizes == {0, 1, 2, 3, 5, 8}
=============================================================================

---------------------------- MODULE MC_ProdCons -----------------------------
(* Two producers and one consumer.                                         *)
EXTENDS ProdCons

CONSTANTS p1, p2, c1

MCTwo  == {p1, p2}
MCOneC == {c1}
=============================================================================

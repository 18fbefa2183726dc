---------------------------- MODULE MC_IpcStart -----------------------------
(* TLC instances of IpcStart. *)
EXTENDS IpcStart, TLC

CONSTANTS p1, p2, c1

MCTwoP == {p1, p2}
MCOneP == {p1}
MCOneC == {c1}
=============================================================================

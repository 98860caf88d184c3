---------------------------- MODULE MCChainSync -----------------------------
(* Two lists of points, told apart only by which call asked for them.      *)
EXTENDS ChainSync

CONSTANTS p1, p2

MCPoints == {p1, p2}
=============================================================================

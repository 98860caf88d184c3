------------------------------ MODULE MCEgress ------------------------------
(* Lengths on both sides of the modulus.                                   *)
EXTENDS Egress

MCLens == {1, 2, 3, 4}
ShortLens == {1, 2}
=============================================================================

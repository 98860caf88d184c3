---------------------------- MODULE MCHandshake -----------------------------
(* The two lists a builder sets (handshake.rs:222-230) and two magics.     *)
EXTENDS Handshake

MCVersionLists == { << <<"N2N", 6>>, <<"N2N", 7>> >>, << <<"C2N", 9>> >> }
=============================================================================

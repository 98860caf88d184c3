------------------------------- MODULE MCMux -------------------------------
(***************************************************************************)
(* Small instances of Mux: one mini-protocol, hence one index the program  *)
(* registers and its mirror image, empty and one-byte payloads, and a      *)
(* header of two bytes, so that a task can be cancelled inside a header,   *)
(* between header and payload, and at a frame boundary.                    *)
(***************************************************************************)
EXTENDS Mux

MCProtocols == {2}
MCLens == {0, 1}
=============================================================================

------------------------------ MODULE MCCodec -------------------------------
(***************************************************************************)
(* The widths of the code are scaled down, in their order: 16 for 0x8000,  *)
(* 128 for 2^32 and 512 for 2^64.  Numbers are those at both ends of their *)
(* ranges.                                                                 *)
(***************************************************************************)
EXTENDS Codec

MCBit == 16
MCWord32 == 128
MCWord64 == 512
MCSlots == {0, 511}
MCNumbers == {-256, 255}
MCMagics == {0, 127}
=============================================================================

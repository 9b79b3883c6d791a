-------------------------------- MODULE MCFrame --------------------------------
(***************************************************************************)
(* A small instance of Frame for TLC: frames of at most 14 bytes, and      *)
(* 16-bit values on both sides of every byte boundary.                     *)
(***************************************************************************)
EXTENDS Frame

Values16 == {0, 255, 256, 65535}

MCFields == [type : {3}, flags : {0, 2}, seq : Values16, xid : Values16]
MCLens == 0..3
MCBytes == {0, 2, 77}
================================================================================

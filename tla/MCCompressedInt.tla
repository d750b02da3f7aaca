-------------------------- MODULE MCCompressedInt --------------------------
(***************************************************************************)
(* IntegerInput for TLC: the configuration gives integers of four groups of *)
(* two bits, seven bits wide.                                               *)
(***************************************************************************)
EXTENDS IntegerInput
=============================================================================

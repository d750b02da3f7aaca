------------------------------ MODULE MCDelta -------------------------------
(***************************************************************************)
(* DeltaFiles with small files whose chunks repeat, are parts of each other *)
(* or are empty.                                                            *)
(***************************************************************************)
EXTENDS DeltaFiles

MCBlobs == {<<>>, <<1>>, <<2>>, <<1, 2>>}
=============================================================================

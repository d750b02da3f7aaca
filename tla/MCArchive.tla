------------------------------ MODULE MCArchive ------------------------------
(***************************************************************************)
(* Contents of up to four bytes for TLC, in chunks of one to three, with no *)
(* dictionary, one that works and one that zstd does not load.              *)
(***************************************************************************)
EXTENDS Archive

MCInputs    == {<<>>, <<1>>, <<1, 1>>, <<1, 2>>, <<1, 2, 3>>, <<2, 2, 1>>, <<1, 1, 2, 1>>}
MCDicts     == {<<>>, <<1, 2>>, <<3>>}
MCMalformed == {<<3>>}
=============================================================================

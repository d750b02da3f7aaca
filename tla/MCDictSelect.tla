----------------------------- MODULE MCDictSelect -----------------------------
(***************************************************************************)
(* Every pair of samples of at most three and five bytes over two letters,   *)
(* with dmers of two bytes and segments of three.                           *)
(***************************************************************************)
EXTENDS DictSelect, SequencesExt

MCCorpora == {<<s, t>> : s \in BoundedSeq({0, 1}, 3), t \in BoundedSeq({0, 1}, 5)}
=============================================================================

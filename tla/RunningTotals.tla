--------------------------- MODULE RunningTotals ---------------------------
(***************************************************************************)
(* The running total `off += e.CompLength` of the loops over an index       *)
(* (delta.go, builder.go, extract.go), as a recursive function.             *)
(***************************************************************************)
EXTENDS Integers, Sequences

(* As a number that does not wrap: element i is off when the loop is at i.  *)
Offsets(lens) ==
  LET off[i \in 1 .. Len(lens) + 1] ==
        IF i = 1 THEN 0 ELSE off[i - 1] + lens[i - 1]
  IN  off

Total(lens) == Offsets(lens)[Len(lens) + 1]
=============================================================================

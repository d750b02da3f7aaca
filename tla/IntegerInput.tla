---------------------------- MODULE IntegerInput ----------------------------
(***************************************************************************)
(* Every byte string up to one byte more than the longest integer, grown    *)
(* byte by byte, for the codec of CompressedInt.                            *)
(***************************************************************************)
EXTENDS CompressedInt

VARIABLE bytes

FeedInit == bytes = <<>>

Feed ==
  /\ Len(bytes) <= MaxCompressedIntLen
  /\ \E b \in Octet : bytes' = Append(bytes, b)

Full == Len(bytes) > MaxCompressedIntLen /\ UNCHANGED bytes

FeedNext == Feed \/ Full

FeedSpec == FeedInit /\ [][FeedNext]_bytes

result == ReadCompressedInt(bytes)

(* The integers the first groups of s denote, of any width.                 *)
Denoted(s) ==
  LET sum[k \in 0 .. Len(s)] ==
        IF k = 0 THEN 0 ELSE sum[k - 1] + Payload(s[k]) * Powers(Radix)[k - 1]
  IN  sum

Denotes(n) == Denoted(bytes)[n]

(* A value that is returned is the integer that its bytes denote, to the    *)
(* last bit: nothing is shifted out of the uint64 (zchunk.go:68-73).        *)
NoBitIsLost ==
  result.err = "nil" =>
    /\ result.value = Denotes(result.length)
    /\ Final(bytes[result.length])
    /\ \A k \in 1 .. result.length - 1 : ~Final(bytes[k])

(* An integer that fits is refused only if it is padded with zero groups    *)
(* beyond the longest encoding, or is not all there: any other integer of   *)
(* the width is read (zchunk.go:68-80).                                     *)
NothingElseIsRefused ==
  \A n \in DOMAIN bytes :
    /\ n <= MaxCompressedIntLen
    /\ Final(bytes[n]) /\ \A k \in 1 .. n - 1 : ~Final(bytes[k])
    /\ Denotes(n) < Values
    => result.err = "nil"

(* What is appended for a value that was read reads as that value, up to    *)
(* its last byte, and is never longer than what it was read from: it is the *)
(* same unless the integer was padded.  The readers accept padding, which   *)
(* the code that computes a lead's length from its values relies on not     *)
(* being there (remote.go:45-48).                                           *)
AppendedIsTheShortest ==
  result.err = "nil" =>
    LET again == AppendCompressedInt(result.value)
    IN  /\ ReadCompressedInt(again) = [err |-> "nil", value |-> result.value,
                                       length |-> Len(again)]
        /\ Len(again) <= result.length
        /\ Len(again) = result.length <=> again = SubSeq(bytes, 1, result.length)
=============================================================================

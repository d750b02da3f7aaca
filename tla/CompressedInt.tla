--------------------------- MODULE CompressedInt ---------------------------
(***************************************************************************)
(* The compressed integers of the format (internal/zchunk/zchunk.go): least *)
(* significant group first, the high bit set on the final byte only.        *)
(*                                                                         *)
(* The code has groups of 7 bits and at most 10 of them, for a uint64: nine *)
(* full groups and one bit.  Both numbers are parameters here; the width    *)
(* follows from them, as it does in the code, and values wrap at it.        *)
(***************************************************************************)
EXTENDS Naturals, Sequences

CONSTANTS
  GroupBits,           \* value bits of a byte (7 in the code)
  MaxCompressedIntLen  \* bytes of the longest integer (10 in the code)

ASSUME CompressedIntAssumption ==
  GroupBits \in Nat \ {0} /\ MaxCompressedIntLen \in Nat \ {0, 1}

(* The powers of b.                                                         *)
Powers(b) == LET power[n \in Nat] == IF n = 0 THEN 1 ELSE b * power[n - 1] IN power

Radix  == Powers(2)[GroupBits]                      \* 0x80: the values of a group, and the final bit
Values == 2 * Powers(Radix)[MaxCompressedIntLen - 1] \* 2^64: full groups and one bit

Octet == 0 .. 2 * Radix - 1

Final(b)   == b >= Radix
Payload(b) == b % Radix

(* Fault: v = 0x80 is taken to fit into the final byte.                     *)
GroupsOffByOne(v) ==
  LET groups[x \in 0 .. v] ==
        IF x > Radix THEN <<x % Radix>> \o groups[x \div Radix]
        ELSE <<(x % Radix) + Radix>>
  IN  groups

(* The groups of the values up to v, the last of them marked final.         *)
Groups(v) ==
  LET groups[x \in 0 .. v] ==
        IF x >= Radix THEN <<x % Radix>> \o groups[x \div Radix] ELSE <<x + Radix>>
  IN  groups

AppendCompressedInt(v) == Groups(v)[v]

Failed(e) == [err |-> e, value |-> 0, length |-> 0]

(* The value of the first n groups, as it accumulates in a uint64.          *)
Accumulated(bytes) ==
  LET value[n \in 0 .. Len(bytes)] ==
        IF n = 0 THEN 0
        ELSE (value[n - 1] + Payload(bytes[n]) * Powers(Radix)[n - 1]) % Values
  IN  value

(* Fault: the payload of the last permissible group is not bounded.         *)
ReadingUnbounded(bytes) ==
  LET read[i \in 0 .. MaxCompressedIntLen] ==
        IF i = MaxCompressedIntLen THEN Failed("overflow")
        ELSE IF i = Len(bytes) THEN Failed("truncated")
        ELSE IF Final(bytes[i + 1])
             THEN [err |-> "nil", value |-> Accumulated(bytes)[i + 1], length |-> i + 1]
        ELSE read[i + 1]
  IN  read

(* Fault: the bound is put on the payload of the last group but one.        *)
ReadingBoundedEarly(bytes) ==
  LET read[i \in 0 .. MaxCompressedIntLen] ==
        IF i = MaxCompressedIntLen THEN Failed("overflow")
        ELSE IF i = Len(bytes) THEN Failed("truncated")
        ELSE IF i = MaxCompressedIntLen - 2 /\ Payload(bytes[i + 1]) > 1 THEN Failed("overflow")
        ELSE IF Final(bytes[i + 1])
             THEN [err |-> "nil", value |-> Accumulated(bytes)[i + 1], length |-> i + 1]
        ELSE read[i + 1]
  IN  read

(* Reading goes on after i groups; the last permissible one has a single    *)
(* bit left.                                                                *)
Reading(bytes) ==
  LET read[i \in 0 .. MaxCompressedIntLen] ==
        IF i = MaxCompressedIntLen THEN Failed("overflow")
        ELSE IF i = Len(bytes) THEN Failed("truncated")
        ELSE IF i = MaxCompressedIntLen - 1 /\ Payload(bytes[i + 1]) > 1 THEN Failed("overflow")
        ELSE IF Final(bytes[i + 1])
             THEN [err |-> "nil", value |-> Accumulated(bytes)[i + 1], length |-> i + 1]
        ELSE read[i + 1]
  IN  read

(* Reads one integer from the front of bytes.                               *)
ReadCompressedInt(bytes) == Reading(bytes)[0]
=============================================================================

------------------------------ MODULE MCHeader ------------------------------
(***************************************************************************)
(* Headers for TLC, with integers of three groups of two bits and digests   *)
(* of one or two bytes: as this code writes them, as other writers may, and *)
(* with a byte changed on the way.                                          *)
(***************************************************************************)
EXTENDS Header

MCDigestSize == (0 :> 2) @@ (1 :> 1)   \* two types, of different sizes

(* Two inputs that differ in one byte never have the same number: the       *)
(* modulus is a prime.                                                      *)
MCHash(t, units) ==
  LET upTo[k \in 0 .. Len(units)] ==
        IF k = 0 THEN t + 1
        ELSE (31 * upTo[k - 1] + units[k].octet + 8 * units[k].tag) % 65521
  IN  1 + upTo[Len(units)]

BodyUnits == Plain(<<5, 2>>)

EntryOf(t, unc, compLength, length) ==
  [digest  |-> Sum(t, Plain(<<compLength>>)),
   uDigest |-> IF unc THEN Sum(t, Plain(<<length>>)) ELSE <<>>,
   compLength |-> compLength, length |-> length]

FieldsOf(flags, compression, optional, t, chunks) ==
  [dataChecksum |-> <<>>, flags |-> flags, compression |-> compression,
   optional |-> optional, chunkType |-> t,
   chunks |-> [k \in DOMAIN chunks |->
                 EntryOf(t, Has(flags, UncompressedSource), chunks[k][1], chunks[k][2])]]

Optional == <<[id |-> 5, data |-> Plain(<<4>>)], [id |-> 0, data |-> <<>>]>>

(* Flags of every kind, none to two chunks, lengths of one and two groups.  *)
Structures ==
  {FieldsOf(flags, compression, IF Has(flags, OptionalElements) THEN Optional ELSE <<>>, t, chunks) :
     flags \in {0, 2, 4, 7}, compression \in CompressionTypes,
     t \in DOMAIN DigestSize, chunks \in {<<>>, <<<<0, 0>>>>, <<<<0, 0>>, <<2, 4>>>>}}

Origin(kind, x, header, at) ==
  [kind |-> kind, fields |-> x, bodyOffset |-> Len(header), at |-> at]

(* What WriteFile or WriteDetachedHeader is called with.                    *)
Call(t, x) ==
  Origin("written", x, BuildHeader(Magic, t, x, BodyUnits), 0) @@ [type |-> t, body |-> BodyUnits]

Written ==
  UNION {{[units |-> WriteFile(t, x, BodyUnits), origin |-> Call(t, x)],
          [units |-> WriteDetachedHeader(t, x, BodyUnits), origin |-> Call(t, x)]} :
         t \in DOMAIN DigestSize, x \in Structures}

Substitute(units, k, by) == SubSeq(units, 1, k - 1) \o by \o SubSeq(units, k + 1, Len(units))

(* One byte of the header is another one.                                   *)
Changed ==
  UNION {LET header == BuildHeader(Magic, 0, x, BodyUnits)
         IN  {[units  |-> Substitute(header, k, Plain(<<o>>)) \o BodyUnits,
               origin |-> Origin("changed", x, header, k)] :
                <<k, o>> \in {<<n, v>> \in (DOMAIN header) \X {0, 1, 4, 5, 6} :
                                header[n].octet # v}} :
         x \in Structures}

SampleStructures ==
  {x \in Structures : x.compression = 2 /\ Len(x.chunks) = 2 /\ x.flags \in {2, 4}}

(* Other writers: integers may be padded, bytes may follow the signatures,  *)
(* counts and sizes may lie; the checksum is that of the bytes written.     *)
PadAt(units, k) == Substitute(units, k, Plain(<<units[k].octet % Radix, Radix>>))

ForeignBodies(hdr) ==
  {PadAt(hdr, k) : k \in {n \in DOMAIN hdr : hdr[n].tag = 0 /\ Final(hdr[n].octet)}}
    \cup {Substitute(hdr, k, Plain(<<o>>)) : k \in DOMAIN hdr, o \in {0, 4, 5, 6}}
    \cup {hdr \o Plain(<<6>>), SubSeq(hdr, 1, Len(hdr) - 1)}

Foreign ==
  UNION {LET hdr == HeaderBody([x EXCEPT !.dataChecksum = Sum(0, BodyUnits)])
         IN  {[units  |-> Lead(Magic, 0, f) \o f \o BodyUnits,
               origin |-> Origin("foreign", x, <<>>, 0)] : f \in ForeignBodies(hdr)} :
         x \in SampleStructures}

(* The optional-elements flag with a count of zero.                         *)
NoElements ==
  {LET p   == [x EXCEPT !.dataChecksum = Sum(0, BodyUnits), !.optional = <<>>]
       hdr == PrefaceBytes(p) \o CInt(0) \o IndexBytes(p) \o CInt(0)
   IN  [units |-> Lead(Magic, 0, hdr) \o hdr \o BodyUnits, origin |-> Origin("foreign", x, <<>>, 0)] :
     x \in {y \in Structures : Has(y.flags, OptionalElements)}}

(* An integer of the lead, the checksum type or the size, is padded.        *)
PaddedLead ==
  UNION {LET hdr  == HeaderBody([x EXCEPT !.dataChecksum = Sum(0, BodyUnits)])
             lead == Lead(Magic, 0, hdr)
         IN  {[units  |-> PadAt(lead, k) \o hdr \o BodyUnits,
               origin |-> Origin("foreign", x, <<>>, 0)] :
                k \in {n \in 2 .. Len(lead) : lead[n].tag = 0 /\ Final(lead[n].octet)}} :
         x \in SampleStructures}

AllFiles == Written \cup Changed \cup Foreign \cup NoElements \cup PaddedLead

ForeignFiles == Foreign
=============================================================================

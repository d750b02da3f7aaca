------------------------------- MODULE Header -------------------------------
(***************************************************************************)
(* The header of a zchunk file: how it is written (lead.go, preface.go,     *)
(* index.go, signatures.go, file.go) and the three ways it is read:         *)
(*                                                                         *)
(*   "stream"    section after section from the file, as extract, openLocal *)
(*               and gen-zdict do (cmd/zchunk/main.go);                     *)
(*   "remote"    ReadRemoteHeader, by two range requests (remote.go);       *)
(*   "detached"  ReadDetachedHeader (remote.go).                            *)
(*                                                                         *)
(* A file is a sequence of units, one per byte.  A unit is [octet, tag]:    *)
(* what the byte is when it is read as a part of an integer, and, for the   *)
(* bytes of a digest, the number Hash gives to what they are the digest of  *)
(* (0 for any other byte).  Few octets would make digests collide; the tag  *)
(* keeps them as apart as Hash does.                                        *)
(*                                                                         *)
(* A behavior takes one file through the three readers.                     *)
(***************************************************************************)
EXTENDS CompressedInt, SequencesExt

CONSTANTS
  Files,        \* [units, origin]: the files under study
  DigestSize,   \* ChecksumType.Size: the bytes of each known type's digests
  Hash(_, _)    \* a positive number for a checksum type and some units

(* A byte; see above for the tag.                                           *)
Unit == [octet : Octet, tag : Nat]

ASSUME HeaderAssumption ==
  /\ \A f \in Files : f.units \in Seq(Unit)
  /\ DigestSize \in [DOMAIN DigestSize -> Nat \ {0}]
  /\ \E longest \in DOMAIN DigestSize :
       \A t \in DOMAIN DigestSize : DigestSize[t] <= DigestSize[longest]

VARIABLES
  file,     \* the file under study
  turn,     \* the reader that reads it: position in Readers
  pc,       \* the field it reads next
  src,      \* the units it reads from
  pos,      \* how many of them it has consumed
  end,      \* where the section it reads ends
  h,        \* the fields read so far
  leadLen,  \* the bytes taken for the lead, when the header was fetched
  results   \* what each reader made of the file

vars == <<file, turn, pc, src, pos, end, h, leadLen, results>>

Readers == <<"stream", "remote", "detached">>
reader  == Readers[turn]

Plain(octets) == [k \in DOMAIN octets |-> [octet |-> octets[k], tag |-> 0]]

Octets(units) == [k \in DOMAIN units |-> units[k].octet]

CInt(v) == Plain(AppendCompressedInt(v))

(* ChecksumType.Sum *)
Sum(t, units) ==
  LET n == Hash(t, units)
  IN  [k \in 1 .. DigestSize[t] |-> [octet |-> (n + k) % (2 * Radix), tag |-> n]]

NoDigest(t) == [k \in 1 .. DigestSize[t] |-> [octet |-> 0, tag |-> 0]]

Magic         == Plain(<<0>>)
DetachedMagic == Plain(<<1>>)

(* Where the header starts after a lead with integers as short as possible. *)
HeaderStart(t, size) ==
  Len(Magic) + Len(CInt(t)) + Len(CInt(size)) + DigestSize[t]

DataStreams        == 0   \* the flags by their bit
OptionalElements   == 1
UncompressedSource == 2
knownFlags         == 0 .. 7

Has(flags, bit) == (flags \div Powers(2)[bit]) % 2 = 1

CompressionTypes == {0, 2}   \* CompressionNone, CompressionZstd

----------------------------------------------------------------------------
(* Writing *)

PrefaceBytes(p) ==
  p.dataChecksum \o CInt(p.flags) \o CInt(p.compression)
    \o IF p.optional = <<>> THEN <<>>
       ELSE CInt(Len(p.optional))
              \o FlattenSeq([k \in DOMAIN p.optional |->
                   CInt(p.optional[k].id) \o CInt(Len(p.optional[k].data))
                     \o p.optional[k].data])

(* The index after its size.  An entry's second digest is written only if   *)
(* the flag says so.                                                        *)
IndexBody(x) ==
  CInt(x.chunkType) \o CInt(Len(x.chunks))
    \o FlattenSeq([k \in DOMAIN x.chunks |->
         x.chunks[k].digest
           \o (IF Has(x.flags, UncompressedSource) THEN x.chunks[k].uDigest ELSE <<>>)
           \o CInt(x.chunks[k].compLength) \o CInt(x.chunks[k].length)])

IndexBytes(x) == CInt(Len(IndexBody(x))) \o IndexBody(x)

SignatureBytes == CInt(0)   \* a count of zero is all there is to write

HeaderBody(x) == PrefaceBytes(x) \o IndexBytes(x) \o SignatureBytes

(* What the three WriteTo refuse.                                           *)
Writable(x) ==
  /\ x.flags \in knownFlags /\ x.compression \in CompressionTypes
  /\ Has(x.flags, OptionalElements) <=> x.optional # <<>>
  /\ x.chunkType \in DOMAIN DigestSize
  /\ \A k \in DOMAIN x.chunks :
       /\ Len(x.chunks[k].digest) = DigestSize[x.chunkType]
       /\ Has(x.flags, UncompressedSource) =>
            Len(x.chunks[k].uDigest) = DigestSize[x.chunkType]

(* The header checksum; the embedded magic is hashed whatever the file has. *)
HeaderChecksum(t, size, hdr) == Sum(t, Magic \o CInt(t) \o CInt(size) \o hdr)

Lead(magic, t, hdr) ==
  magic \o CInt(t) \o CInt(Len(hdr)) \o HeaderChecksum(t, Len(hdr), hdr)

(* buildHeader: the data checksum is computed, or zeros if suppressed.      *)
WithDataChecksum(t, x, body) ==
  [x EXCEPT !.dataChecksum = IF Has(x.flags, UncompressedSource) THEN NoDigest(t) ELSE Sum(t, body)]

BuildHeader(magic, t, x, body) ==
  LET hdr == HeaderBody(WithDataChecksum(t, x, body))
  IN  Lead(magic, t, hdr) \o hdr

WriteFile(t, x, body) == BuildHeader(Magic, t, x, body) \o body

WriteDetachedHeader(t, x, body) == BuildHeader(DetachedMagic, t, x, body)

(* A uint64, and what one counts or measures.                               *)
Word == 0 .. Values - 1

(* An optional element, an entry of the index and the fields of a header,   *)
(* as they are passed to the writer.                                        *)
Element == [id : Nat, data : Seq(Unit)]
Entry   == [digest : Seq(Unit), compLength : Nat, length : Nat, uDigest : Seq(Unit)]

Structure ==
  [dataChecksum : Seq(Unit), flags : Nat, compression : Nat, optional : Seq(Element),
   chunkType : Nat, chunks : Seq(Entry)]

InWords(x) ==
  /\ {x.flags, x.compression, x.chunkType, Len(x.optional), Len(x.chunks)} \subseteq Word
  /\ \A k \in DOMAIN x.optional : {x.optional[k].id, Len(x.optional[k].data)} \subseteq Word
  /\ \A k \in DOMAIN x.chunks : {x.chunks[k].compLength, x.chunks[k].length} \subseteq Word

(* The units that are written for o.fields and o.body with checksum type    *)
(* o.type: all numbers and lengths fit into a uint64, digests are bytes,    *)
(* and an entry has its second digest only if the flag is set               *)
(* (IndexEntry).                                                            *)
WrittenFor(units, o) ==
  LET x   == WithDataChecksum(o.type, o.fields, o.body)
      hdr == HeaderBody(x)
  IN  /\ o.type \in DOMAIN DigestSize \cap Word /\ o.body \in Seq(Unit)
      /\ o.fields \in Structure /\ Writable(o.fields) /\ InWords(o.fields)
      /\ Has(o.fields.flags, UncompressedSource)
           \/ \A k \in DOMAIN o.fields.chunks : o.fields.chunks[k].uDigest = <<>>
      /\ Len(hdr) \in Word
      /\ x.dataChecksum \in Seq(Unit)
      /\ HeaderChecksum(o.type, Len(hdr), hdr) \in Seq(Unit)
      /\ units \in {WriteFile(o.type, o.fields, o.body), WriteDetachedHeader(o.type, o.fields, o.body)}
      /\ o.bodyOffset = Len(BuildHeader(Magic, o.type, o.fields, o.body))

(* What it means that a file of Files is a written one.                     *)
ASSUME OriginAssumption ==
  \A f \in Files : f.origin.kind = "written" => WrittenFor(f.units, f.origin)

----------------------------------------------------------------------------
(* Reading *)

Blank ==
  [detached |-> FALSE, ckType |-> 0, headerSize |-> 0, checksum |-> <<>>,
   dataChecksum |-> <<>>, flags |-> 0, compression |-> 0, optional |-> <<>>,
   optCount |-> 0, optId |-> 0, optSize |-> 0,
   chunkType |-> 0, count |-> 0, chunks |-> <<>>,
   digest |-> <<>>, uDigest |-> <<>>, compLength |-> 0]

(* maxLeadPrefix: what the remote reader fetches to read the lead from.     *)
LeadPrefix == Len(Magic) + 2 * MaxCompressedIntLen
                + CHOOSE n \in {DigestSize[t] : t \in DOMAIN DigestSize} :
                    \A t \in DOMAIN DigestSize : DigestSize[t] <= n

Opened(units, who) ==
  IF who = "remote" THEN SubSeq(units, 1, IF Len(units) < LeadPrefix THEN Len(units) ELSE LeadPrefix)
  ELSE units

Begin(units, t) ==
  /\ turn = t /\ pc = "magic" /\ pos = 0 /\ h = Blank /\ leadLen = 0
  /\ src = Opened(units, Readers[t]) /\ end = Len(src)

Init ==
  /\ file \in Files
  /\ Begin(file.units, 1)
  /\ results = <<>>

(* The reader is through with the file; the next one begins.                *)
Result(r) ==
  /\ results' = Append(results, r)
  /\ IF turn = Len(Readers)
     THEN /\ pc' = "done"
          /\ UNCHANGED <<turn, pos, h, leadLen, src, end>>
     ELSE /\ turn' = turn + 1 /\ pc' = "magic" /\ pos' = 0 /\ h' = Blank /\ leadLen' = 0
          /\ src' = Opened(file.units, Readers[turn + 1]) /\ end' = Len(src')
  /\ UNCHANGED file

Reject == Result([accepted |-> FALSE])

(* The field that follows field f, once g has been read; more says whether  *)
(* the section goes on.                                                     *)
FieldAfter(f, g, more) ==
  LET entry   == IF more THEN "digest" ELSE "entries"
      element == IF Len(g.optional) < g.optCount THEN "optId" ELSE "indexSize"
  IN  CASE f = "magic"        -> "ckType"
        [] f = "ckType"       -> "headerSize"
        [] f = "headerSize"   -> "checksum"
        [] f = "checksum"     -> "header"
        [] f = "dataChecksum" -> "flags"
        [] f = "flags"        -> "compression"
        [] f = "compression"  -> IF Has(g.flags, OptionalElements) THEN "optCount"
                                 ELSE "indexSize"
        [] f = "optCount"     -> element
        [] f = "optId"        -> "optSize"
        [] f = "optSize"      -> "optData"
        [] f = "optData"      -> element
        [] f = "indexSize"    -> "chunkType"
        [] f = "chunkType"    -> "count"
        [] f = "count"        -> entry
        [] f = "digest"       -> IF Has(g.flags, UncompressedSource) THEN "uDigest"
                                 ELSE "compLength"
        [] f = "uDigest"      -> "compLength"
        [] f = "compLength"   -> "length"
        [] f = "length"       -> entry

After(f, g, p) == FieldAfter(f, g, p < end)

(* Field pc has been read: it takes n units and makes the fields g.         *)
Take(n, g) ==
  /\ pos' = pos + n /\ h' = g
  /\ pc' = After(pc, g, pos + n)
  /\ UNCHANGED <<file, turn, src, end, leadLen, results>>

(* io.ReadFull of n units: all of them, or the reader fails.                *)
Fits(n) == pos + n <= end
Here(n) == SubSeq(src, pos + 1, pos + n)

(* A compressed integer at the position.                                    *)
NextInt == ReadCompressedInt(Octets(SubSeq(src, pos + 1, end)))

ReadMagic ==
  /\ pc = "magic"
  /\ \/ Fits(1) /\ Here(1) = Magic /\ Take(1, h)
     \/ Fits(1) /\ Here(1) = DetachedMagic /\ Take(1, [h EXCEPT !.detached = TRUE])
     \/ ~(Fits(1) /\ Here(1) \in {Magic, DetachedMagic}) /\ Reject

(* What each integer may be.                                                *)
Valid(f, v) ==
  /\ f \in {"ckType", "chunkType"} => v \in DOMAIN DigestSize
  /\ f = "flags" => v \in knownFlags
  /\ f = "compression" => v \in CompressionTypes

ReadInt(f) ==
  /\ pc = f
  /\ LET r  == NextInt
         ok == r.err = "nil" /\ Valid(f, r.value)
     IN  \/ ok /\ Take(r.length, [h EXCEPT ![f] = r.value])
         \/ ~ok /\ Reject

ReadDigest(f) ==
  /\ pc = f
  /\ LET n == DigestSize[IF f \in {"digest", "uDigest"} THEN h.chunkType ELSE h.ckType]
     IN  \/ Fits(n) /\ Take(n, [h EXCEPT ![f] = Here(n)])
         \/ ~Fits(n) /\ Reject

(* Fault: the magic that the lead has is hashed.                            *)
VerifyHeaderOwnMagic(g, hdr) ==
  g.checksum = Sum(g.ckType, (IF g.detached THEN DetachedMagic ELSE Magic)
                               \o CInt(g.ckType) \o CInt(g.headerSize) \o hdr)

(* Fault: only the length of the checksum is looked at.                     *)
VerifyHeaderLength(g, hdr) ==
  Len(g.checksum) = Len(HeaderChecksum(g.ckType, g.headerSize, hdr))

(* Lead.VerifyHeader: the lead is hashed as it would be written, not as it  *)
(* was read.                                                                *)
VerifyHeader(g, hdr) == g.checksum = HeaderChecksum(g.ckType, g.headerSize, hdr)

(* The header after the lead.  The stream reader goes on where the lead     *)
(* ends; the remote one asks for the header where the lead, as it would be  *)
(* written, ends; the detached one reads as much as the lead states.  Both  *)
(* of these want it complete and verified before it is parsed.              *)
FetchHeader ==
  /\ pc = "header"
  /\ LET from == IF reader = "remote" THEN HeaderStart(h.ckType, h.headerSize) ELSE pos
         hdr  == SubSeq(file.units, from + 1, from + h.headerSize)
         ok   == /\ from + h.headerSize <= Len(file.units)
                 /\ VerifyHeader(h, hdr)
     IN  \/ /\ reader = "stream"
            /\ pc' = "dataChecksum" /\ leadLen' = pos
            /\ UNCHANGED <<file, turn, src, pos, end, h, results>>
         \/ /\ reader # "stream" /\ ok
            /\ pc' = "dataChecksum" /\ leadLen' = from
            /\ src' = hdr /\ pos' = 0 /\ end' = Len(hdr)
            /\ UNCHANGED <<file, turn, h, results>>
         \/ /\ reader # "stream" /\ ~ok
            /\ Reject

ReadOptData ==
  /\ pc = "optData"
  /\ \/ /\ Fits(h.optSize)
        /\ Take(h.optSize, [h EXCEPT !.optional =
                              Append(@, [id |-> h.optId, data |-> Here(h.optSize)])])
     \/ ~Fits(h.optSize) /\ Reject

(* ReadIndex: the whole index is read, then parsed to its end.              *)
ReadIndexSize ==
  /\ pc = "indexSize"
  /\ LET r  == NextInt
         ok == r.err = "nil" /\ Fits(r.length + r.value)
     IN  \/ /\ ok
            /\ pos' = pos + r.length /\ end' = pos + r.length + r.value
            /\ pc' = "chunkType"
            /\ UNCHANGED <<file, turn, src, h, leadLen, results>>
         \/ ~ok /\ Reject

(* The last field of an entry.                                              *)
ReadLength ==
  /\ pc = "length"
  /\ LET r == NextInt
     IN  \/ /\ r.err = "nil"
            /\ Take(r.length,
                    [h EXCEPT !.chunks =
                       Append(@, [digest |-> h.digest, compLength |-> h.compLength,
                                  length |-> r.value,
                                  uDigest |-> IF Has(h.flags, UncompressedSource)
                                              THEN h.uDigest ELSE <<>>])])
         \/ r.err # "nil" /\ Reject

(* Fault: the declared chunk count is not compared.                         *)
CountAgreesNot == TRUE

CountAgrees == h.count = Len(h.chunks)

(* The index has been consumed; the count it declares corroborates it.      *)
CheckCount ==
  /\ pc = "entries"
  /\ \/ /\ CountAgrees
        /\ pc' = "sigCount" /\ end' = Len(src)
        /\ UNCHANGED <<file, turn, src, pos, h, leadLen, results>>
     \/ ~CountAgrees /\ Reject

(* Fault: the lead's length is always computed from its values.             *)
BodyOffsetShortest(n) ==
  IF reader = "stream" THEN pos + n
  ELSE HeaderStart(h.ckType, h.headerSize) + h.headerSize

(* Where the body begins, n units after the position: for the stream reader *)
(* where it stands by then, for the others where the header ends by the     *)
(* lead's word; what is left of the header by then is not looked at.        *)
BodyOffset(n) == IF reader = "stream" THEN pos + n ELSE leadLen + h.headerSize

(* ReadSignatures, and what the reader makes of the file.                   *)
ReadSignatures ==
  /\ pc = "sigCount"
  /\ LET r  == NextInt
         ok == r.err = "nil" /\ r.value = 0
     IN  \/ /\ ok
            /\ Result([accepted |-> TRUE, fields |-> h, bodyOffset |-> BodyOffset(r.length),
                       read |-> SubSeq(src, IF reader = "stream" THEN leadLen + 1 ELSE 1,
                                       pos + r.length)])
         \/ ~ok /\ Reject

Done == pc = "done" /\ UNCHANGED vars

IntFields    == {"ckType", "headerSize", "flags", "compression", "optCount", "optId",
                 "optSize", "chunkType", "count", "compLength"}
DigestFields == {"checksum", "dataChecksum", "digest", "uDigest"}

Next ==
  \/ ReadMagic \/ FetchHeader \/ ReadOptData \/ ReadIndexSize \/ ReadLength
  \/ CheckCount \/ ReadSignatures \/ Done
  \/ \E f \in IntFields : ReadInt(f)
  \/ \E f \in DigestFields : ReadDigest(f)

Spec == Init /\ [][Next]_vars

----------------------------------------------------------------------------
(* Properties *)

Accepts(k) == k \in DOMAIN results /\ results[k].accepted

(* What a header written by WriteFile or WriteDetachedHeader says is read   *)
(* back, field by field, by every reader, and all of them place the body    *)
(* where the header ends (file.go:57-110, remote.go:61-67).                 *)
WrittenHeadersAreReadBack ==
  file.origin.kind = "written" =>
    \A k \in DOMAIN results :
      /\ results[k].accepted
      /\ results[k].bodyOffset = file.origin.bodyOffset
      /\ \A f \in DOMAIN file.origin.fields :
           f # "dataChecksum" => results[k].fields[f] = file.origin.fields[f]

(* A unit of the header changed on the way: the readers that verify refuse  *)
(* the file, unless it is the magic that became the other one, which        *)
(* changes nothing else of what they read (lead.go:90-97).                  *)
ChangedHeadersAreRefused ==
  file.origin.kind = "changed" =>
    \A k \in 2 .. Len(results) :
      results[k].accepted =>
        /\ file.origin.at = 1
        /\ results[k].bodyOffset = file.origin.bodyOffset

(* Somewhere a last group follows that adds nothing.                        *)
Padded(units) ==
  \E k \in 2 .. Len(units) : units[k].octet = Radix /\ ~Final(units[k - 1].octet)

(* The optional-elements flag without an element.                           *)
EmptyOptional(x) == Has(x.flags, OptionalElements) /\ x.optional = <<>>

(* Whatever a reader accepts, it has read all of: written again it is the   *)
(* header that was read, but for the padding of integers.  Nothing that a   *)
(* foreign writer put there is dropped or taken twice, and the section      *)
(* sizes and counts agree with what they count (index.go:49-103).  The one  *)
(* header that is accepted and cannot be written again is that with the     *)
(* optional-elements flag and no element (preface.go:103-119, 138-141).     *)
NothingIsLostInReading ==
  \A k \in DOMAIN results :
    results[k].accepted =>
      LET x == results[k].fields
      IN  \/ ~Writable(x) /\ EmptyOptional(x)
          \/ Writable(x) /\ Octets(HeaderBody(x)) = Octets(results[k].read)
          \/ Writable(x) /\ Padded(results[k].read) /\ Len(HeaderBody(x)) < Len(results[k].read)

Agrees(k) ==
  Accepts(k) => /\ Accepts(1)
                /\ results[1].fields = results[k].fields
                /\ results[1].bodyOffset <= results[k].bodyOffset

(* The readers that a download is planned from accept no header that the    *)
(* reader of extract would not read in the same way, and never place the    *)
(* body before the end of what that one reads: the file that is downloaded  *)
(* is the file that was planned for (remote.go:45-65, 104-117).             *)
ReadersAgree == \A k \in 2 .. Len(results) : Agrees(k)

(* "so it round-trips through the readers and Extract" (remote.go:137-139): *)
(* a file that can be downloaded has its body where extract looks for it.   *)
DownloadedFilesExtract ==
  Accepts(2) => Accepts(1) /\ results[1].bodyOffset = results[2].bodyOffset
=============================================================================

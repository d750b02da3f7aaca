--------------------------- MODULE DownloadProofs ---------------------------
(***************************************************************************)
(* Theorems about Download for all files, commands and servers, any number *)
(* of commands, republications and kills: by the inductive invariant IInv, *)
(* every file on disk is the start of a published file, a download that    *)
(* succeeds has written all of it, and no command touches a file but OUT;  *)
(* by QuietInv, a download succeeds when nothing fails or changes.         *)
(*                                                                         *)
(* And about ConcurrentDownload, where AssembleBody assembles the body: by *)
(* ConcurrentInv, all of it is a Download, for any number of requests at a *)
(* time and any order of their answers.                                    *)
(***************************************************************************)
EXTENDS DeltaProofs, ConcurrentDownload

----------------------------------------------------------------------------
(* Units and files *)

(* A lead with the other magic is a lead with the same checksum.            *)
LEMMA OtherMagic ==
  ASSUME NEW u \in Unit, IsLead(u), NEW b \in BOOLEAN
  PROVE  LET v == [u EXCEPT !.detached = b]
         IN  /\ v \in Unit /\ IsLead(v) /\ v.detached = b
             /\ v.ckType = u.ckType /\ v.checksum = u.checksum
<1> DEFINE held == UNION {{content[n] : n \in DOMAIN content} : content \in Held}
           v == [u EXCEPT !.detached = b]
<1>1. u \in [detached : BOOLEAN, ckType : {u.ckType}, checksum : {u.checksum}]
  BY FilesAssumption
<1>2. /\ IsLead(v) /\ v.detached = b /\ v.ckType = u.ckType /\ v.checksum = u.checksum
  BY <1>1 DEF IsLead
<1>3. v \in Unit
  <2>1. CASE u \in held
    BY <2>1 DEF Unit
  <2>2. CASE u \notin held
    <3>1. PICK h \in held, a \in BOOLEAN : IsLead(h) /\ u = [h EXCEPT !.detached = a]
      BY <2>2 DEF Unit
    <3>2. v = [h EXCEPT !.detached = b]
      BY <3>1
    <3> QED BY <3>1, <3>2 DEF Unit
  <2> QED BY <2>1, <2>2
<1> QED BY <1>2, <1>3

(* The index of a header is one that ReadIndex yields.                      *)
LEMMA HeaderIndex ==
  ASSUME NEW u \in Unit, IsHeader(u)
  PROVE  ProperIndex(u.index)
BY FilesAssumption

(* What the user may start with, and the server may hold.                   *)
LEMMA ServerIsUnits ==
  ASSUME NEW content \in ServerContents
  PROVE  content \in Seq(Unit)
BY FilesAssumption

(* A verified header, as it is written, is the start of a file.             *)
LEMMA HeaderAlone ==
  ASSUME NEW h, Published(h)
  PROVE  Parses(h) /\ VerifiedPrefix(h) /\ ProperIndex(h[2].index)
<1>1. /\ h \in Seq(Unit) /\ Len(h) = 2 /\ IsLead(h[1]) /\ IsHeader(h[2])
      /\ Sum(h[1].ckType, <<h[2]>>) = h[1].checksum /\ h[2] \in Unit
  <2>1. h \in Seq(Unit) /\ Len(h) = 2
    BY DEF Published, BodyOffset, LeadLen, HeaderSize
  <2>2. 2 \in 1 .. Len(h)
    BY <2>1
  <2> QED BY <2>1, <2>2, ElementOfSeq DEF Published, VerifyHeader
<1>2. ProperIndex(h[2].index)
  BY <1>1, HeaderIndex
<1> DEFINE idx == h[2].index
           off == Offsets(CompLengths(idx))
<1>3. BodyOf(h) = <<>> /\ Len(BodyOf(h)) = 0
  <2>1. BodyOf(h) = SubSeq(h, 3, 2)
    BY <1>1 DEF BodyOf, BodyOffset, LeadLen, HeaderSize
  <2> QED BY <2>1, SubSeqEmpty, EmptySeq
<1>4. Len(BodyOf(h)) <= Total(CompLengths(idx))
  <2>1. Len(idx.chunks) + 1 \in 1 .. Len(idx.chunks) + 1
    BY <1>2, IndexFacts
  <2>2. Total(CompLengths(idx)) \in Nat
    BY <1>2, <2>1, IndexFacts
  <2> QED BY <1>3, <2>2
<1>5. ASSUME NEW n \in DOMAIN idx.chunks, idx.chunks[n].compLength > 0
      PROVE  ~Reaches(idx, n, 0)
  <2>1. n \in 1 .. Len(idx.chunks) + 1
    BY <1>2, IndexFacts
  <2>2. off[n] \in Nat /\ off[n + 1] = off[n] + idx.chunks[n].compLength
        /\ idx.chunks[n].compLength \in Nat
    BY <1>2, <2>1, IndexFacts
  <2> HIDE DEF idx, off
  <2> QED BY <1>5, <2>2 DEF Reaches, off
<1>6. Parses(h)
  BY <1>1 DEF Parses, BodyOffset, LeadLen, HeaderSize
<1> QED BY <1>1, <1>2, <1>3, <1>4, <1>5, <1>6 DEF VerifiedPrefix

(* Too short for a header: nothing to verify.                               *)
LEMMA ShortIsVerified ==
  ASSUME NEW content, Len(content) \in Nat, Len(content) < 2
  PROVE  ~(Len(content) >= BodyOffset) /\ VerifiedPrefix(content)
BY DEF VerifiedPrefix, BodyOffset, LeadLen, HeaderSize

(* Appending to a file appends to its body.                                 *)
LEMMA BodyGrows ==
  ASSUME NEW content \in Seq(Unit), Len(content) >= 2, NEW data \in Seq(Unit)
  PROVE  /\ BodyOf(content) \in Seq(Unit) /\ Len(BodyOf(content)) = Len(content) - 2
         /\ BodyOf(content \o data) = BodyOf(content) \o data
         /\ content \o data \in Seq(Unit)
         /\ Len(content \o data) = Len(content) + Len(data) /\ Len(data) \in Nat
         /\ (content \o data)[1] = content[1] /\ (content \o data)[2] = content[2]
<1> DEFINE grown == content \o data
<1>1. /\ grown \in Seq(Unit) /\ Len(grown) = Len(content) + Len(data)
      /\ Len(content) \in Nat /\ Len(data) \in Nat
      /\ \A k \in 1 .. Len(content) + Len(data) :
           grown[k] = IF k <= Len(content) THEN content[k] ELSE data[k - Len(content)]
  BY ConcatProperties, LenProperties
<1>2. grown[1] = content[1] /\ grown[2] = content[2]
  BY <1>1
<1> HIDE DEF grown
<1> DEFINE body == SubSeq(content, 3, Len(content))
           more == SubSeq(grown, 3, Len(grown))
<1>3. BodyOf(content) = body /\ BodyOf(grown) = more
  BY DEF BodyOf, BodyOffset, LeadLen, HeaderSize
<1>4. body \in Seq(Unit) /\ Len(body) = Len(content) - 2
      /\ \A k \in 1 .. Len(content) - 2 : body[k] = content[2 + k]
  <2>1. 2 \in 0 .. Len(content) /\ Len(content) \in 2 .. Len(content) /\ 2 + 1 = 3
    BY <1>1
  <2>2. /\ SubSeq(content, 2 + 1, Len(content)) \in Seq(Unit)
        /\ Len(SubSeq(content, 2 + 1, Len(content))) = Len(content) - 2
        /\ \A k \in 1 .. Len(content) - 2 :
             SubSeq(content, 2 + 1, Len(content))[k] = content[2 + k]
    BY <2>1, SubSeqFacts
  <2> QED BY <2>1, <2>2
<1>5. more \in Seq(Unit) /\ Len(more) = Len(grown) - 2
      /\ \A k \in 1 .. Len(grown) - 2 : more[k] = grown[2 + k]
  <2>1. 2 \in 0 .. Len(grown) /\ Len(grown) \in 2 .. Len(grown) /\ 2 + 1 = 3
    BY <1>1
  <2> QED BY <1>1, <2>1, SubSeqFacts
<1> HIDE DEF body, more
<1> DEFINE joined == body \o data
<1>6. /\ joined \in Seq(Unit) /\ Len(joined) = Len(body) + Len(data)
      /\ \A k \in 1 .. Len(body) + Len(data) :
           joined[k] = IF k <= Len(body) THEN body[k] ELSE data[k - Len(body)]
  BY <1>4, ConcatProperties
<1> HIDE DEF joined
<1>7. more = joined
  <2>1. Len(more) = Len(joined)
    BY <1>1, <1>4, <1>5, <1>6
  <2>2. ASSUME NEW k \in 1 .. Len(more) PROVE more[k] = joined[k]
    <3>1. k \in 1 .. Len(grown) - 2 /\ k \in 1 .. Len(body) + Len(data)
          /\ 2 + k \in 1 .. Len(content) + Len(data)
      BY <1>1, <1>4, <1>5, <2>2
    <3>2. CASE k <= Len(body)
      <4>1. k \in 1 .. Len(content) - 2 /\ 2 + k <= Len(content)
        BY <1>1, <1>4, <3>1, <3>2
      <4> QED BY <1>1, <1>4, <1>5, <1>6, <3>1, <3>2, <4>1
    <3>3. CASE ~(k <= Len(body))
      <4>1. ~(2 + k <= Len(content)) /\ (2 + k) - Len(content) = k - Len(body)
        BY <1>1, <1>4, <3>1, <3>3
      <4>2. more[k] = data[(2 + k) - Len(content)]
        BY <1>1, <1>5, <3>1, <4>1
      <4>3. joined[k] = data[k - Len(body)]
        BY <1>6, <3>1, <3>3
      <4> QED BY <4>1, <4>2, <4>3
    <3> QED BY <3>2, <3>3
  <2> QED BY <1>5, <1>6, <2>1, <2>2, SeqEqual
<1> QED BY <1>1, <1>2, <1>3, <1>4, <1>7 DEF grown, joined

(* A file that holds the chunks before n remains the start of a published   *)
(* file if a part of chunk n is appended, or all of it and it verifies.     *)
LEMMA VerifiedGrows ==
  ASSUME NEW content \in Seq(Unit), Parses(content), VerifiedPrefix(content),
         NEW idx, idx = content[2].index, ProperIndex(idx),
         NEW n \in DOMAIN idx.chunks,
         Len(BodyOf(content)) = Offsets(CompLengths(idx))[n],
         NEW data \in Seq(Unit),
         \/ Len(data) < idx.chunks[n].compLength
         \/ /\ Len(data) = idx.chunks[n].compLength
            /\ Sum(idx.ckType, data) = idx.chunks[n].digest
  PROVE  Parses(content \o data) /\ VerifiedPrefix(content \o data)
<1> DEFINE off  == Offsets(CompLengths(idx))
           body == BodyOf(content)
           l(m) == idx.chunks[m].compLength
           grown == content \o data
<1>0. /\ n \in 1 .. Len(idx.chunks) /\ n \in Nat /\ Len(idx.chunks) \in Nat
      /\ DOMAIN idx.chunks = 1 .. Len(idx.chunks)
  BY IndexFacts
<1>1. Len(content) >= 2 /\ Len(content) \in Nat /\ IsLead(content[1]) /\ IsHeader(content[2])
  BY LenProperties DEF Parses, BodyOffset, LeadLen, HeaderSize
<1>2. /\ body \in Seq(Unit) /\ Len(body) = Len(content) - 2 /\ Len(body) \in Nat
      /\ BodyOf(grown) = body \o data /\ Len(grown) >= 2
      /\ grown[1] = content[1] /\ grown[2] = content[2] /\ Len(data) \in Nat
  <2>1. /\ body \in Seq(Unit) /\ Len(body) = Len(content) - 2
        /\ BodyOf(grown) = body \o data /\ Len(grown) = Len(content) + Len(data)
        /\ grown[1] = content[1] /\ grown[2] = content[2] /\ Len(data) \in Nat
    BY <1>1, BodyGrows
  <2> QED BY <1>1, <2>1, LenProperties
<1>3. body \o data \in Seq(Unit) /\ Len(body \o data) = off[n] + Len(data)
  BY <1>2, ConcatProperties
<1>4. /\ off[n] \in Nat /\ off[n + 1] = off[n] + l(n) /\ l(n) \in Nat /\ off[n + 1] \in Nat
      /\ off[n + 1] <= off[Len(idx.chunks) + 1]
      /\ Total(CompLengths(idx)) = off[Len(idx.chunks) + 1]
      /\ off[Len(idx.chunks) + 1] \in Nat
  <2>1. /\ n \in 1 .. Len(idx.chunks) + 1 /\ n + 1 \in 1 .. Len(idx.chunks) + 1
        /\ Len(idx.chunks) + 1 \in n + 1 .. Len(idx.chunks) + 1
        /\ Len(idx.chunks) + 1 \in 1 .. Len(idx.chunks) + 1
    BY <1>0
  <2> QED BY <1>0, <2>1, IndexFacts
<1>5. Len(body \o data) <= off[n + 1] /\ Len(body \o data) <= Total(CompLengths(idx))
  <2>1. Len(data) <= l(n)
    <3>1. Len(data) \in Nat /\ l(n) \in Nat
      BY <1>2, <1>4
    <3>2. Len(data) < l(n) \/ Len(data) = l(n)
      OBVIOUS
    <3> HIDE DEF l
    <3> QED BY <3>1, <3>2
  <2>2. off[n] + Len(data) <= off[n + 1]
    <3> HIDE DEF off, l
    <3> QED BY <1>2, <1>4, <2>1
  <2>3. off[n + 1] <= Total(CompLengths(idx))
    BY <1>4
  <2>4. off[n + 1] \in Nat /\ Total(CompLengths(idx)) \in Nat
    <3>1. off[n] \in Nat /\ l(n) \in Nat /\ off[n + 1] = off[n] + l(n)
      BY <1>4
    <3>2. Total(CompLengths(idx)) = off[Len(idx.chunks) + 1] /\ off[Len(idx.chunks) + 1] \in Nat
      BY <1>4
    <3> HIDE DEF off, l
    <3> QED BY <3>1, <3>2
  <2>5. Len(body \o data) = off[n] + Len(data) /\ off[n] \in Nat /\ Len(data) \in Nat
    BY <1>2, <1>3, <1>4
  <2> HIDE DEF off, body
  <2> QED BY <2>2, <2>3, <2>4, <2>5
<1>6. ASSUME NEW m \in DOMAIN idx.chunks, l(m) > 0, off[m + 1] <= Len(body \o data)
      PROVE  Sum(idx.ckType, Slice(body \o data, off[m], l(m))) = idx.chunks[m].digest
  <2>0. m \in 1 .. Len(idx.chunks) /\ m \in Nat
    BY <1>0
  <2>1. /\ l(m) \in Nat /\ off[m] \in Nat /\ off[m + 1] \in Nat
        /\ off[m + 1] = off[m] + l(m)
    <3>1. m \in 1 .. Len(idx.chunks) + 1 /\ m + 1 \in 1 .. Len(idx.chunks) + 1
      BY <1>0, <2>0
    <3> QED BY <1>0, <3>1, IndexFacts
  <2>2. m <= n
    <3>1. SUFFICES ASSUME n < m PROVE FALSE
      BY <1>0, <2>0
    <3>2. n + 1 \in 1 .. Len(idx.chunks) + 1 /\ m \in n + 1 .. Len(idx.chunks) + 1
      BY <1>0, <2>0, <3>1
    <3>3. off[n + 1] <= off[m]
      BY <3>2, IndexFacts
    <3>4. off[m + 1] <= off[n + 1]
      <4> HIDE DEF off, body
      <4>1. off[n + 1] \in Nat /\ off[m + 1] \in Nat
        BY <1>4, <2>1
      <4>2. Len(body \o data) \in Nat
        BY <1>3, LenProperties
      <4> QED BY <1>5, <1>6, <4>1, <4>2
    <3>5. off[n + 1] \in Nat
      BY <1>4
    <3> HIDE DEF off, l
    <3> QED BY <1>6, <2>1, <3>3, <3>4, <3>5
  <2>3. CASE m = n
    <3>1. Len(data) = l(n) /\ Sum(idx.ckType, data) = idx.chunks[n].digest
      <4>1. off[n] + l(n) <= off[n] + Len(data)
        BY <1>3, <1>4, <1>6, <2>3
      <4>2. ~(Len(data) < l(n))
        <5> HIDE DEF off, l
        <5> QED BY <1>2, <1>4, <4>1
      <4> QED BY <4>2
    <3>2. Slice(body \o data, off[n], l(n)) = SubSeq(body \o data, off[n] + 1, off[n] + l(n))
      <4>1. /\ off[n] \in Nat /\ l(n) \in Nat
            /\ body \o data \in Seq(Unit) /\ Len(body \o data) = off[n] + l(n)
        BY <1>3, <1>4, <3>1
      <4> HIDE DEF off, l, body
      <4>2. off[n] + l(n) <= Len(body \o data)
        BY <4>1
      <4> QED BY <4>1, <4>2, SliceInside
    <3>3. SubSeq(body \o data, Len(body) + 1, Len(body \o data)) = data
      BY <1>2, AppendedSuffix
    <3>4. off[n] + l(n) = Len(body \o data) /\ off[n] = Len(body)
      BY <1>3, <3>1
    <3> QED BY <2>3, <3>1, <3>2, <3>3, <3>4
  <2>4. CASE m < n
    <3>1. off[m + 1] <= Len(body)
      <4>1. m + 1 \in 1 .. Len(idx.chunks) + 1 /\ n \in m + 1 .. Len(idx.chunks) + 1
        BY <1>0, <2>0, <2>4
      <4> QED BY <4>1, IndexFacts
    <3>2. Sum(idx.ckType, Slice(body, off[m], l(m))) = idx.chunks[m].digest
      <4>1. Reaches(idx, m, Len(body))
        BY <3>1 DEF Reaches
      <4>2. Len(content) >= BodyOffset
        BY DEF Parses
      <4> QED BY <1>6, <4>1, <4>2 DEF VerifiedPrefix
    <3>3. Slice(body \o data, off[m], l(m)) = Slice(body, off[m], l(m))
      <4> DEFINE o == off[m]
                 k == l(m)
      <4>1. o \in Nat /\ k \in Nat /\ k > 0 /\ o + k <= Len(body)
            /\ Len(body \o data) = Len(body) + Len(data)
        BY <1>3, <1>6, <2>1, <3>1
      <4> HIDE DEF o, k, body
      <4>2. o + k <= Len(body \o data)
        BY <1>2, <4>1
      <4>3. /\ Slice(body, o, k) = SubSeq(body, o + 1, o + k)
            /\ Slice(body \o data, o, k) = SubSeq(body \o data, o + 1, o + k)
        <5>1. body \in Seq(Unit)
          BY <1>2
        <5>2. body \o data \in Seq(Unit)
          BY <1>3
        <5>3. Slice(body, o, k) = SubSeq(body, o + 1, o + k)
          BY <4>1, <5>1, SliceInside
        <5>4. Slice(body \o data, o, k) = SubSeq(body \o data, o + 1, o + k)
          <6> DEFINE both == body \o data
          <6>1. both \in Seq(Unit) /\ o + k <= Len(both)
            BY <4>2, <5>2
          <6> HIDE DEF both
          <6>2. Slice(both, o, k) = SubSeq(both, o + 1, o + k)
            BY <4>1, <6>1, SliceInside
          <6> QED BY <6>2 DEF both
        <5> QED BY <5>3, <5>4
      <4>4. o + 1 \in 1 .. Len(body) /\ o + k \in 1 .. Len(body)
        BY <1>2, <4>1
      <4>5. SubSeq(body \o data, o + 1, o + k) = SubSeq(body, o + 1, o + k)
        BY <1>2, <4>4, SubSeqOfConcat1
      <4> QED BY <4>3, <4>5 DEF o, k
    <3> QED BY <3>2, <3>3
  <2> QED BY <1>0, <2>0, <2>2, <2>3, <2>4
<1>7. Sum(grown[1].ckType, <<grown[2]>>) = grown[1].checksum
  BY <1>2 DEF Parses, VerifiedPrefix
<1>8. Parses(grown)
  BY <1>1, <1>2 DEF Parses, BodyOffset, LeadLen, HeaderSize
<1> HIDE DEF grown, body
<1> QED BY <1>2, <1>5, <1>6, <1>7, <1>8 DEF VerifiedPrefix, Reaches, grown

----------------------------------------------------------------------------
(* What steps have in common *)

(* A step that writes nothing.                                              *)
LEMMA DiskFrame ==
  ASSUME FilesParse, DiskHoldsVerifiedPrefixes,
         disk' = disk, server' \in ServerContents, seen' \subseteq ServerContents
  PROVE  FilesParse' /\ DiskHoldsVerifiedPrefixes'
BY DEF FilesParse, DiskHoldsVerifiedPrefixes

(* A step that changes OUT and leaves the start of a published file there.  *)
LEMMA OutWritten ==
  ASSUME FilesParse, DiskHoldsVerifiedPrefixes, cmd.out \in Paths,
         NEW new \in Seq(Unit), disk' = [disk EXCEPT ![cmd.out] = new],
         Len(new) >= BodyOffset => Parses(new), VerifiedPrefix(new),
         server' = server, seen' \subseteq ServerContents
  PROVE  FilesParse' /\ DiskHoldsVerifiedPrefixes' /\ disk'[cmd.out] = new
<1>1. /\ disk \in [Paths -> Seq(Unit)] /\ server \in ServerContents
      /\ \A p \in Paths : Len(disk[p]) >= BodyOffset => Parses(disk[p])
      /\ \A p \in Paths : VerifiedPrefix(disk[p])
  BY DEF FilesParse, DiskHoldsVerifiedPrefixes
<1>2. \A p \in Paths : disk'[p] = IF p = cmd.out THEN new ELSE disk[p]
  BY <1>1
<1>3. disk' \in [Paths -> Seq(Unit)]
  BY <1>1
<1>4. \A p \in Paths : Len(disk'[p]) >= BodyOffset => Parses(disk'[p])
  BY <1>1, <1>2
<1>5. \A p \in Paths : VerifiedPrefix(disk'[p])
  BY <1>1, <1>2
<1> QED BY <1>1, <1>2, <1>3, <1>4, <1>5 DEF FilesParse, DiskHoldsVerifiedPrefixes

(* The commands that have an OUT.                                           *)
LEMMA OutIsAPath ==
  ASSUME CommandAtWork, pc # "idle", cmd.kind \in {"download", "header"}
  PROVE  cmd \in Commands /\ cmd.out \in Paths
BY CommandsAssumption DEF CommandAtWork

LEMMA NoLocalIsProper ==
  ProperIndex(NoLocal.index)
BY EmptySeq DEF ProperIndex, NoLocal, NilIndex

(* A command that ends, unless it is a download that succeeds.              *)
LEMMA ExitIInv ==
  ASSUME NEW e, Exit(e), cmd \in Commands, cmd' = cmd,
         ~(cmd.kind = "download" /\ e = "nil"),
         FilesParse', DiskHoldsVerifiedPrefixes'
  PROVE  IInv'
<1>1. pc' = "exited" /\ err' = e /\ loc' = NoLocal
  BY DEF Exit
<1>2. ~Downloaded'
  BY <1>1 DEF Downloaded
<1>3. CommandAtWork'
  BY <1>1, NoLocalIsProper DEF CommandAtWork
<1>4. HeaderVerified'
  BY <1>1, <1>2 DEF HeaderVerified
<1>5. OutHoldsTheChunks'
  BY <1>1, <1>2 DEF OutHoldsTheChunks
<1> QED BY <1>3, <1>4, <1>5 DEF IInv

(* A command that ends without having written in this step.                 *)
LEMMA ExitUnwritten ==
  ASSUME IInv, NEW e, Exit(e), pc # "idle", e # "nil" \/ cmd.kind # "download",
         UNCHANGED <<disk, server, cmd>>
  PROVE  IInv'
<1>1. seen' \subseteq ServerContents /\ server' \in ServerContents
  BY DEF Exit, IInv, FilesParse
<1>2. FilesParse' /\ DiskHoldsVerifiedPrefixes'
  BY <1>1, DiskFrame DEF IInv
<1>3. cmd \in Commands
  BY DEF IInv, CommandAtWork
<1> QED BY <1>2, <1>3, ExitIInv

----------------------------------------------------------------------------
(* The inductive invariant, step by step *)

LEMMA InitIInv ==
  ASSUME Init
  PROVE  IInv
<1>1. FilesParse /\ DiskHoldsVerifiedPrefixes
  BY FilesAssumption DEF Init, FilesParse, DiskHoldsVerifiedPrefixes
<1>2. CommandAtWork
  BY NoLocalIsProper DEF Init, CommandAtWork
<1>3. HeaderVerified
  BY DEF Init, HeaderVerified, Downloaded
<1>4. OutHoldsTheChunks
  BY DEF Init, OutHoldsTheChunks, Downloaded
<1> QED BY <1>1, <1>2, <1>3, <1>4 DEF IInv

LEMMA StartIInv ==
  ASSUME IInv, NEW c \in Commands, Start(c)
  PROVE  IInv'
<1>1. /\ cmd' = c /\ pc' = FirstStep(c) /\ loc' = loc
      /\ UNCHANGED <<disk, server, seen>>
  BY DEF Start, callVars
<1>2. FilesParse' /\ DiskHoldsVerifiedPrefixes'
  <2>1. server \in ServerContents /\ seen \subseteq ServerContents
    BY DEF IInv, FilesParse
  <2> QED BY <1>1, <2>1, DiskFrame DEF IInv
<1>3. \/ c.kind = "header" /\ pc' = "read file"
      \/ c.kind \in {"download", "delta-size"} /\ pc' = "open local"
  BY <1>1, CommandsAssumption DEF FirstStep
<1>4. CommandAtWork'
  <2>1. /\ ProperIndex(loc'.index)
        /\ loc' = NoLocal \/ (loc'.path \in Paths /\ loc'.size \in Nat)
    BY <1>1 DEF IInv, CommandAtWork
  <2> QED BY <1>1, <1>3, <2>1 DEF CommandAtWork
<1>5. HeaderVerified' /\ OutHoldsTheChunks'
  BY <1>3 DEF HeaderVerified, OutHoldsTheChunks, Downloaded
<1> QED BY <1>2, <1>4, <1>5 DEF IInv

(* What openLocal finds in a file that parses.                              *)
LEMMA ParsedFile ==
  ASSUME NEW content \in Seq(Unit), Parses(content)
  PROVE  ProperIndex(content[2].index) /\ Len(content) - BodyOffset \in Nat
<1>1. Len(content) \in Nat /\ Len(content) >= 2 /\ IsHeader(content[2])
  BY LenProperties DEF Parses, BodyOffset, LeadLen, HeaderSize
<1>2. 2 \in 1 .. Len(content)
  BY <1>1
<1>3. ProperIndex(content[2].index)
  BY <1>1, <1>2, ElementOfSeq, HeaderIndex
<1> QED BY <1>1, <1>3 DEF BodyOffset, LeadLen, HeaderSize

LEMMA OpenLocalIInv ==
  ASSUME IInv, OpenLocal
  PROVE  IInv'
<1>1. /\ pc = "open local" /\ UNCHANGED <<disk, server, cmd>> /\ cmd \in Commands
      /\ cmd.kind \in {"download", "delta-size"}
      /\ cmd.local \in Paths \cup {"none"} /\ ProperIndex(loc.index)
      /\ server \in ServerContents /\ seen \subseteq ServerContents
  BY CommandsAssumption DEF OpenLocal, IInv, CommandAtWork, FilesParse
<1>2. ASSUME NEW e, Exit(e), e = "local"
      PROVE  IInv'
  BY <1>1, <1>2, ExitUnwritten
<1>3. ASSUME pc' = AfterLocal, seen' = seen, ProperIndex(loc'.index),
             loc' = NoLocal \/ (loc'.path \in Paths /\ loc'.size \in Nat),
             cmd.local # "none" => loc'.path = cmd.local
      PROVE  IInv'
  <2>1. FilesParse' /\ DiskHoldsVerifiedPrefixes'
    BY <1>1, <1>3, DiskFrame DEF IInv
  <2>2. \/ cmd.kind = "delta-size" /\ pc' = "lead"
        \/ cmd.kind = "download" /\ pc' = "create"
    BY <1>1, <1>3 DEF AfterLocal
  <2>3. CommandAtWork'
    BY <1>1, <1>3, <2>2 DEF CommandAtWork
  <2>4. HeaderVerified'
    BY <1>1, <2>2 DEF HeaderVerified, Downloaded
  <2>5. OutHoldsTheChunks'
    BY <1>1, <2>2 DEF OutHoldsTheChunks, Downloaded
  <2> QED BY <2>1, <2>3, <2>4, <2>5 DEF IInv
<1>4. CASE cmd.local = "none"
  <2>1. pc' = AfterLocal /\ loc' = loc /\ seen' = seen
    BY <1>4 DEF OpenLocal, callVars
  <2>2. loc = NoLocal \/ (loc.path \in Paths /\ loc.size \in Nat)
    BY DEF IInv, CommandAtWork
  <2> QED BY <1>1, <1>3, <1>4, <2>1, <2>2
<1>5. CASE cmd.local # "none"
  <2>1. disk[cmd.local] \in Seq(Unit)
    BY <1>1, <1>5 DEF IInv, FilesParse
  <2>2. CASE Parses(disk[cmd.local])
    <3>1. ProperIndex(disk[cmd.local][2].index) /\ Len(disk[cmd.local]) - BodyOffset \in Nat
      BY <2>1, <2>2, ParsedFile
    <3>2. /\ pc' = AfterLocal /\ seen' = seen
          /\ loc'.path = cmd.local /\ loc'.index = disk[cmd.local][2].index
          /\ loc'.size = Len(disk[cmd.local]) - BodyOffset
      <4>1. /\ pc' = AfterLocal /\ seen' = seen
            /\ loc' = [index |-> disk[cmd.local][2].index, path |-> cmd.local,
                       size |-> Len(disk[cmd.local]) - BodyOffset]
        BY <1>5, <2>2, Zenon DEF OpenLocal
      <4> QED BY <4>1
    <3>3. loc'.size \in Nat /\ cmd.local \in Paths
      BY <1>1, <1>5, <3>1, <3>2
    <3> QED BY <1>3, <3>1, <3>2, <3>3
  <2>3. CASE ~Parses(disk[cmd.local])
    BY <1>2, <1>5, <2>3 DEF OpenLocal
  <2> QED BY <2>2, <2>3
<1> QED BY <1>4, <1>5

(* A header stays verified when it is given one magic or the other.         *)
LEMMA OtherMagicPublished ==
  ASSUME NEW h \in Seq(Unit), Len(h) >= 2, IsLead(h[1]), IsHeader(h[2]),
         VerifyHeader(h[1], h[2]), NEW b \in BOOLEAN
  PROVE  Published(<<[h[1] EXCEPT !.detached = b], h[2]>>)
<1> DEFINE v == [h[1] EXCEPT !.detached = b]
<1>1. h[1] \in Unit /\ h[2] \in Unit
  <2>1. 1 \in 1 .. Len(h) /\ 2 \in 1 .. Len(h)
    BY LenProperties
  <2> QED BY <2>1, ElementOfSeq
<1>2. /\ v \in Unit /\ IsLead(v) /\ v.ckType = h[1].ckType
      /\ v.checksum = h[1].checksum
  BY <1>1, OtherMagic
<1>3. VerifyHeader(v, h[2])
  BY <1>2 DEF VerifyHeader
<1> HIDE DEF v
<1>4. <<v, h[2]>> \in Seq(Unit) /\ Len(<<v, h[2]>>) = 2
      /\ <<v, h[2]>>[1] = v /\ <<v, h[2]>>[2] = h[2]
  BY <1>1, <1>2
<1>5. IsHeader(<<v, h[2]>>[2]) /\ IsLead(<<v, h[2]>>[1])
      /\ VerifyHeader(<<v, h[2]>>[1], <<v, h[2]>>[2])
  BY <1>2, <1>3, <1>4
<1>6. Published(<<v, h[2]>>)
  BY <1>4, <1>5 DEF Published, BodyOffset, LeadLen, HeaderSize
<1> QED BY <1>6 DEF v

(* A file of the user that has a header has a verified one.                 *)
LEMMA FileHeader ==
  ASSUME IInv, NEW p \in Paths, Len(disk[p]) >= BodyOffset
  PROVE  /\ disk[p] \in Seq(Unit) /\ Len(disk[p]) >= 2
         /\ IsLead(disk[p][1]) /\ IsHeader(disk[p][2])
         /\ VerifyHeader(disk[p][1], disk[p][2])
BY DEF IInv, FilesParse, DiskHoldsVerifiedPrefixes, Parses, VerifiedPrefix, VerifyHeader,
       BodyOffset, LeadLen, HeaderSize

(* Writing less than a header to an empty OUT.                              *)
LEMMA HeaderWriteFails ==
  ASSUME IInv, NEW h \in Seq(Unit), Len(h) = 2, WriteFails(h),
         cmd.out \in Paths, disk[cmd.out] = <<>>,
         server' = server, seen' \subseteq ServerContents
  PROVE  FilesParse' /\ DiskHoldsVerifiedPrefixes'
<1>1. PICK n \in 0 .. 1 : AppendOut(SubSeq(h, 1, n))
  BY DEF WriteFails
<1>2. SubSeq(h, 1, n) \in Seq(Unit) /\ Len(SubSeq(h, 1, n)) = n
  <2>1. 0 \in 0 .. Len(h) /\ n \in 0 .. Len(h) /\ n - 0 = n /\ 0 + 1 = 1
    OBVIOUS
  <2>2. SubSeq(h, 0 + 1, n) \in Seq(Unit) /\ Len(SubSeq(h, 0 + 1, n)) = n - 0
    BY <2>1, SubSeqFacts
  <2> QED BY <2>1, <2>2
<1> DEFINE part == SubSeq(h, 1, n)
<1> HIDE DEF part
<1>3. part \in Seq(Unit) /\ Len(part) \in Nat /\ Len(part) < 2
  BY <1>2 DEF part
<1>4. disk' = [disk EXCEPT ![cmd.out] = part]
  <2>1. disk' = [disk EXCEPT ![cmd.out] = disk[cmd.out] \o part]
    BY <1>1 DEF AppendOut, part
  <2> QED BY <1>3, <2>1, ConcatEmptySeq
<1>5. ~(Len(part) >= BodyOffset) /\ VerifiedPrefix(part)
  BY <1>3, ShortIsVerified
<1> QED BY <1>3, <1>4, <1>5, OutWritten DEF IInv

(* Writing a verified header to an empty OUT.                               *)
LEMMA HeaderWritten ==
  ASSUME IInv, NEW h, Published(h), AppendOut(h),
         cmd.out \in Paths, disk[cmd.out] = <<>>,
         server' = server, seen' \subseteq ServerContents
  PROVE  FilesParse' /\ DiskHoldsVerifiedPrefixes' /\ disk'[cmd.out] = h
<1>1. h \in Seq(Unit)
  BY DEF Published
<1>2. disk' = [disk EXCEPT ![cmd.out] = h]
  <2>1. disk' = [disk EXCEPT ![cmd.out] = disk[cmd.out] \o h]
    BY DEF AppendOut
  <2> QED BY <1>1, <2>1, ConcatEmptySeq
<1>3. Parses(h) /\ VerifiedPrefix(h)
  BY HeaderAlone
<1> QED BY <1>1, <1>2, <1>3, OutWritten DEF IInv

LEMMA CreateIInv ==
  ASSUME IInv, Create
  PROVE  IInv'
<1>1. /\ pc = "create" /\ UNCHANGED <<server, cmd, rh>> /\ cmd \in Commands
      /\ cmd.kind \in {"download", "header"} /\ cmd.out \in Paths
      /\ seen \subseteq ServerContents
  BY CommandsAssumption DEF Create, IInv, CommandAtWork, FilesParse
<1>2. CASE Exit("create") /\ UNCHANGED disk
  BY <1>1, <1>2, ExitUnwritten
<1>3. CASE /\ disk' = [disk EXCEPT ![cmd.out] = <<>>]
           /\ pc' = IF cmd.kind = "header" THEN "emit"
                    ELSE IF cmd.header # "none" THEN "detached" ELSE "lead"
           /\ UNCHANGED <<err, callVars>>
  <2>1. FilesParse' /\ DiskHoldsVerifiedPrefixes' /\ disk'[cmd.out] = <<>>
    <3>1. /\ <<>> \in Seq(Unit) /\ ~(Len(<<>>) >= BodyOffset)
          /\ VerifiedPrefix(<<>>)
      BY ShortIsVerified, EmptySeq
    <3> QED BY <1>1, <1>3, <3>1, OutWritten DEF IInv, callVars
  <2>2. \/ cmd.kind = "header" /\ pc' = "emit"
        \/ cmd.kind = "download" /\ pc' \in {"detached", "lead"}
    BY <1>1, <1>3
  <2>3. CommandAtWork'
    BY <1>1, <1>3, <2>2 DEF IInv, CommandAtWork, callVars
  <2>4. HeaderVerified'
    BY <1>1, <1>3, <2>2 DEF IInv, HeaderVerified, Downloaded, callVars
  <2>5. OutHoldsTheChunks'
    BY <1>1, <2>1, <2>2 DEF OutHoldsTheChunks, Downloaded
  <2> QED BY <2>1, <2>3, <2>4, <2>5 DEF IInv
<1> QED BY <1>2, <1>3, Zenon DEF Create

LEMMA ReadFileIInv ==
  ASSUME IInv, ReadFile
  PROVE  IInv'
<1>1. /\ pc = "read file" /\ UNCHANGED <<disk, server, cmd>> /\ cmd \in Commands
      /\ cmd.kind = "header" /\ cmd.file \in Paths
      /\ server \in ServerContents /\ seen \subseteq ServerContents
  BY CommandsAssumption DEF ReadFile, IInv, CommandAtWork, FilesParse
<1> DEFINE content == disk[cmd.file]
<1>2. CASE Exit("read")
  BY <1>1, <1>2, ExitUnwritten
<1>3. CASE /\ Len(content) >= BodyOffset
           /\ prefix' = <<[content[1] EXCEPT !.detached = TRUE], content[2]>>
           /\ pc' = "create"
           /\ UNCHANGED <<err, loc, seen>>
  <2>1. Published(prefix')
    BY <1>1, <1>3, FileHeader, OtherMagicPublished
  <2>2. FilesParse' /\ DiskHoldsVerifiedPrefixes'
    BY <1>1, <1>3, DiskFrame DEF IInv
  <2>3. CommandAtWork'
    BY <1>1, <1>3 DEF IInv, CommandAtWork
  <2>4. HeaderVerified'
    BY <1>1, <1>3, <2>1 DEF HeaderVerified, Downloaded
  <2>5. OutHoldsTheChunks'
    BY <1>3 DEF OutHoldsTheChunks, Downloaded
  <2> QED BY <2>2, <2>3, <2>4, <2>5 DEF IInv
<1> QED BY <1>2, <1>3, Zenon DEF ReadFile

LEMMA EmitHeaderIInv ==
  ASSUME IInv, EmitHeader
  PROVE  IInv'
<1>1. /\ pc = "emit" /\ UNCHANGED <<server, cmd>> /\ cmd \in Commands
      /\ cmd.kind = "header" /\ cmd.out \in Paths
      /\ disk[cmd.out] = <<>> /\ Published(prefix)
  BY CommandsAssumption
     DEF EmitHeader, IInv, CommandAtWork, OutHoldsTheChunks, HeaderVerified
<1>2. PICK e : Exit(e) /\ (AppendOut(prefix) \/ WriteFails(prefix))
  BY DEF EmitHeader
<1>3. seen' \subseteq ServerContents
  BY <1>2 DEF Exit
<1>4. prefix \in Seq(Unit) /\ Len(prefix) = 2
  BY <1>1 DEF Published, BodyOffset, LeadLen, HeaderSize
<1>5. FilesParse' /\ DiskHoldsVerifiedPrefixes'
  BY <1>1, <1>2, <1>3, <1>4, HeaderWritten, HeaderWriteFails
<1> QED BY <1>1, <1>2, <1>5, ExitIInv

(* Going on to the next stage of a command with nothing written.            *)
LEMMA GoesOn ==
  ASSUME IInv, pc \in {"detached", "lead", "header"}, pc' \in {"header", "plan"},
         UNCHANGED <<disk, server, cmd, loc, seen>>,
         pc' = "header" =>
           prefix' \in Seq(Unit) /\ prefix' # <<>> /\ IsLead(prefix'[1]),
         pc' = "plan" => Published(rh')
  PROVE  IInv'
<1>1. /\ cmd \in Commands /\ cmd.kind \in {"download", "delta-size"}
      /\ server \in ServerContents /\ seen \subseteq ServerContents
  BY DEF IInv, CommandAtWork, FilesParse
<1>2. FilesParse' /\ DiskHoldsVerifiedPrefixes'
  BY <1>1, DiskFrame DEF IInv
<1>3. CommandAtWork'
  BY <1>1 DEF IInv, CommandAtWork
<1>4. HeaderVerified'
  BY DEF HeaderVerified, Downloaded
<1>5. OutHoldsTheChunks'
  <2>1. cmd.kind = "download" => disk[cmd.out] = <<>>
    BY DEF IInv, OutHoldsTheChunks
  <2>2. ~Downloaded'
    BY DEF Downloaded
  <2>3. /\ cmd'.kind = "download" => disk'[cmd'.out] = <<>>
        /\ pc' \notin {"emit", "body", "check", "close"}
    BY <2>1
  <2> QED BY <2>2, <2>3 DEF OutHoldsTheChunks
<1> QED BY <1>2, <1>3, <1>4, <1>5 DEF IInv

(* The header of a file that parses and matches its lead.                   *)
LEMMA DetachedIsPublished ==
  ASSUME NEW content \in Seq(Unit), Parses(content), VerifyHeader(content[1], content[2])
  PROVE  Published(SubSeq(content, 1, BodyOffset))
<1> DEFINE h == SubSeq(content, 0 + 1, 2)
<1>1. /\ Len(content) >= 2 /\ Len(content) \in Nat
      /\ IsLead(content[1]) /\ IsHeader(content[2])
  BY LenProperties DEF Parses, BodyOffset, LeadLen, HeaderSize
<1>2. h \in Seq(Unit) /\ Len(h) = 2 /\ h[1] = content[1] /\ h[2] = content[2]
  <2>1. 0 \in 0 .. Len(content) /\ 2 \in 0 .. Len(content)
    BY <1>1
  <2>2. h \in Seq(Unit) /\ Len(h) = 2 - 0 /\ \A k \in 1 .. 2 - 0 : h[k] = content[0 + k]
    BY <2>1, SubSeqFacts
  <2> HIDE DEF h
  <2> QED BY <2>2
<1>3. SubSeq(content, 1, BodyOffset) = h
  BY DEF BodyOffset, LeadLen, HeaderSize
<1> HIDE DEF h
<1>4. Published(h)
  BY <1>1, <1>2 DEF Published, BodyOffset, LeadLen, HeaderSize
<1> QED BY <1>3, <1>4

LEMMA ReadDetachedHeaderIInv ==
  ASSUME IInv, ReadDetachedHeader
  PROVE  IInv'
<1> DEFINE content == disk[cmd.header]
           valid   == Parses(content) /\ VerifyHeader(content[1], content[2])
<1>1. /\ pc = "detached" /\ UNCHANGED <<disk, server, cmd>>
      /\ cmd \in Commands /\ cmd.kind = "download"
  BY DEF ReadDetachedHeader, IInv, CommandAtWork
<1>2. CASE Exit("header")
  BY <1>1, <1>2, ExitUnwritten
<1>3. CASE /\ valid /\ rh' = SubSeq(content, 1, BodyOffset) /\ pc' = "plan"
           /\ UNCHANGED <<err, callVars>>
  <2>1. Published(rh')
    <3>1. cmd.header \in Paths
      BY <1>1, CommandsAssumption DEF IInv, CommandAtWork
    <3>2. content \in Seq(Unit)
      BY <3>1 DEF IInv, FilesParse
    <3> HIDE DEF content
    <3> QED BY <1>3, <3>2, DetachedIsPublished
  <2> QED BY <1>1, <1>3, <2>1, GoesOn DEF callVars
<1> QED BY <1>2, <1>3, Zenon DEF ReadDetachedHeader

(* An answer consists of the units of what the server held.                 *)
LEMMA AnswerTypes ==
  ASSUME NEW content \in ServerContents, NEW o \in Int, NEW l \in Int,
         NEW data \in Answers(content, o, l)
  PROVE  data \in Seq(Unit)
<1>1. content \in Seq(Unit)
  BY ServerIsUnits
<1>2. Slice(content, o, l) \in Seq(Unit)
  BY <1>1, SliceType
<1> QED BY <1>1, <1>2 DEF Answers

LEMMA FetchLeadIInv ==
  ASSUME IInv, FetchLead
  PROVE  IInv'
<1>1. /\ pc = "lead" /\ UNCHANGED <<disk, server, cmd>> /\ server \in ServerContents
  BY DEF FetchLead, IInv, FilesParse
<1>2. CASE Exit("lead")
  BY <1>1, <1>2, ExitUnwritten
<1>3. ASSUME NEW data \in Answers(server, 0, LeadPrefix),
             data # <<>>, IsLead(data[1]), prefix' = data, pc' = "header",
             UNCHANGED <<err, loc, seen>>
      PROVE  IInv'
  <2>1. data \in Seq(Unit)
    BY <1>1, AnswerTypes, BoundsAssumption
  <2> QED BY <1>1, <1>3, <2>1, GoesOn
<1> QED BY <1>2, <1>3, Zenon DEF FetchLead, RequestFails

(* The lead of the first answer and the header of the second.               *)
LEMMA FetchedIsPublished ==
  ASSUME NEW lead \in Seq(Unit), lead # <<>>, IsLead(lead[1]),
         NEW data \in Seq(Unit), Len(data) = HeaderSize,
         VerifyHeader(lead[1], data[1]), IsHeader(data[1])
  PROVE  Published(<<lead[1]>> \o data)
<1>1. Len(data) = 1
  BY DEF HeaderSize
<1>2. lead[1] \in Unit
  <2>1. 1 \in 1 .. Len(lead)
    BY EmptySeq, LenProperties
  <2> QED BY <2>1, ElementOfSeq
<1>3. <<lead[1]>> \in Seq(Unit) /\ Len(<<lead[1]>>) = 1 /\ <<lead[1]>>[1] = lead[1]
  <2>1. \A u \in Unit : <<u>> \in Seq(Unit) /\ Len(<<u>>) = 1 /\ <<u>>[1] = u
    OBVIOUS
  <2> QED BY <1>2, <2>1, Zenon
<1> DEFINE h == <<lead[1]>> \o data
<1>4. h \in Seq(Unit) /\ Len(h) = 2 /\ h[1] = lead[1] /\ h[2] = data[1]
  <2>1. ASSUME NEW x \in Seq(Unit), Len(x) = 1
        PROVE  /\ x \o data \in Seq(Unit) /\ Len(x \o data) = 2
               /\ (x \o data)[1] = x[1] /\ (x \o data)[2] = data[1]
    BY <1>1, <2>1, ConcatProperties
  <2> QED BY <1>3, <2>1
<1> HIDE DEF h
<1>5. Published(h)
  BY <1>4 DEF Published, BodyOffset, LeadLen, HeaderSize
<1> QED BY <1>5 DEF h

LEMMA FetchHeaderIInv ==
  ASSUME IInv, FetchHeader
  PROVE  IInv'
<1>1. /\ pc = "header" /\ UNCHANGED <<disk, server, cmd>> /\ server \in ServerContents
      /\ prefix \in Seq(Unit) /\ prefix # <<>> /\ IsLead(prefix[1])
  BY DEF FetchHeader, IInv, FilesParse, HeaderVerified
<1>2. CASE Exit("header")
  BY <1>1, <1>2, ExitUnwritten
<1>3. ASSUME NEW data \in Answers(server, LeadLen, HeaderSize),
             Len(data) = HeaderSize, VerifyHeader(prefix[1], data[1]), IsHeader(data[1]),
             rh' = <<prefix[1]>> \o data, pc' = "plan", UNCHANGED <<err, callVars>>
      PROVE  IInv'
  <2>1. data \in Seq(Unit)
    BY <1>1, AnswerTypes DEF LeadLen, HeaderSize
  <2>2. Published(<<prefix[1]>> \o data)
    BY <1>1, <1>3, <2>1, FetchedIsPublished
  <2> QED BY <1>1, <1>3, <2>2, GoesOn DEF callVars
<1> QED BY <1>2, <1>3, Zenon DEF FetchHeader, RequestFails

LEMMA ReportIInv ==
  ASSUME IInv, Report
  PROVE  IInv'
<1>1. PICK e : Exit(e)
  BY DEF Report
<1> QED BY <1>1, ExitUnwritten DEF Report

LEMMA WriteHeaderIInv ==
  ASSUME IInv, WriteHeader
  PROVE  IInv'
<1>1. /\ pc = "plan" /\ UNCHANGED <<server, cmd, rh>> /\ cmd \in Commands
      /\ cmd.kind = "download" /\ cmd.out \in Paths
      /\ disk[cmd.out] = <<>> /\ Published(rh)
      /\ server \in ServerContents /\ seen \subseteq ServerContents
  BY CommandsAssumption
     DEF WriteHeader, IInv, CommandAtWork, OutHoldsTheChunks, HeaderVerified, FilesParse
<1> DEFINE h == EmbeddedHeader(rh)
<1>2. Published(h)
  <2>1. /\ rh \in Seq(Unit) /\ Len(rh) >= 2 /\ IsLead(rh[1]) /\ IsHeader(rh[2])
        /\ VerifyHeader(rh[1], rh[2])
    BY <1>1 DEF Published, BodyOffset, LeadLen, HeaderSize
  <2>2. Published(<<[rh[1] EXCEPT !.detached = FALSE], rh[2]>>)
    BY <2>1, OtherMagicPublished
  <2> QED BY <2>2 DEF EmbeddedHeader
<1>3. h[2] = rh[2] /\ Len(h) = 2 /\ h \in Seq(Unit) /\ ProperIndex(h[2].index)
  BY <1>2, HeaderAlone DEF EmbeddedHeader, Published, BodyOffset, LeadLen, HeaderSize
<1> HIDE DEF h
<1>4. CASE Exit("plan") /\ UNCHANGED <<disk, next>>
  BY <1>1, <1>4, ExitUnwritten
<1>5. CASE WriteFails(h) /\ Exit("write")
  <2>1. seen' \subseteq ServerContents
    BY <1>5 DEF Exit
  <2>2. FilesParse' /\ DiskHoldsVerifiedPrefixes'
    BY <1>1, <1>3, <1>5, <2>1, HeaderWriteFails
  <2> QED BY <1>1, <1>5, <2>2, ExitIInv
<1>6. CASE /\ AppendOut(h) /\ pc' = "body" /\ next' = 1 /\ seen' = {server}
           /\ UNCHANGED <<err, loc, prefix>>
  <2>1. FilesParse' /\ DiskHoldsVerifiedPrefixes' /\ disk'[cmd.out] = h
    <3>1. seen' \subseteq ServerContents
      BY <1>1, <1>6
    <3> QED BY <1>1, <1>2, <1>6, <3>1, HeaderWritten
  <2>2. CommandAtWork'
    BY <1>1, <1>6 DEF IInv, CommandAtWork
  <2>3. HeaderVerified'
    BY <1>1, <1>6 DEF HeaderVerified, Downloaded
  <2>4. OutHoldsTheChunks'
    <3>1. target' = rh[2].index /\ target' = h[2].index
      BY <1>1, <1>3 DEF target
    <3>2. /\ Len(target'.chunks) \in Nat
          /\ Offsets(CompLengths(target'))[1] = 0
      BY <1>3, <3>1, IndexFacts
    <3>3. /\ next' \in 1 .. Len(target'.chunks) + 1
          /\ Len(disk'[cmd'.out]) = BodyOffset + Offsets(CompLengths(target'))[next']
      BY <1>1, <1>3, <1>6, <2>1, <3>2 DEF BodyOffset, LeadLen, HeaderSize
    <3>4. disk'[cmd'.out][1] = EmbeddedHeader(rh')[1] /\ disk'[cmd'.out][2] = rh'[2]
      BY <1>1, <1>3, <2>1 DEF h
    <3>5. ~Downloaded'
      BY <1>6 DEF Downloaded
    <3> QED BY <1>6, <3>3, <3>4, <3>5 DEF OutHoldsTheChunks
  <2> QED BY <2>1, <2>2, <2>3, <2>4 DEF IInv
<1> QED BY <1>4, <1>5, <1>6, Zenon DEF WriteHeader, h

----------------------------------------------------------------------------
(* The body *)

(* What is known while chunks are written.                                  *)
LEMMA BodyState ==
  ASSUME IInv, pc = "body"
  PROVE  /\ cmd \in Commands /\ cmd.kind = "download" /\ cmd.out \in Paths
         /\ Published(rh) /\ ProperIndex(target) /\ ProperIndex(loc.index)
         /\ disk[cmd.out] \in Seq(Unit) /\ Len(disk[cmd.out]) >= 2
         /\ Parses(disk[cmd.out]) /\ VerifiedPrefix(disk[cmd.out])
         /\ disk[cmd.out][1] = EmbeddedHeader(rh)[1] /\ disk[cmd.out][2] = rh[2]
         /\ disk[cmd.out][2].index = target
         /\ Body \in Seq(Unit) /\ Len(Body) = Offsets(CompLengths(target))[next]
         /\ Len(disk[cmd.out]) = 2 + Offsets(CompLengths(target))[next]
         /\ next \in 1 .. Len(target.chunks) + 1
         /\ server \in ServerContents /\ seen \subseteq ServerContents
<1>1. /\ cmd \in Commands /\ cmd.kind = "download" /\ cmd.out \in Paths
      /\ ProperIndex(loc.index)
  BY CommandsAssumption DEF IInv, CommandAtWork
<1>2. Published(rh) /\ ProperIndex(target)
  <2>1. Published(rh)
    BY DEF IInv, HeaderVerified
  <2> QED BY <2>1, HeaderAlone DEF target
<1>3. /\ next \in 1 .. Len(target.chunks) + 1
      /\ Len(disk[cmd.out]) = 2 + Offsets(CompLengths(target))[next]
      /\ disk[cmd.out][1] = EmbeddedHeader(rh)[1] /\ disk[cmd.out][2] = rh[2]
      /\ disk[cmd.out][2].index = target
  BY DEF IInv, OutHoldsTheChunks, target, BodyOffset, LeadLen, HeaderSize
<1>4. disk[cmd.out] \in Seq(Unit) /\ VerifiedPrefix(disk[cmd.out])
      /\ server \in ServerContents /\ seen \subseteq ServerContents
  BY <1>1 DEF IInv, FilesParse, DiskHoldsVerifiedPrefixes
<1>5. Offsets(CompLengths(target))[next] \in Nat
  BY <1>2, <1>3, IndexFacts
<1>6. Len(disk[cmd.out]) >= 2
  BY <1>3, <1>5
<1>7. Parses(disk[cmd.out])
  BY <1>1, <1>6 DEF IInv, FilesParse, BodyOffset, LeadLen, HeaderSize
<1>8. Body \in Seq(Unit) /\ Len(Body) = Len(disk[cmd.out]) - 2
  <2>1. <<>> \in Seq(Unit)
    OBVIOUS
  <2> QED BY <1>4, <1>6, <2>1, BodyGrows DEF Body
<1>9. Len(Body) = Offsets(CompLengths(target))[next]
  BY <1>3, <1>5, <1>8
<1> QED BY <1>1, <1>2, <1>3, <1>4, <1>6, <1>7, <1>8, <1>9

(* What a source yields are units, and it is asked for the whole chunk.     *)
LEMMA ChunkDataTypes ==
  ASSUME IInv, pc = "body", AtChunk
  PROVE  /\ next \in DOMAIN target.chunks
         /\ plan[next].length = target.chunks[next].compLength
         /\ \A data \in ChunkData : data \in Seq(Unit)
<1>1. ProperIndex(target) /\ ProperIndex(loc.index)
      /\ seen \subseteq ServerContents
  BY BodyState
<1>2. /\ DOMAIN plan = 1 .. Len(target.chunks) /\ Len(plan) = Len(target.chunks)
      /\ \A n \in DOMAIN target.chunks :
           /\ plan[n].local \in BOOLEAN /\ plan[n].offset \in Nat
           /\ plan[n].length = target.chunks[n].compLength
      /\ Lengths(plan) = CompLengths(target)
  BY <1>1, PlanTypes DEF plan
<1>3. /\ DOMAIN target.chunks = 1 .. Len(target.chunks) /\ Len(target.chunks) \in Nat
      /\ \A n \in DOMAIN target.chunks : target.chunks[n].compLength \in Nat
      /\ Offsets(Lengths(plan)) \in [1 .. Len(target.chunks) + 1 -> Nat]
  BY <1>1, <1>2, IndexFacts
<1>4. next \in DOMAIN plan /\ next \in DOMAIN target.chunks /\ plan[next].length > 0
  BY <1>2, <1>3 DEF AtChunk
<1>5. /\ plan[next].local \in BOOLEAN /\ plan[next].offset \in Nat
      /\ plan[next].length \in Nat
      /\ plan[next].length = target.chunks[next].compLength
  BY <1>2, <1>3, <1>4
<1>6. CASE plan[next].local
  <2>1. LocalBody \in Seq(Unit)
    <3>1. CASE loc = NoLocal
      BY <3>1 DEF LocalBody
    <3>2. CASE loc # NoLocal
      <4>1. disk[loc.path] \in Seq(Unit) /\ loc.size \in Int
        BY <3>2 DEF IInv, CommandAtWork, FilesParse
      <4>2. Slice(disk[loc.path], BodyOffset, loc.size) \in Seq(Unit)
        BY <4>1, SliceType DEF BodyOffset, LeadLen, HeaderSize
      <4> QED BY <3>2, <4>2 DEF LocalBody
    <3> QED BY <3>1, <3>2
  <2>2. Int64(plan[next].offset) \in Int /\ plan[next].length \in Int
    BY <1>5, Int64Type
  <2>3. Slice(LocalBody, Int64(plan[next].offset), plan[next].length) \in Seq(Unit)
    BY <2>1, <2>2, SliceType
  <2>4. \A data \in ChunkData :
          data = Slice(LocalBody, Int64(plan[next].offset), plan[next].length)
    BY <1>6, Zenon DEF ChunkData
  <2> QED BY <1>4, <1>5, <2>3, <2>4
<1>7. CASE ~plan[next].local
  <2> DEFINE s  == CHOOSE r \in RunStarts(plan) : next \in RunChunks(plan, r)
             at == Offsets(Lengths(plan))[next] - Offsets(Lengths(plan))[s]
  <2>1. s \in RunStarts(plan)
    <3>1. Remote(plan, next)
      BY <1>4, <1>7 DEF Remote
    <3>2. \E r \in RunStarts(plan) : next \in RunChunks(plan, r)
      BY <1>2, <1>3, <1>4, <3>1, RunOfChunk
    <3> QED BY <3>2
  <2>2. \A data \in ChunkData :
          \E a \in RunAnswers(s) : data = Slice(a, at, plan[next].length)
    BY <1>7, Zenon DEF ChunkData
  <2> HIDE DEF s
  <2>3. /\ s \in 1 .. Len(target.chunks)
        /\ RunEnd(plan, s) \in 1 .. Len(target.chunks) + 1
    <3>1. s \in 1 .. Len(plan) /\ RunEnd(plan, s) \in s + 1 .. Len(plan) + 1
      BY <1>2, <1>3, <2>1, RunEndProperties
    <3> QED BY <1>2, <1>3, <3>1
  <2>4. at \in Int
    <3>1. next \in 1 .. Len(target.chunks) + 1 /\ s \in 1 .. Len(target.chunks) + 1
      BY <1>3, <1>4, <2>3
    <3> QED BY <1>3, <3>1
  <2>5. RunLength(plan, s) \in Int
    <3>1. RunEnd(plan, s) \in 1 .. Len(target.chunks) + 1 /\ s \in 1 .. Len(target.chunks) + 1
      BY <1>3, <2>3
    <3> QED BY <1>3, <3>1 DEF RunLength
  <2>6. RemoteRun(plan, s).length \in Int /\ RemoteRun(plan, s).offset \in Int
    <3>1. plan[s].offset \in Int
      BY <1>2, <1>3, <2>3
    <3>2. Int64(plan[s].offset) \in Int /\ Int64(RunLength(plan, s)) \in Int
      BY <2>5, <3>1, Int64Type
    <3>3. /\ RemoteRun(plan, s).offset = Int64(plan[s].offset)
          /\ RemoteRun(plan, s).length = Int64(RunLength(plan, s))
      BY DEF RemoteRun
    <3> QED BY <3>2, <3>3
  <2>7. RunOffset(s) \in Int
    <3>1. BodyOffset + RemoteRun(plan, s).offset \in Int
      BY <2>6 DEF BodyOffset, LeadLen, HeaderSize
    <3> QED BY <3>1, Int64Type DEF RunOffset
  <2> HIDE DEF at
  <2>8. ASSUME NEW a \in RunAnswers(s)
        PROVE  Slice(a, at, plan[next].length) \in Seq(Unit)
    <3>1. PICK content \in seen : a \in Answers(content, RunOffset(s), RemoteRun(plan, s).length)
      BY <2>8, Zenon DEF RunAnswers
    <3>2. content \in ServerContents
      BY <1>1, <3>1
    <3>3. a \in Seq(Unit)
      BY <2>6, <2>7, <3>1, <3>2, AnswerTypes
    <3> QED BY <1>5, <2>4, <3>3, SliceType
  <2> QED BY <1>4, <1>5, <2>2, <2>8
<1> QED BY <1>5, <1>6, <1>7

LEMMA SkipChunkIInv ==
  ASSUME IInv, SkipChunk
  PROVE  IInv'
<1>1. /\ pc = "body" /\ UNCHANGED <<disk, server, pc, cmd, err, rh, loc, prefix, seen>>
      /\ next \in DOMAIN target.chunks /\ target.chunks[next].compLength = 0
      /\ next' = next + 1
  BY DEF SkipChunk, callVars, Stream!SkipEmpty, Stream!Open
<1>2. /\ server \in ServerContents /\ seen \subseteq ServerContents
      /\ ProperIndex(target) /\ next \in 1 .. Len(target.chunks) + 1
      /\ Len(disk[cmd.out]) = 2 + Offsets(CompLengths(target))[next]
      /\ disk[cmd.out][1] = EmbeddedHeader(rh)[1] /\ disk[cmd.out][2] = rh[2]
  BY <1>1, BodyState
<1>3. FilesParse' /\ DiskHoldsVerifiedPrefixes'
  BY <1>1, <1>2, DiskFrame DEF IInv
<1>4. CommandAtWork' /\ HeaderVerified'
  BY <1>1 DEF IInv, CommandAtWork, HeaderVerified, Downloaded
<1>5. OutHoldsTheChunks'
  <2>1. target' = target
    BY <1>1 DEF target
  <2>2. /\ next' \in 1 .. Len(target.chunks) + 1
        /\ Offsets(CompLengths(target))[next'] = Offsets(CompLengths(target))[next]
    <3>1. /\ Len(target.chunks) \in Nat /\ next \in 1 .. Len(target.chunks)
          /\ Offsets(CompLengths(target))[next] \in Nat
          /\ Offsets(CompLengths(target))[next + 1]
               = Offsets(CompLengths(target))[next] + target.chunks[next].compLength
      BY <1>1, <1>2, IndexFacts
    <3> QED BY <1>1, <3>1
  <2>3. /\ next' \in 1 .. Len(target'.chunks) + 1
        /\ Len(disk'[cmd'.out]) = BodyOffset + Offsets(CompLengths(target'))[next']
        /\ disk'[cmd'.out][1] = EmbeddedHeader(rh')[1] /\ disk'[cmd'.out][2] = rh'[2]
    BY <1>1, <1>2, <2>1, <2>2 DEF BodyOffset, LeadLen, HeaderSize
  <2>4. pc' = "body" /\ ~Downloaded'
    BY <1>1 DEF Downloaded
  <2> QED BY <2>3, <2>4 DEF OutHoldsTheChunks
<1> QED BY <1>3, <1>4, <1>5 DEF IInv

(* The data of a step of the stream is what the step appends to OUT.        *)
LEMMA BodyAppends ==
  ASSUME disk \in [Paths -> Seq(Unit)], cmd.out \in Paths, Len(disk[cmd.out]) >= 2,
         NEW data \in Seq(Unit), AppendOut(data), cmd' = cmd
  PROVE  /\ Body \in Seq(Unit) /\ Body' = Body \o data
         /\ SubSeq(Body', Len(Body) + 1, Len(Body')) = data
         /\ disk' = [disk EXCEPT ![cmd.out] = disk[cmd.out] \o data]
<1>1. disk[cmd.out] \in Seq(Unit)
  OBVIOUS
<1>2. disk' = [disk EXCEPT ![cmd.out] = disk[cmd.out] \o data]
  BY DEF AppendOut
<1>3. disk'[cmd'.out] = disk[cmd.out] \o data
  BY <1>2
<1>4. Body \in Seq(Unit) /\ Body' = Body \o data
  <2>1. Body' = BodyOf(disk[cmd.out] \o data)
    BY <1>3 DEF Body
  <2>2. /\ BodyOf(disk[cmd.out]) \in Seq(Unit)
        /\ BodyOf(disk[cmd.out] \o data) = BodyOf(disk[cmd.out]) \o data
    BY <1>1, BodyGrows
  <2> QED BY <2>1, <2>2 DEF Body
<1>5. SubSeq(Body \o data, Len(Body) + 1, Len(Body \o data)) = data
  BY <1>4, AppendedSuffix
<1> QED BY <1>2, <1>4, <1>5

(* In the body of a download, as the invariant has it.                      *)
LEMMA StreamAppends ==
  ASSUME IInv, pc = "body", NEW data \in Seq(Unit), AppendOut(data), cmd' = cmd
  PROVE  /\ Body' = Body \o data
         /\ SubSeq(Body', Len(Body) + 1, Len(Body')) = data
         /\ disk' = [disk EXCEPT ![cmd.out] = disk[cmd.out] \o data]
<1>1. /\ cmd.out \in Paths /\ Len(disk[cmd.out]) >= 2
      /\ disk \in [Paths -> Seq(Unit)]
  BY BodyState DEF IInv, FilesParse
<1> QED BY <1>1, BodyAppends

(* Appending a verified chunk, or a part of one, keeps the files in order.  *)
LEMMA ChunkWritten ==
  ASSUME IInv, pc = "body", NEW data \in Seq(Unit), AppendOut(data),
         next \in DOMAIN target.chunks,
         \/ Len(data) < target.chunks[next].compLength
         \/ /\ Len(data) = target.chunks[next].compLength
            /\ Sum(target.ckType, data) = target.chunks[next].digest,
         UNCHANGED <<server, cmd, seen>>
  PROVE  /\ FilesParse' /\ DiskHoldsVerifiedPrefixes'
         /\ disk'[cmd.out] = disk[cmd.out] \o data
         /\ Len(disk'[cmd.out]) = Len(disk[cmd.out]) + Len(data)
         /\ disk'[cmd.out][1] = disk[cmd.out][1] /\ disk'[cmd.out][2] = disk[cmd.out][2]
<1> DEFINE old == disk[cmd.out]
           new == old \o data
<1>1. /\ old \in Seq(Unit) /\ Len(old) >= 2 /\ Parses(old) /\ VerifiedPrefix(old)
      /\ ProperIndex(target) /\ old[2].index = target /\ cmd.out \in Paths
      /\ Len(BodyOf(old)) = Offsets(CompLengths(target))[next]
      /\ seen \subseteq ServerContents
  BY BodyState DEF Body
<1>2. /\ new \in Seq(Unit) /\ Len(new) = Len(old) + Len(data)
      /\ new[1] = old[1] /\ new[2] = old[2]
  BY <1>1, BodyGrows
<1>3. Parses(new) /\ VerifiedPrefix(new)
  <2> HIDE DEF old
  <2> DEFINE idx == target
  <2>1. idx = old[2].index /\ ProperIndex(idx) /\ next \in DOMAIN idx.chunks
    BY <1>1
  <2> QED BY <1>1, <2>1, VerifiedGrows
<1>4. disk' = [disk EXCEPT ![cmd.out] = new]
  BY DEF AppendOut
<1> HIDE DEF new
<1>5. FilesParse' /\ DiskHoldsVerifiedPrefixes' /\ disk'[cmd.out] = new
  BY <1>1, <1>2, <1>3, <1>4, OutWritten DEF IInv
<1> QED BY <1>2, <1>5 DEF new

LEMMA DeliverChunkIInv ==
  ASSUME IInv, DeliverChunk
  PROVE  IInv'
<1>1. /\ pc = "body" /\ AtChunk
      /\ UNCHANGED <<server, pc, cmd, err, rh, loc, prefix, seen>>
  BY DEF DeliverChunk, callVars
<1>2. PICK data \in ChunkData : AppendOut(data)
  BY DEF DeliverChunk
<1>3. data \in Seq(Unit)
  BY <1>1, <1>2, ChunkDataTypes
<1>4. /\ next \in DOMAIN target.chunks /\ next' = next + 1
      /\ Len(SubSeq(Body', Len(Body) + 1, Len(Body'))) = target.chunks[next].compLength
      /\ Sum(target.ckType, SubSeq(Body', Len(Body) + 1, Len(Body')))
           = target.chunks[next].digest
  BY DEF DeliverChunk, Stream!Deliver, Stream!Open, Stream!Gained
<1>5. /\ Len(data) = target.chunks[next].compLength
      /\ Sum(target.ckType, data) = target.chunks[next].digest
  <2>1. SubSeq(Body', Len(Body) + 1, Len(Body')) = data
    BY <1>1, <1>2, <1>3, StreamAppends
  <2> QED BY <1>4, <2>1
<1>6. /\ FilesParse' /\ DiskHoldsVerifiedPrefixes'
      /\ Len(disk'[cmd.out]) = Len(disk[cmd.out]) + Len(data)
      /\ disk'[cmd.out][1] = disk[cmd.out][1] /\ disk'[cmd.out][2] = disk[cmd.out][2]
  BY <1>1, <1>2, <1>3, <1>4, <1>5, ChunkWritten
<1>7. CommandAtWork' /\ HeaderVerified'
  BY <1>1 DEF IInv, CommandAtWork, HeaderVerified, Downloaded
<1>8. OutHoldsTheChunks'
  <2>1. target' = target
    BY <1>1 DEF target
  <2>2. /\ ProperIndex(target)
        /\ Len(disk[cmd.out]) = 2 + Offsets(CompLengths(target))[next]
        /\ disk[cmd.out][1] = EmbeddedHeader(rh)[1] /\ disk[cmd.out][2] = rh[2]
    BY <1>1, BodyState
  <2>3. /\ next' \in 1 .. Len(target.chunks) + 1
        /\ Len(disk'[cmd.out]) = 2 + Offsets(CompLengths(target))[next']
    <3> DEFINE off == Offsets(CompLengths(target))
    <3>1. /\ Len(target.chunks) \in Nat /\ next \in 1 .. Len(target.chunks)
          /\ off[next] \in Nat /\ target.chunks[next].compLength \in Nat
          /\ off[next + 1] = off[next] + target.chunks[next].compLength
      BY <1>4, <2>2, IndexFacts
    <3>2. Len(disk'[cmd.out]) = (2 + off[next]) + target.chunks[next].compLength
      BY <1>5, <1>6, <2>2
    <3>3. Len(disk'[cmd.out]) = 2 + off[next + 1]
      <4> DEFINE k == Len(disk'[cmd.out])
                 l == target.chunks[next].compLength
                 a == off[next]
                 b == off[next + 1]
      <4>1. a \in Nat /\ l \in Nat /\ b = a + l /\ k = (2 + a) + l
        BY <3>1, <3>2
      <4> HIDE DEF k, l, a, b
      <4>2. k = 2 + b
        BY <4>1
      <4> QED BY <4>2 DEF k, b
    <3> HIDE DEF off
    <3>4. next' \in 1 .. Len(target.chunks) + 1
      BY <1>4, <3>1
    <3> QED BY <1>4, <3>3, <3>4 DEF off
  <2>4. /\ next' \in 1 .. Len(target'.chunks) + 1
        /\ Len(disk'[cmd'.out]) = BodyOffset + Offsets(CompLengths(target'))[next']
        /\ disk'[cmd'.out][1] = EmbeddedHeader(rh')[1] /\ disk'[cmd'.out][2] = rh'[2]
    BY <1>1, <1>6, <2>1, <2>2, <2>3 DEF BodyOffset, LeadLen, HeaderSize
  <2>5. pc' = "body" /\ ~Downloaded'
    BY <1>1 DEF Downloaded
  <2> QED BY <2>4, <2>5 DEF OutHoldsTheChunks
<1> QED BY <1>6, <1>7, <1>8 DEF IInv

LEMMA BreakBodyIInv ==
  ASSUME IInv, BreakBody
  PROVE  IInv'
<1>1. /\ pc = "body" /\ AtChunk /\ pc' = "abandon" /\ err' = "body"
      /\ UNCHANGED <<server, cmd, rh, loc, prefix, seen>>
  BY DEF BreakBody, callVars
<1>2. /\ cmd \in Commands /\ cmd.kind = "download"
      /\ server \in ServerContents /\ seen \subseteq ServerContents
  BY <1>1, BodyState
<1>3. FilesParse' /\ DiskHoldsVerifiedPrefixes'
  <2>1. CASE disk' = disk
    BY <1>1, <1>2, <2>1, DiskFrame DEF IInv
  <2>2. CASE \E data \in ChunkData : Genuine(data) /\ WriteFails(data)
    <3>1. PICK data \in ChunkData : Genuine(data) /\ WriteFails(data)
      BY <2>2
    <3>2. PICK n \in 0 .. Len(data) - 1 : AppendOut(SubSeq(data, 1, n))
      BY <3>1 DEF WriteFails
    <3>3. /\ data \in Seq(Unit) /\ next \in DOMAIN target.chunks
          /\ Len(data) = target.chunks[next].compLength /\ Len(data) \in Nat
      BY <1>1, <3>1, ChunkDataTypes, LenProperties DEF Genuine
    <3> DEFINE part == SubSeq(data, 0 + 1, n)
    <3>4. part \in Seq(Unit) /\ Len(part) = n
      <4>1. 0 \in 0 .. Len(data) /\ n \in 0 .. Len(data) /\ n - 0 = n
        BY <3>2, <3>3
      <4>2. part \in Seq(Unit) /\ Len(part) = n - 0
        BY <3>3, <4>1, SubSeqFacts
      <4> HIDE DEF part
      <4> QED BY <4>1, <4>2
    <3>5. AppendOut(part)
      BY <3>2
    <3> HIDE DEF part
    <3>6. Len(part) < target.chunks[next].compLength
      BY <3>2, <3>3, <3>4
    <3> QED BY <1>1, <3>3, <3>4, <3>5, <3>6, ChunkWritten
  <2> QED BY <2>1, <2>2 DEF BreakBody
<1>4. CommandAtWork'
  BY <1>1, <1>2 DEF IInv, CommandAtWork
<1>5. HeaderVerified' /\ OutHoldsTheChunks'
  BY <1>1 DEF HeaderVerified, OutHoldsTheChunks, Downloaded
<1> QED BY <1>3, <1>4, <1>5 DEF IInv

LEMMA AbandonIInv ==
  ASSUME IInv, Abandon
  PROVE  IInv'
<1>1. pc = "abandon" /\ Exit(err) /\ UNCHANGED <<disk, server, cmd>>
  BY DEF Abandon
<1>2. err = "body"
  BY <1>1 DEF IInv, CommandAtWork
<1> QED BY <1>1, <1>2, ExitUnwritten

(* The last stages of a download that has written every chunk.              *)
LEMMA Finishes ==
  ASSUME IInv, pc \in {"body", "check", "close"},
         \/ pc' \in {"check", "close"}
         \/ pc' = "exited" /\ err' = "nil" /\ loc' = NoLocal,
         pc' = "check" => loc' = loc,
         pc' = "close" => loc' = loc /\ DataIntact,
         pc' = "exited" => pc = "close",
         pc = "body" => next = Len(target.chunks) + 1,
         UNCHANGED <<disk, server, cmd, rh, next>>, seen' \subseteq ServerContents
  PROVE  IInv'
<1>1. /\ cmd \in Commands /\ cmd.kind = "download" /\ server \in ServerContents
  BY DEF IInv, CommandAtWork, FilesParse
<1>2. FilesParse' /\ DiskHoldsVerifiedPrefixes'
  BY <1>1, DiskFrame DEF IInv
<1>3. CommandAtWork'
  BY <1>1, NoLocalIsProper DEF IInv, CommandAtWork
<1>4. HeaderVerified'
  <2>1. Published(rh)
    BY DEF IInv, HeaderVerified
  <2> QED BY <1>1, <2>1 DEF HeaderVerified
<1>5. OutHoldsTheChunks'
  <2>1. /\ next \in 1 .. Len(target.chunks) + 1
        /\ Len(disk[cmd.out]) = BodyOffset + Offsets(CompLengths(target))[next]
        /\ disk[cmd.out][1] = EmbeddedHeader(rh)[1] /\ disk[cmd.out][2] = rh[2]
        /\ next = Len(target.chunks) + 1
    BY DEF IInv, OutHoldsTheChunks
  <2>2. pc' \in {"close", "exited"} => DataIntact
    BY DEF IInv, OutHoldsTheChunks
  <2>3. target' = target
    BY DEF target
  <2>4. DataIntact' = DataIntact
    BY DEF DataIntact, Body
  <2>5. /\ next' \in 1 .. Len(target'.chunks) + 1
        /\ Len(disk'[cmd'.out]) = BodyOffset + Offsets(CompLengths(target'))[next']
        /\ disk'[cmd'.out][1] = EmbeddedHeader(rh')[1] /\ disk'[cmd'.out][2] = rh'[2]
        /\ next' = Len(target'.chunks) + 1
    BY <2>1, <2>3
  <2>6. pc' \notin {"emit", "detached", "lead", "header", "plan"}
        /\ (pc' = "close" \/ Downloaded' => pc' \in {"close", "exited"})
    BY DEF Downloaded
  <2> QED BY <2>2, <2>4, <2>5, <2>6 DEF OutHoldsTheChunks
<1> QED BY <1>2, <1>3, <1>4, <1>5 DEF IInv

LEMMA CompleteBodyIInv ==
  ASSUME IInv, CompleteBody
  PROVE  IInv'
<1>1. /\ pc = "body" /\ pc' = "check" /\ UNCHANGED <<disk, server, cmd, rh, next, loc, seen>>
      /\ next = Len(target.chunks) + 1
  BY DEF CompleteBody, callVars, Stream!Complete
<1>2. seen \subseteq ServerContents
  BY DEF IInv, FilesParse
<1> QED BY <1>1, <1>2, Finishes

LEMMA CheckDataIInv ==
  ASSUME IInv, CheckData
  PROVE  IInv'
<1>1. pc = "check" /\ UNCHANGED <<disk, server, cmd, rh, next>>
  BY DEF CheckData
<1>2. CASE Exit("data")
  BY <1>1, <1>2, ExitUnwritten
<1>3. CASE DataIntact /\ pc' = "close" /\ UNCHANGED <<err, callVars>>
  <2>1. seen \subseteq ServerContents
    BY DEF IInv, FilesParse
  <2> QED BY <1>1, <1>3, <2>1, Finishes DEF callVars
<1> QED BY <1>2, <1>3 DEF CheckData

LEMMA CloseIInv ==
  ASSUME IInv, Close
  PROVE  IInv'
<1>1. pc = "close" /\ UNCHANGED <<disk, server, cmd, rh, next>>
  BY DEF Close
<1>2. CASE Exit("close")
  BY <1>1, <1>2, ExitUnwritten
<1>3. CASE Exit("nil")
  <2>1. pc' = "exited" /\ err' = "nil" /\ loc' = NoLocal /\ seen' = {}
    BY <1>3 DEF Exit
  <2> QED BY <1>1, <2>1, Finishes
<1> QED BY <1>2, <1>3 DEF Close

LEMMA KillIInv ==
  ASSUME IInv, Kill
  PROVE  IInv'
BY ExitUnwritten DEF Kill, Running

LEMMA RepublishIInv ==
  ASSUME IInv, Republish
  PROVE  IInv'
<1>1. /\ server' \in ServerContents /\ seen' \subseteq seen \cup {server'}
      /\ UNCHANGED <<disk, pc, cmd, err, rh, loc, prefix, next>>
  BY DEF Republish
<1>2. FilesParse' /\ DiskHoldsVerifiedPrefixes'
  <2>1. seen' \subseteq ServerContents
    BY <1>1 DEF IInv, FilesParse
  <2> QED BY <1>1, <2>1, DiskFrame DEF IInv
<1>3. CommandAtWork' /\ HeaderVerified'
  BY <1>1 DEF IInv, CommandAtWork, HeaderVerified, Downloaded
<1>4. OutHoldsTheChunks'
  BY <1>1 DEF IInv, OutHoldsTheChunks, Downloaded, target, DataIntact, Body
<1> QED BY <1>2, <1>3, <1>4 DEF IInv

LEMMA StutterIInv ==
  ASSUME IInv, UNCHANGED vars
  PROVE  IInv'
<1>1. /\ UNCHANGED <<disk, server, seen, pc, cmd, err, rh, loc, prefix, next>>
  BY DEF vars, callVars
<1>2. FilesParse' /\ DiskHoldsVerifiedPrefixes'
  BY <1>1 DEF IInv, FilesParse, DiskHoldsVerifiedPrefixes
<1>3. CommandAtWork' /\ HeaderVerified'
  BY <1>1 DEF IInv, CommandAtWork, HeaderVerified, Downloaded
<1>4. OutHoldsTheChunks'
  BY <1>1 DEF IInv, OutHoldsTheChunks, Downloaded, target, DataIntact, Body
<1> QED BY <1>2, <1>3, <1>4 DEF IInv

LEMMA StepIInv ==
  ASSUME IInv, [Next]_vars
  PROVE  IInv'
<1>1. CASE \E c \in Commands : Start(c)
  BY <1>1, StartIInv
<1>2. CASE Process
  BY <1>2, OpenLocalIInv, CreateIInv, ReadFileIInv, EmitHeaderIInv, ReadDetachedHeaderIInv,
     FetchLeadIInv, FetchHeaderIInv, ReportIInv, WriteHeaderIInv, SkipChunkIInv,
     DeliverChunkIInv, BreakBodyIInv, AbandonIInv, CompleteBodyIInv, CheckDataIInv,
     CloseIInv
     DEF Process
<1>3. CASE Kill \/ Republish
  BY <1>3, KillIInv, RepublishIInv
<1>4. CASE UNCHANGED vars
  BY <1>4, StutterIInv
<1> QED BY <1>1, <1>2, <1>3, <1>4 DEF Next, Finished

----------------------------------------------------------------------------
(* The results *)

(* The inductive invariant holds for all files, commands and servers.       *)
THEOREM InductiveInvariant ==
  Spec => []IInv
<1>1. Init => IInv
  BY InitIInv
<1>2. IInv /\ [Next]_vars => IInv'
  BY StepIInv
<1> QED BY <1>1, <1>2, PTL DEF Spec

(* Every file on disk starts like a published file at all times, also while *)
(* it is being written over and after any failure, kill or republication:   *)
(* nothing is written before it is verified (remote.go:85-90,               *)
(* download.go:163-171).                                                    *)
THEOREM DiskIsVerified ==
  Spec => []DiskHoldsVerifiedPrefixes
<1>1. IInv => DiskHoldsVerifiedPrefixes
  BY DEF IInv
<1> QED BY <1>1, InductiveInvariant, PTL

LEMMA SuccessInIInv ==
  ASSUME IInv
  PROVE  SuccessIsTheWholeFile
<1> SUFFICES ASSUME Downloaded
             PROVE  /\ Len(disk[cmd.out]) = BodyOffset + Total(CompLengths(target))
                    /\ ~disk[cmd.out][1].detached
                    /\ disk[cmd.out][2] = rh[2]
                    /\ rh[2].uncompressed
                         \/ Sum(disk[cmd.out][1].ckType, BodyOf(disk[cmd.out]))
                              = rh[2].dataChecksum
  BY DEF SuccessIsTheWholeFile
<1>1. Published(rh) /\ ProperIndex(target)
  <2>1. Published(rh)
    BY DEF IInv, HeaderVerified
  <2> QED BY <2>1, HeaderAlone DEF target
<1>2. /\ Len(disk[cmd.out]) = BodyOffset + Offsets(CompLengths(target))[next]
      /\ disk[cmd.out][1] = EmbeddedHeader(rh)[1] /\ disk[cmd.out][2] = rh[2]
      /\ next = Len(target.chunks) + 1
      /\ DataIntact
  BY DEF IInv, OutHoldsTheChunks
<1>3. Total(CompLengths(target)) = Offsets(CompLengths(target))[next]
  BY <1>1, <1>2, IndexFacts
<1>4. rh[1] \in Unit /\ IsLead(rh[1])
  <2>1. rh \in Seq(Unit) /\ 1 \in 1 .. Len(rh) /\ IsLead(rh[1])
    BY <1>1 DEF Published, BodyOffset, LeadLen, HeaderSize
  <2> QED BY <2>1, ElementOfSeq
<1>5. EmbeddedHeader(rh)[1].detached = FALSE /\ EmbeddedHeader(rh)[1].ckType = rh[1].ckType
  BY <1>4, OtherMagic DEF EmbeddedHeader
<1> QED BY <1>2, <1>3, <1>5 DEF DataIntact, Body

(* A download that exits without an error has written the complete file:    *)
(* the header it verified, with the embedded magic, every chunk of its      *)
(* index, and a body that matches the data checksum (remote.go:131-158).    *)
THEOREM SuccessIsWholeFile ==
  Spec => []SuccessIsTheWholeFile
BY InductiveInvariant, SuccessInIInv, PTL

(* The steps that write, and where they write.                              *)
LEMMA WritersWriteOut ==
  ASSUME IInv, [Next]_vars, disk' # disk
  PROVE  /\ pc \in {"create", "emit", "plan", "body"}
         /\ cmd.kind \in {"download", "header"}
         /\ \E new : disk' = [disk EXCEPT ![cmd.out] = new]
<1>1. pc \in {"create", "emit", "plan", "body"} /\ cmd.kind # "delta-size"
      /\ \E new : disk' = [disk EXCEPT ![cmd.out] = new]
  <2>1. CASE Create
    BY <2>1 DEF Create, IInv, CommandAtWork
  <2>2. CASE EmitHeader
    BY <2>2 DEF EmitHeader, AppendOut, WriteFails, IInv, CommandAtWork
  <2>3. CASE WriteHeader
    BY <2>3 DEF WriteHeader, AppendOut, WriteFails
  <2>4. CASE DeliverChunk
    BY <2>4 DEF DeliverChunk, AppendOut, IInv, CommandAtWork
  <2>5. CASE BreakBody
    BY <2>5 DEF BreakBody, AppendOut, WriteFails, IInv, CommandAtWork
  <2>6. ~(OpenLocal \/ ReadFile \/ ReadDetachedHeader \/ FetchLead \/ FetchHeader \/ Report)
    BY DEF OpenLocal, ReadFile, ReadDetachedHeader, FetchLead, FetchHeader, Report
  <2>7. ~(SkipChunk \/ Abandon \/ CompleteBody \/ CheckData \/ Close)
    BY DEF SkipChunk, Abandon, CompleteBody, CheckData, Close
  <2>8. ~(Kill \/ Republish \/ Finished \/ \E c \in Commands : Start(c))
    BY DEF Kill, Republish, Finished, Start, vars
  <2> QED BY <2>1, <2>2, <2>3, <2>4, <2>5, <2>6, <2>7, <2>8 DEF Next, Process, vars
<1>2. cmd.kind \in {"download", "header"}
  BY <1>1, CommandsAssumption DEF IInv, CommandAtWork
<1> QED BY <1>1, <1>2

(* No command touches a file but its OUT, and OUT is only lost once the     *)
(* local copy was found to be a zchunk file (main.go:361-371, 155-172).     *)
THEOREM OnlyOutIsWritten ==
  Spec => OnlyOutIsLost
<1> DEFINE Kept == \A p \in Paths : disk'[p] # disk[p] =>
                     /\ cmd.kind \in {"download", "header"} /\ p = cmd.out
                     /\ cmd.kind = "download" /\ cmd.local # "none" => loc.path = cmd.local
<1>1. IInv /\ [Next]_vars => Kept
  <2> SUFFICES ASSUME IInv, [Next]_vars, NEW p \in Paths, disk'[p] # disk[p]
               PROVE  /\ cmd.kind \in {"download", "header"} /\ p = cmd.out
                      /\ cmd.kind = "download" /\ cmd.local # "none" => loc.path = cmd.local
    BY DEF Kept
  <2>1. /\ pc \in {"create", "emit", "plan", "body"}
        /\ cmd.kind \in {"download", "header"}
    BY WritersWriteOut
  <2>2. PICK new : disk' = [disk EXCEPT ![cmd.out] = new]
    BY WritersWriteOut
  <2>3. p = cmd.out
    BY <2>2 DEF IInv, FilesParse
  <2>4. cmd.kind = "download" /\ cmd.local # "none" => loc.path = cmd.local
    BY <2>1 DEF IInv, CommandAtWork
  <2> QED BY <2>1, <2>3, <2>4
<1>2. [][Kept]_vars <=> OnlyOutIsLost
  BY DEF OnlyOutIsLost
<1> HIDE DEF Kept
<1> QED BY <1>1, <1>2, InductiveInvariant, PTL DEF Spec

----------------------------------------------------------------------------
(* What a report says of a later download *)

(* A command that ends forgets its local copy.                              *)
LEMMA ExitForgets ==
  ASSUME NEW e, Exit(e)
  PROVE  LocalIsOpened'
BY DEF Exit, LocalIsOpened

(* A command that goes on plans with the index it has, and does not write   *)
(* to the file it has it from.                                              *)
LEMMA LocalStaysOpen ==
  ASSUME IInv, LocalIsOpened, loc' = loc, cmd' = cmd,
         pc' \notin {"idle", "exited", "open local", "read file"},
         pc' \in {"create", "detached", "lead", "header", "plan", "body"} =>
           pc \in {"create", "detached", "lead", "header", "plan", "body"},
         disk' = disk \/ (cmd.kind = "download" /\ \E new : disk' = [disk EXCEPT ![cmd.out] = new])
  PROVE  LocalIsOpened'
<1> SUFFICES ASSUME pc' \in {"create", "detached", "lead", "header", "plan", "body"},
                    cmd.kind \in {"download", "delta-size"}
             PROVE  /\ cmd.local = "none" => loc.index = NilIndex
                    /\ cmd.local # "none" /\ (cmd.kind = "delta-size" \/ cmd.local # cmd.out) =>
                         loc.index = disk'[cmd.local][2].index
  BY DEF LocalIsOpened
<1>1. /\ cmd.local = "none" => loc.index = NilIndex
      /\ cmd.local # "none" /\ (cmd.kind = "delta-size" \/ cmd.local # cmd.out) =>
           loc.index = disk[cmd.local][2].index
  BY DEF LocalIsOpened
<1>2. ASSUME cmd.local # "none", cmd.kind = "delta-size" \/ cmd.local # cmd.out
      PROVE  disk'[cmd.local] = disk[cmd.local]
  <2>1. cmd.kind = "download" => cmd.local # cmd.out
    BY <1>2
  <2>2. cmd.local \in Paths /\ disk \in [Paths -> Seq(Unit)]
    BY <1>2, CommandsAssumption DEF IInv, CommandAtWork, FilesParse
  <2> QED BY <2>1, <2>2
<1> QED BY <1>1, <1>2

(* The local copy is opened as it is.                                       *)
LEMMA OpenLocalOpens ==
  ASSUME IInv, LocalIsOpened, OpenLocal
  PROVE  LocalIsOpened'
<1>1. pc = "open local" /\ loc = NoLocal /\ cmd' = cmd /\ disk' = disk
  BY DEF OpenLocal, LocalIsOpened
<1>2. AfterLocal \in {"lead", "create"}
  BY DEF AfterLocal
<1>3. CASE cmd.local = "none" /\ pc' = AfterLocal /\ UNCHANGED <<err, callVars>>
  BY <1>1, <1>2, <1>3 DEF LocalIsOpened, NoLocal, callVars
<1>4. CASE /\ cmd.local # "none" /\ pc' = AfterLocal
           /\ loc'.index = disk[cmd.local][2].index
  BY <1>1, <1>2, <1>4 DEF LocalIsOpened
<1>5. CASE Exit("local")
  BY <1>5, ExitForgets
<1>6. ASSUME loc' = [index |-> disk[cmd.local][2].index, path |-> cmd.local,
                     size |-> Len(disk[cmd.local]) - BodyOffset]
      PROVE  loc'.index = disk[cmd.local][2].index
  BY <1>6
<1>7. \/ cmd.local = "none" /\ pc' = AfterLocal /\ UNCHANGED <<err, callVars>>
      \/ /\ cmd.local # "none" /\ pc' = AfterLocal
         /\ loc'.index = disk[cmd.local][2].index
      \/ Exit("local")
  BY <1>6 DEF OpenLocal
<1> QED BY <1>3, <1>4, <1>5, <1>7

(* Each step of a command keeps to the index it opened, or ends it.         *)
LEMMA StepLocalIsOpened ==
  ASSUME IInv, LocalIsOpened, [Next]_vars
  PROVE  LocalIsOpened'
<1>1. ASSUME NEW c \in Commands, Start(c) PROVE LocalIsOpened'
  BY <1>1 DEF Start, FirstStep, LocalIsOpened, callVars
<1>2. ASSUME Create PROVE LocalIsOpened'
  <2>1. cmd.kind \in {"download", "header"} /\ pc = "create" /\ cmd' = cmd
    BY <1>2 DEF Create, IInv, CommandAtWork
  <2>2. ASSUME disk' = [disk EXCEPT ![cmd.out] = <<>>], UNCHANGED <<err, callVars>>,
               pc' = IF cmd.kind = "header" THEN "emit"
                     ELSE IF cmd.header # "none" THEN "detached" ELSE "lead"
        PROVE  LocalIsOpened'
    <3>1. CASE cmd.kind = "download"
      <4>1. pc' \in {"detached", "lead"} /\ loc' = loc
        BY <2>2, <3>1 DEF callVars
      <4> QED BY <2>1, <2>2, <3>1, <4>1, LocalStaysOpen
    <3>2. CASE cmd.kind = "header"
      BY <2>1, <2>2, <3>2 DEF LocalIsOpened
    <3> QED BY <2>1, <3>1, <3>2
  <2> QED BY <1>2, <2>2, ExitForgets DEF Create
<1>3. ASSUME ReadFile PROVE LocalIsOpened'
  <2>1. cmd.kind = "header" /\ cmd' = cmd
    BY <1>3 DEF ReadFile, IInv, CommandAtWork
  <2>2. pc' = "create" \/ Exit("read")
    BY <1>3 DEF ReadFile
  <2> QED BY <2>1, <2>2, ExitForgets DEF LocalIsOpened
<1>4. ASSUME EmitHeader PROVE LocalIsOpened'
  BY <1>4, ExitForgets DEF EmitHeader
<1>5. ASSUME ReadDetachedHeader PROVE LocalIsOpened'
  <2>1. \/ pc = "detached" /\ pc' = "plan" /\ loc' = loc /\ cmd' = cmd /\ disk' = disk
        \/ Exit("header")
    BY <1>5 DEF ReadDetachedHeader, callVars
  <2> QED BY <2>1, ExitForgets, LocalStaysOpen
<1>6. ASSUME FetchLead PROVE LocalIsOpened'
  <2>1. \/ pc = "lead" /\ pc' = "header" /\ loc' = loc /\ cmd' = cmd /\ disk' = disk
        \/ Exit("lead")
    BY <1>6 DEF FetchLead, RequestFails
  <2> QED BY <2>1, ExitForgets, LocalStaysOpen
<1>7. ASSUME FetchHeader PROVE LocalIsOpened'
  <2>1. \/ pc = "header" /\ pc' = "plan" /\ loc' = loc /\ cmd' = cmd /\ disk' = disk
        \/ Exit("header")
    BY <1>7 DEF FetchHeader, RequestFails, callVars
  <2> QED BY <2>1, ExitForgets, LocalStaysOpen
<1>8. ASSUME Report PROVE LocalIsOpened'
  BY <1>8, ExitForgets DEF Report
<1>9. ASSUME WriteHeader PROVE LocalIsOpened'
  <2>1. \/ /\ pc = "plan" /\ pc' = "body" /\ loc' = loc /\ cmd' = cmd
           /\ cmd.kind = "download" /\ \E new : disk' = [disk EXCEPT ![cmd.out] = new]
        \/ Exit("plan") \/ Exit("write")
    BY <1>9 DEF WriteHeader, AppendOut
  <2> QED BY <2>1, ExitForgets, LocalStaysOpen
<1>10. ASSUME SkipChunk \/ DeliverChunk \/ BreakBody \/ CompleteBody PROVE LocalIsOpened'
  <2>1. /\ pc = "body" /\ pc' \in {"body", "abandon", "check"} /\ loc' = loc /\ cmd' = cmd
        /\ disk' = disk \/ \E new : disk' = [disk EXCEPT ![cmd.out] = new]
    BY <1>10 DEF SkipChunk, DeliverChunk, BreakBody, CompleteBody, AppendOut, WriteFails, callVars
  <2>2. cmd.kind = "download"
    BY <2>1 DEF IInv, CommandAtWork
  <2> QED BY <2>1, <2>2, LocalStaysOpen
<1>11. ASSUME Abandon \/ Close PROVE LocalIsOpened'
  BY <1>11, ExitForgets DEF Abandon, Close
<1>12. ASSUME CheckData PROVE LocalIsOpened'
  <2>1. \/ pc = "check" /\ pc' = "close" /\ loc' = loc /\ cmd' = cmd /\ disk' = disk
        \/ Exit("data")
    BY <1>12 DEF CheckData, callVars
  <2> QED BY <2>1, ExitForgets, LocalStaysOpen
<1>13. ASSUME Kill PROVE LocalIsOpened'
  BY <1>13, ExitForgets DEF Kill
<1>14. ASSUME Republish \/ UNCHANGED vars PROVE LocalIsOpened'
  BY <1>14 DEF Republish, vars, callVars, LocalIsOpened
<1> QED BY <1>1, <1>2, <1>3, <1>4, <1>5, <1>6, <1>7, <1>8, <1>9, <1>10, <1>11, <1>12, <1>13,
           <1>14, OpenLocalOpens DEF Next, Process, Finished

(* A report is made from the files as they are.                             *)
LEMMA StepReport ==
  ASSUME IInv, LocalIsOpened, ReportIsOfItsFiles, [Next]_vars
  PROVE  ReportIsOfItsFiles'
<1>1. CASE UNCHANGED report
  BY <1>1 DEF ReportIsOfItsFiles
<1>2. CASE Report
  <2> DEFINE held == IF cmd.local = "none" THEN <<>> ELSE disk[cmd.local]
             size == DeltaSize(PlanDelta(loc.index, rh[2].index))
  <2>1. pc = "plan" /\ cmd.kind = "delta-size"
    BY <1>2 DEF Report
  <2>2. loc.index = IndexOfLocal(cmd.local, held)
    BY <2>1 DEF LocalIsOpened, IndexOfLocal
  <2>3. report' = [local |-> cmd.local, rh |-> rh, size |-> size, held |-> held] \/ report' = report
    BY <1>2 DEF Report, ReportedPlan, plan, target
  <2>4. ASSUME report' = [local |-> cmd.local, rh |-> rh, size |-> size, held |-> held]
        PROVE  report'.size = DeltaSize(PlanDelta(IndexOfLocal(report'.local, report'.held),
                                                  report'.rh[2].index))
    <3>1. report'.local = cmd.local /\ report'.rh = rh /\ report'.held = held /\ report'.size = size
      <4> HIDE DEF held, size
      <4> QED BY <2>4
    <3> HIDE DEF held
    <3> QED BY <2>2, <3>1
  <2> HIDE DEF held, size
  <2> QED BY <2>3, <2>4 DEF ReportIsOfItsFiles
<1>3. report' = report \/ Report
  BY DEF Next, Process, Start, OpenLocal, Create, ReadFile, EmitHeader, ReadDetachedHeader,
         FetchLead, FetchHeader, WriteHeader, SkipChunk, DeliverChunk, BreakBody, Abandon,
         CompleteBody, CheckData, Close, Kill, Republish, Finished, vars
<1> QED BY <1>1, <1>2, <1>3

(* The sums of one plan are the requests and the body of the other.         *)
LEMMA ReportForetells ==
  ASSUME IInv, IndexesAgree
  PROVE  ReportForetellsTheDownload
<1> SUFFICES ASSUME pc = "body", report # NoReport, cmd.local = report.local, rh = report.rh,
                    cmd.local = "none" \/ (cmd.local # cmd.out /\ disk[cmd.local] = report.held)
             PROVE  /\ report.size.fetch = Uint64(Requested(plan))
                    /\ report.size.total = Uint64(Total(CompLengths(target)))
  BY DEF ReportForetellsTheDownload
<1>1. ProperIndex(loc.index) /\ ProperIndex(target) /\ cmd.kind = "download"
  <2>1. Published(rh)
    BY DEF IInv, HeaderVerified
  <2> QED BY <2>1, HeaderAlone DEF target, IInv, CommandAtWork
<1>2. loc.index = IndexOfLocal(report.local, report.held)
  BY <1>1 DEF IndexesAgree, LocalIsOpened, IndexOfLocal
<1>3. report.size = DeltaSize(plan)
  BY <1>2 DEF IndexesAgree, ReportIsOfItsFiles, plan, target
<1>4. ProperPlan(plan) /\ Lengths(plan) = CompLengths(target)
  BY <1>1, PlanIsProper, PlanTypes DEF plan
<1>5. /\ Uint64(Requested(plan)) = FetchBytes(plan)
      /\ Uint64(ReuseBytes(plan) + FetchBytes(plan)) = Uint64(Total(Lengths(plan)))
  BY <1>4, RequestedIsFetched, SumOverFacts
<1>6. /\ DeltaSize(plan).fetch = FetchBytes(plan)
      /\ DeltaSize(plan).total = Uint64(ReuseBytes(plan) + FetchBytes(plan))
  BY DEF DeltaSize
<1> QED BY <1>3, <1>4, <1>5, <1>6

(* A download asks for what the last delta-size has reported, as long as    *)
(* the local copy and the header are the same, for all files and whatever   *)
(* commands, failures, kills and republications come in between             *)
(* (main.go:147-150).                                                       *)
THEOREM ReportIsRight ==
  Spec => []ReportForetellsTheDownload
<1>1. Init => IndexesAgree
  BY DEF Init, IndexesAgree, LocalIsOpened, ReportIsOfItsFiles
<1>2. IInv /\ IndexesAgree /\ [Next]_vars => IndexesAgree'
  BY StepLocalIsOpened, StepReport DEF IndexesAgree
<1>3. IInv /\ IndexesAgree => ReportForetellsTheDownload
  BY ReportForetells
<1> QED BY <1>1, <1>2, <1>3, InductiveInvariant, PTL DEF Spec

----------------------------------------------------------------------------
(* A download when nothing fails or changes *)

(* Two leads that are the same with the embedded magic have one checksum.   *)
LEMMA SameEmbedded ==
  ASSUME NEW g \in Seq(Unit), Len(g) >= 2, IsLead(g[1]),
         NEW h \in Seq(Unit), Len(h) >= 2, IsLead(h[1]),
         EmbeddedHeader(g) = EmbeddedHeader(h)
  PROVE  g[1].ckType = h[1].ckType /\ g[2] = h[2]
<1>1. g[1] \in Unit /\ h[1] \in Unit
  <2>1. 1 \in 1 .. Len(g) /\ 1 \in 1 .. Len(h)
    BY LenProperties
  <2> QED BY <2>1, ElementOfSeq
<1> DEFINE v == [g[1] EXCEPT !.detached = FALSE]
           w == [h[1] EXCEPT !.detached = FALSE]
<1>2. v.ckType = g[1].ckType /\ w.ckType = h[1].ckType
  BY <1>1, OtherMagic
<1>3. EmbeddedHeader(g) = <<v, g[2]>> /\ EmbeddedHeader(h) = <<w, h[2]>>
  BY DEF EmbeddedHeader
<1> HIDE DEF v, w
<1>4. /\ EmbeddedHeader(g)[1] = v /\ EmbeddedHeader(g)[2] = g[2]
      /\ EmbeddedHeader(h)[1] = w /\ EmbeddedHeader(h)[2] = h[2]
  <2>1. /\ <<v, g[2]>>[1] = v /\ <<v, g[2]>>[2] = g[2]
        /\ <<w, h[2]>>[1] = w /\ <<w, h[2]>>[2] = h[2]
    OBVIOUS
  <2> QED BY <1>3, <2>1, Zenon
<1> QED BY <1>2, <1>4

(* An embedded header is written as it is.                                  *)
LEMMA EmbeddedStays ==
  ASSUME NEW h \in Seq(Unit), Len(h) >= 2, IsLead(h[1]), ~h[1].detached
  PROVE  EmbeddedHeader(h) = SubSeq(h, 1, 2)
<1>1. h[1] \in Unit
  <2>1. 1 \in 1 .. Len(h)
    BY LenProperties
  <2> QED BY <2>1, ElementOfSeq
<1>2. h[1] \in [detached : BOOLEAN, ckType : {h[1].ckType}, checksum : {h[1].checksum}]
  BY <1>1, FilesAssumption
<1>3. [h[1] EXCEPT !.detached = FALSE] = h[1]
  BY <1>2
<1> DEFINE l == SubSeq(h, 0 + 1, 2)
<1>4. l \in Seq(Unit) /\ Len(l) = 2 /\ l[1] = h[1] /\ l[2] = h[2]
  <2>1. 0 \in 0 .. Len(h) /\ 2 \in 0 .. Len(h)
    BY LenProperties
  <2>2. l \in Seq(Unit) /\ Len(l) = 2 - 0 /\ \A k \in 1 .. 2 - 0 : l[k] = h[0 + k]
    BY <2>1, SubSeqFacts
  <2> HIDE DEF l
  <2> QED BY <2>2
<1> HIDE DEF l
<1>5. l = <<h[1], h[2]>>
  BY <1>4
<1> QED BY <1>3, <1>5 DEF EmbeddedHeader, l

(* The chunks of a complete file lie one after the other in it.             *)
LEMMA CompleteFile ==
  ASSUME NEW f \in Seq(Unit), Complete(f), 2 * Len(f) < Word
  PROVE  LET idx == f[2].index
             off == Offsets(CompLengths(idx))
         IN  /\ ProperIndex(idx) /\ Fits(CompLengths(idx))
             /\ Len(f) \in Nat /\ Len(f) >= 2 /\ IsLead(f[1]) /\ IsHeader(f[2])
             /\ BodyOf(f) = Slice(f, 2, Len(f) - 2)
             /\ BodyOf(f) \in Seq(Unit) /\ Len(BodyOf(f)) = Len(f) - 2
             /\ Len(f) = 2 + off[Len(idx.chunks) + 1]
             /\ \A n \in DOMAIN idx.chunks :
                  /\ off[n] \in Nat /\ off[n + 1] = off[n] + idx.chunks[n].compLength
                  /\ idx.chunks[n].compLength \in Nat
                  /\ 2 + off[n + 1] <= Len(f) /\ 2 * (2 + off[n]) < Word
                  /\ ChunkOf(f, n) = Slice(f, 2 + off[n], idx.chunks[n].compLength)
                  /\ Len(ChunkOf(f, n)) = idx.chunks[n].compLength
<1> DEFINE idx == f[2].index
           off == Offsets(CompLengths(idx))
           end == off[Len(idx.chunks) + 1]
<1>1. /\ Len(f) \in Nat /\ Len(f) >= 2 /\ IsLead(f[1]) /\ IsHeader(f[2])
      /\ Len(f) = 2 + Total(CompLengths(idx))
  BY LenProperties DEF Complete, Parses, BodyOffset, LeadLen, HeaderSize
<1>2. ProperIndex(idx)
  <2>1. 2 \in 1 .. Len(f)
    BY <1>1
  <2> QED BY <1>1, <2>1, ElementOfSeq, HeaderIndex
<1>3. /\ DOMAIN idx.chunks = 1 .. Len(idx.chunks) /\ Len(idx.chunks) \in Nat
      /\ off \in [1 .. Len(idx.chunks) + 1 -> Nat]
      /\ \A n \in DOMAIN idx.chunks : /\ off[n + 1] = off[n] + idx.chunks[n].compLength
                                      /\ idx.chunks[n].compLength \in Nat
      /\ \A m \in 1 .. Len(idx.chunks) + 1 : \A n \in m .. Len(idx.chunks) + 1 : off[m] <= off[n]
      /\ Total(CompLengths(idx)) = end
  BY <1>2, IndexFacts
<1>4. end \in Nat /\ Len(f) = 2 + end
  <2>1. Len(idx.chunks) + 1 \in 1 .. Len(idx.chunks) + 1
    BY <1>3
  <2>2. end \in Nat
    BY <1>3, <2>1
  <2> QED BY <1>1, <1>3, <2>2
<1>5. Fits(CompLengths(idx))
  <2> DEFINE t == Total(CompLengths(idx))
             k == Len(f)
  <2>1. t \in Nat /\ k = 2 + t /\ 2 * k < Word
    BY <1>1, <1>3, <1>4
  <2> HIDE DEF t, k
  <2>2. 2 * t < Word
    BY <2>1, WordAssumption
  <2> QED BY <2>2 DEF Fits, t
<1>6. /\ BodyOf(f) = Slice(f, 2, Len(f) - 2) /\ BodyOf(f) \in Seq(Unit)
      /\ Len(BodyOf(f)) = Len(f) - 2
  <2> DEFINE k == Len(f) - 2
  <2>1. k \in Nat /\ 2 + k = Len(f) /\ 2 + k <= Len(f)
    BY <1>1
  <2>2. BodyOf(f) = SubSeq(f, 2 + 1, 2 + k)
    BY <2>1 DEF BodyOf, BodyOffset, LeadLen, HeaderSize
  <2> DEFINE o == 2
  <2>3. o \in Nat /\ o + k <= Len(f) /\ BodyOf(f) = SubSeq(f, o + 1, o + k)
    BY <2>1, <2>2
  <2> HIDE DEF k, o
  <2>4. /\ Slice(f, o, k) = SubSeq(f, o + 1, o + k)
        /\ Slice(f, o, k) \in Seq(Unit) /\ Len(Slice(f, o, k)) = k
    BY <2>1, <2>3, SliceInside
  <2> QED BY <2>3, <2>4 DEF k, o
<1>7. ASSUME NEW n \in DOMAIN idx.chunks
      PROVE  /\ off[n] \in Nat /\ off[n + 1] = off[n] + idx.chunks[n].compLength
             /\ idx.chunks[n].compLength \in Nat
             /\ 2 + off[n + 1] <= Len(f) /\ 2 * (2 + off[n]) < Word
             /\ ChunkOf(f, n) = Slice(f, 2 + off[n], idx.chunks[n].compLength)
             /\ Len(ChunkOf(f, n)) = idx.chunks[n].compLength
  <2> DEFINE a == off[n]
             b == off[n + 1]
             l == idx.chunks[n].compLength
             k == Len(f)
  <2>1. n + 1 \in 1 .. Len(idx.chunks) + 1 /\ n \in 1 .. Len(idx.chunks) + 1
        /\ Len(idx.chunks) + 1 \in n + 1 .. Len(idx.chunks) + 1
    BY <1>3
  <2>2. a \in Nat /\ b = a + l /\ l \in Nat /\ b <= end
    BY <1>3, <2>1
  <2>3. k \in Nat /\ k = 2 + end /\ end \in Nat /\ 2 * k < Word
    BY <1>1, <1>4
  <2> HIDE DEF a, b, l, k, end
  <2>4. 2 + b <= k /\ 2 * (2 + a) < Word
    BY <2>2, <2>3, WordAssumption
  <2>5. Slice(f, 2 + a, l) = Slice(BodyOf(f), a, l)
    <3> DEFINE m == k - 2
    <3>1. m \in Nat /\ 2 + m <= Len(f) /\ a + l <= m
      BY <2>2, <2>3, <2>4 DEF k
    <3>2. BodyOf(f) = Slice(f, 2, m)
      BY <1>6 DEF k
    <3> HIDE DEF m
    <3> QED BY <2>2, <3>1, <3>2, SliceOfSlice
  <2>6. ChunkOf(f, n) = Slice(BodyOf(f), a, l)
    BY DEF ChunkOf, a, l
  <2>7. Len(ChunkOf(f, n)) = l
    <3>1. a + l <= Len(BodyOf(f))
      BY <1>6, <2>2, <2>3, <2>4 DEF k
    <3> QED BY <1>6, <2>2, <2>6, <3>1, SliceInside
  <2> QED BY <2>2, <2>4, <2>5, <2>6, <2>7 DEF a, b, l, k
<1> HIDE DEF off, idx, end
<1> QED BY <1>1, <1>2, <1>4, <1>5, <1>6, <1>7 DEF off, idx, end

(* One of them.                                                             *)
LEMMA CompleteChunk ==
  ASSUME NEW f \in Seq(Unit), Complete(f), 2 * Len(f) < Word,
         NEW idx, idx = f[2].index, NEW n \in DOMAIN idx.chunks
  PROVE  LET off == Offsets(CompLengths(idx))
             l   == idx.chunks[n].compLength
         IN  /\ off[n] \in Nat /\ l \in Nat /\ off[n + 1] = off[n] + l
             /\ 2 + off[n + 1] <= Len(f) /\ 2 * (2 + off[n]) < Word
             /\ ChunkOf(f, n) = Slice(f, 2 + off[n], l) /\ Len(ChunkOf(f, n)) = l
<1> DEFINE Lies(m) ==
             LET off == Offsets(CompLengths(f[2].index))
                 l   == f[2].index.chunks[m].compLength
             IN  /\ off[m] \in Nat /\ l \in Nat /\ off[m + 1] = off[m] + l
                 /\ 2 + off[m + 1] <= Len(f) /\ 2 * (2 + off[m]) < Word
                 /\ ChunkOf(f, m) = Slice(f, 2 + off[m], l) /\ Len(ChunkOf(f, m)) = l
<1>1. \A m \in DOMAIN f[2].index.chunks : Lies(m)
  BY CompleteFile
<1>2. n \in DOMAIN f[2].index.chunks
  OBVIOUS
<1> HIDE DEF Lies
<1>3. Lies(n)
  BY <1>1, <1>2
<1> QED BY <1>3 DEF Lies

(* What the header of a download describes is what the server holds.        *)
LEMMA QuietTarget ==
  ASSUME IInv, Quiet, Published(rh), EmbeddedHeader(rh) = EmbeddedHeader(server)
  PROVE  /\ server \in Seq(Unit) /\ Complete(server) /\ 2 * Len(server) < Word
         /\ rh[2] = server[2] /\ rh[1].ckType = server[1].ckType
         /\ target = server[2].index
<1>1. server \in Seq(Unit) /\ Complete(server) /\ 2 * Len(server) < Word
  BY ServerIsUnits DEF IInv, FilesParse, Quiet
<1>2. Len(server) >= 2 /\ IsLead(server[1])
  BY <1>1 DEF Complete, Parses, BodyOffset, LeadLen, HeaderSize
<1>3. rh \in Seq(Unit) /\ Len(rh) >= 2 /\ IsLead(rh[1])
  BY DEF Published, BodyOffset, LeadLen, HeaderSize
<1>4. rh[1].ckType = server[1].ckType /\ rh[2] = server[2]
  BY <1>1, <1>2, <1>3, SameEmbedded
<1> QED BY <1>1, <1>4 DEF target

(* What is known of the plan while chunks are written.                      *)
LEMMA QuietPlan ==
  ASSUME IInv, Quiet, QuietProgress, pc = "body"
  PROVE  /\ server \in Seq(Unit) /\ Complete(server) /\ 2 * Len(server) < Word
         /\ target = server[2].index /\ ProperIndex(target) /\ ProperIndex(loc.index)
         /\ Fits(CompLengths(target))
         /\ DOMAIN plan = 1 .. Len(target.chunks) /\ Len(plan) = Len(target.chunks)
         /\ Len(target.chunks) \in Nat /\ DOMAIN target.chunks = 1 .. Len(target.chunks)
         /\ Lengths(plan) = CompLengths(target)
         /\ \A n \in DOMAIN target.chunks :
              /\ plan[n].length = target.chunks[n].compLength /\ plan[n].length \in Nat
              /\ plan[n].local \in BOOLEAN
<1>1. Published(rh) /\ ProperIndex(target) /\ ProperIndex(loc.index)
  BY BodyState
<1>2. /\ server \in Seq(Unit) /\ Complete(server) /\ 2 * Len(server) < Word
      /\ target = server[2].index
  BY <1>1, QuietTarget DEF QuietProgress
<1>3. Fits(CompLengths(target))
  BY <1>2, CompleteFile
<1>4. /\ DOMAIN plan = 1 .. Len(target.chunks) /\ Len(plan) = Len(target.chunks)
      /\ \A n \in DOMAIN target.chunks : /\ plan[n].local \in BOOLEAN
                                         /\ plan[n].length = target.chunks[n].compLength
      /\ Lengths(plan) = CompLengths(target)
  BY <1>1, PlanTypes DEF plan
<1>5. /\ DOMAIN target.chunks = 1 .. Len(target.chunks) /\ Len(target.chunks) \in Nat
      /\ \A n \in DOMAIN target.chunks : target.chunks[n].compLength \in Nat
  BY <1>1, IndexFacts
<1> QED BY <1>1, <1>2, <1>3, <1>4, <1>5

(* The answer to the request of a run is where the run lies in the file.    *)
LEMMA QuietRun ==
  ASSUME IInv, Quiet, QuietProgress, pc = "body", NEW s \in RunStarts(plan)
  PROVE  LET off == Offsets(CompLengths(target))
             e   == RunEnd(plan, s)
         IN  /\ s \in 1 .. Len(target.chunks) /\ e \in s + 1 .. Len(target.chunks) + 1
             /\ off[s] \in Nat /\ off[e] \in Nat /\ off[s] <= off[e]
             /\ 2 + off[e] <= Len(server)
             /\ RemoteRun(plan, s).length = off[e] - off[s]
             /\ RunAnswers(s) = {Slice(server, 2 + off[s], off[e] - off[s])}
<1> DEFINE off == Offsets(CompLengths(target))
           e   == RunEnd(plan, s)
<1>1. /\ server \in Seq(Unit) /\ Complete(server) /\ 2 * Len(server) < Word
      /\ target = server[2].index /\ ProperIndex(target) /\ ProperIndex(loc.index)
      /\ Fits(CompLengths(target))
      /\ DOMAIN plan = 1 .. Len(target.chunks) /\ Len(plan) = Len(target.chunks)
      /\ Len(target.chunks) \in Nat /\ DOMAIN target.chunks = 1 .. Len(target.chunks)
      /\ Lengths(plan) = CompLengths(target)
      /\ \A n \in DOMAIN target.chunks :
           plan[n].length = target.chunks[n].compLength /\ plan[n].length \in Nat
  BY QuietPlan
<1>2. s \in 1 .. Len(target.chunks) /\ e \in s + 1 .. Len(target.chunks) + 1
  BY <1>1, RunEndProperties
<1>3. /\ off \in [1 .. Len(target.chunks) + 1 -> Nat]
      /\ \A m \in 1 .. Len(target.chunks) + 1 : \A n \in m .. Len(target.chunks) + 1 : off[m] <= off[n]
  BY <1>1, IndexFacts
<1>4. /\ off[s] \in Nat /\ off[e] \in Nat /\ off[s] <= off[e]
      /\ 2 + off[e] <= Len(server) /\ 2 * (2 + off[s]) < Word
  <2>1. /\ s \in 1 .. Len(target.chunks) + 1 /\ e \in 1 .. Len(target.chunks) + 1
        /\ e \in s .. Len(target.chunks) + 1 /\ Len(target.chunks) + 1 \in e .. Len(target.chunks) + 1
        /\ Len(target.chunks) + 1 \in 1 .. Len(target.chunks) + 1
    BY <1>1, <1>2
  <2>2. /\ off[s] \in Nat /\ off[e] \in Nat /\ off[s] <= off[e]
        /\ off[e] <= off[Len(target.chunks) + 1] /\ off[Len(target.chunks) + 1] \in Nat
    BY <1>3, <2>1
  <2>3. Len(server) = 2 + off[Len(target.chunks) + 1]
    BY <1>1, CompleteFile
  <2>4. 2 * (2 + off[s]) < Word
    <3>1. s \in DOMAIN target.chunks
      BY <1>1, <1>2
    <3> QED BY <1>1, <3>1, CompleteChunk
  <2> QED BY <2>2, <2>3, <2>4
<1>5. RemoteRun(plan, s).length = off[e] - off[s]
  BY <1>1, RunLengthFits
<1>6. RunOffset(s) = 2 + off[s]
  <2>1. Remote(plan, s)
    BY <1>1, <1>2 DEF RunStarts
  <2>2. target.chunks[s].compLength # 0 /\ ~plan[s].local
    BY <1>1, <1>2, <2>1 DEF Remote
  <2>3. plan[s].offset = ChunkOffset(target, s)
    BY <1>1, <1>2, <2>2, SourceOffsets DEF plan
  <2>4. RemoteRun(plan, s).offset = off[s]
    <3>1. Int64(ChunkOffset(target, s)) = off[s]
      BY <1>1, <1>2, OffsetFits
    <3> QED BY <2>3, <3>1 DEF RemoteRun
  <2>5. Int64(2 + off[s]) = 2 + off[s]
    <3>1. 2 + off[s] \in Nat
      BY <1>4
    <3> QED BY <1>4, <3>1, Int64OfFitting
  <2> QED BY <2>4, <2>5 DEF RunOffset, BodyOffset, LeadLen, HeaderSize
<1>7. RunAnswers(s) = {Slice(server, 2 + off[s], off[e] - off[s])}
  <2>1. seen = {server} /\ ~Faulty
    BY DEF QuietProgress, Quiet
  <2>2. RunAnswers(s) = UNION {Answers(c, 2 + off[s], off[e] - off[s]) : c \in {server}}
    BY <1>5, <1>6, <2>1 DEF RunAnswers
  <2>3. Answers(server, 2 + off[s], off[e] - off[s]) = {Slice(server, 2 + off[s], off[e] - off[s])}
    BY <2>1 DEF Answers
  <2> HIDE DEF off, e
  <2> QED BY <2>2, <2>3
<1> HIDE DEF off, e
<1> QED BY <1>2, <1>4, <1>5, <1>7 DEF off, e

(* A chunk that is fetched is the server's chunk.                           *)
LEMMA QuietFetch ==
  ASSUME IInv, Quiet, QuietProgress, pc = "body", AtChunk, ~plan[next].local
  PROVE  ChunkData = {ChunkOf(server, next)}
<1> DEFINE off == Offsets(CompLengths(target))
           s   == CHOOSE r \in RunStarts(plan) : next \in RunChunks(plan, r)
           e   == RunEnd(plan, s)
           at  == Offsets(Lengths(plan))[next] - Offsets(Lengths(plan))[s]
           l   == plan[next].length
           ans == Slice(server, 2 + off[s], off[e] - off[s])
<1>1. /\ server \in Seq(Unit) /\ Complete(server) /\ 2 * Len(server) < Word
      /\ target = server[2].index /\ ProperIndex(target)
      /\ DOMAIN plan = 1 .. Len(target.chunks) /\ Len(plan) = Len(target.chunks)
      /\ Len(target.chunks) \in Nat /\ DOMAIN target.chunks = 1 .. Len(target.chunks)
      /\ Lengths(plan) = CompLengths(target)
      /\ \A n \in DOMAIN target.chunks : plan[n].length = target.chunks[n].compLength
  BY QuietPlan
<1>2. next \in DOMAIN plan /\ next \in DOMAIN target.chunks /\ l > 0 /\ Remote(plan, next)
  BY <1>1 DEF AtChunk, Remote
<1>3. s \in RunStarts(plan) /\ next \in RunChunks(plan, s)
  <2>1. \E r \in RunStarts(plan) : next \in RunChunks(plan, r)
    BY <1>1, <1>2, RunOfChunk
  <2> QED BY <2>1
<1> HIDE DEF s
<1>4. /\ s \in 1 .. Len(target.chunks) /\ e \in s + 1 .. Len(target.chunks) + 1
      /\ off[s] \in Nat /\ off[e] \in Nat /\ off[s] <= off[e] /\ 2 + off[e] <= Len(server)
      /\ RemoteRun(plan, s).length = off[e] - off[s]
      /\ RunAnswers(s) = {ans}
  BY <1>3, QuietRun
<1>5. next \in s .. e - 1
  BY <1>1, <1>2, <1>3, RunChunksUpToEnd
<1>6. /\ off[next] \in Nat /\ off[next + 1] = off[next] + l /\ l \in Nat
      /\ ChunkOf(server, next) = Slice(server, 2 + off[next], l)
  <2>1. l = target.chunks[next].compLength
    BY <1>1, <1>2
  <2> HIDE DEF l
  <2> QED BY <1>1, <1>2, <2>1, CompleteChunk
<1>7. off[s] <= off[next] /\ off[next + 1] <= off[e] /\ at = off[next] - off[s]
  <2>1. /\ s \in 1 .. Len(target.chunks) + 1 /\ next \in s .. Len(target.chunks) + 1
        /\ next + 1 \in 1 .. Len(target.chunks) + 1 /\ e \in next + 1 .. Len(target.chunks) + 1
    <3> DEFINE N == Len(target.chunks)
    <3>1. N \in Nat /\ next \in 1 .. N /\ s \in 1 .. N /\ e \in s + 1 .. N + 1 /\ next \in s .. e - 1
      BY <1>1, <1>2, <1>4, <1>5
    <3> HIDE DEF N, e
    <3> QED BY <3>1 DEF N
  <2> QED BY <1>1, <2>1, IndexFacts
<1> DEFINE a == off[s]
           b == off[e]
           c == off[next]
<1>8. /\ a \in Nat /\ b \in Nat /\ c \in Nat /\ l \in Nat /\ a <= c /\ c + l <= b
      /\ at = c - a /\ 2 + b <= Len(server)
  BY <1>4, <1>6, <1>7
<1>9. Len(server) \in Nat
  BY <1>1, LenProperties
<1>10. ans = Slice(server, 2 + a, b - a) /\ ChunkOf(server, next) = Slice(server, 2 + c, l)
  BY <1>6
<1>11. RemoteRun(plan, s).length = b - a /\ RunAnswers(s) = {ans}
  BY <1>4
<1>12. ChunkData = {Slice(x, at, l) : x \in {y \in RunAnswers(s) : Len(y) = RemoteRun(plan, s).length}}
  BY Zenon DEF ChunkData, s
<1> HIDE DEF off, e, at, l, ans, a, b, c
<1>13. Slice(ans, at, l) = Slice(server, 2 + c, l) /\ Len(ans) = b - a
  <2> DEFINE o == 2 + a
             k == b - a
  <2>1. /\ o \in Nat /\ k \in Nat /\ o + k <= Len(server) /\ at \in Nat /\ at + l <= k
        /\ o + at = 2 + c /\ ans = Slice(server, o, k)
    BY <1>8, <1>9, <1>10
  <2> HIDE DEF o, k
  <2>2. Slice(Slice(server, o, k), at, l) = Slice(server, o + at, l)
    BY <1>1, <1>8, <2>1, SliceOfSlice
  <2>3. Len(Slice(server, o, k)) = k
    BY <1>1, <2>1, SliceInside
  <2> QED BY <2>1, <2>2, <2>3 DEF k
<1> QED BY <1>10, <1>11, <1>12, <1>13

(* A chunk that is copied is the server's chunk too.                        *)
LEMMA QuietCopy ==
  ASSUME IInv, Quiet, QuietProgress, pc = "body", AtChunk, plan[next].local
  PROVE  ChunkData = {ChunkOf(server, next)}
<1>1. /\ server \in Seq(Unit) /\ Complete(server) /\ 2 * Len(server) < Word
      /\ target = server[2].index /\ ProperIndex(target) /\ ProperIndex(loc.index)
      /\ DOMAIN plan = 1 .. Len(target.chunks)
      /\ DOMAIN target.chunks = 1 .. Len(target.chunks)
      /\ \A n \in DOMAIN target.chunks : /\ plan[n].length = target.chunks[n].compLength
                                         /\ plan[n].length \in Nat
  BY QuietPlan
<1>2. /\ next \in DOMAIN target.chunks /\ plan[next].length > 0
      /\ plan[next].length \in Nat /\ plan[next].length = target.chunks[next].compLength
  BY <1>1 DEF AtChunk
<1>3. next \in NonEmpty(target)
  BY <1>2 DEF NonEmpty
<1>4. PICK j \in NonEmpty(loc.index) :
        /\ loc.index.chunks[j].digest = target.chunks[next].digest
        /\ plan[next].offset = ChunkOffset(loc.index, j)
  <2>1. target.chunks[next].compLength # 0
    BY <1>2
  <2> QED BY <1>1, <1>2, <2>1, SourceOffsets DEF plan
<1>5. loc = Opened
  BY DEF QuietProgress
<1>6. cmd.local # "none"
  <2>1. ASSUME cmd.local = "none" PROVE FALSE
    <3>1. loc.index.chunks = <<>>
      BY <1>5, <2>1 DEF Opened, NoLocal, NilIndex
    <3>2. DOMAIN loc.index.chunks = {}
      BY <3>1
    <3> QED BY <1>4, <3>2 DEF NonEmpty
  <2> QED BY <2>1
<1> DEFINE f   == disk[cmd.local]
           idx == f[2].index
           off == Offsets(CompLengths(idx))
           k   == idx.chunks[j].compLength
           l   == plan[next].length
<1>7. /\ f \in Seq(Unit) /\ Complete(f) /\ 2 * Len(f) < Word /\ DigestsTell(f, server)
  <2>1. cmd.local \in Paths
    BY <1>6, CommandsAssumption DEF IInv, CommandAtWork
  <2> QED BY <1>6, <2>1 DEF IInv, FilesParse, Quiet
<1>8. loc.index = idx /\ loc.path = cmd.local /\ loc.size = Len(f) - 2
  <2>1. loc = [index |-> idx, path |-> cmd.local, size |-> Len(f) - 2]
    BY <1>5, <1>6 DEF Opened, BodyOffset, LeadLen, HeaderSize
  <2> HIDE DEF idx, f
  <2> QED BY <2>1
<1>9. j \in DOMAIN idx.chunks /\ j \in NonEmpty(idx) /\ ProperIndex(idx)
  BY <1>1, <1>4, <1>8 DEF NonEmpty
<1>10. LocalBody = BodyOf(f)
  <2>1. loc # NoLocal
    BY <1>6, <1>8 DEF NoLocal
  <2>2. LocalBody = Slice(f, 2, Len(f) - 2)
    BY <1>8, <2>1 DEF LocalBody, BodyOffset, LeadLen, HeaderSize
  <2> QED BY <1>7, <2>2, CompleteFile
<1>11. Int64(plan[next].offset) = off[j]
  <2>1. Fits(CompLengths(idx))
    BY <1>7, CompleteFile
  <2> QED BY <1>4, <1>8, <1>9, <2>1, OffsetFits
<1>12. ChunkOf(f, j) = ChunkOf(server, next)
  <2>1. f[2].index.chunks[j].digest = server[2].index.chunks[next].digest
    BY <1>1, <1>4, <1>8
  <2>2. j \in NonEmpty(f[2].index) /\ next \in NonEmpty(server[2].index)
    BY <1>1, <1>3, <1>9
  <2> HIDE DEF f, idx
  <2> QED BY <1>7, <2>1, <2>2 DEF DigestsTell
<1>13. k = l
  <2>1. Len(ChunkOf(f, j)) = k
    BY <1>7, <1>9, CompleteChunk
  <2>2. Len(ChunkOf(server, next)) = l
    BY <1>1, <1>2, CompleteChunk
  <2> QED BY <1>12, <2>1, <2>2
<1>14. ChunkOf(f, j) = Slice(BodyOf(f), off[j], k)
  BY DEF ChunkOf
<1>15. ChunkData = {Slice(LocalBody, Int64(plan[next].offset), l)}
  BY Zenon DEF ChunkData
<1> HIDE DEF f, idx, off, k, l
<1> QED BY <1>10, <1>11, <1>12, <1>13, <1>14, <1>15

(* Every source yields the server's chunk, which verifies, and every answer *)
(* is as long as what was asked for.                                        *)
LEMMA QuietChunk ==
  ASSUME IInv, Quiet, QuietProgress, pc = "body", AtChunk
  PROVE  /\ ChunkData = {ChunkOf(server, next)} /\ Genuine(ChunkOf(server, next))
         /\ next \in RunStarts(plan) =>
              \A a \in RunAnswers(next) : Len(a) = RemoteRun(plan, next).length
<1>1. ChunkData = {ChunkOf(server, next)}
  BY QuietFetch, QuietCopy
<1>2. /\ server \in Seq(Unit) /\ Complete(server) /\ 2 * Len(server) < Word
      /\ target = server[2].index
      /\ DOMAIN plan = 1 .. Len(target.chunks)
      /\ DOMAIN target.chunks = 1 .. Len(target.chunks)
      /\ \A n \in DOMAIN target.chunks : plan[n].length = target.chunks[n].compLength
  BY QuietPlan
<1> DEFINE body == BodyOf(server)
           off  == Offsets(CompLengths(target))
           l    == target.chunks[next].compLength
<1>3. next \in DOMAIN target.chunks /\ l > 0 /\ plan[next].length = l
  BY <1>2 DEF AtChunk
<1>4. Genuine(ChunkOf(server, next))
  <2>1. /\ Len(ChunkOf(server, next)) = l
        /\ Len(body) = Len(server) - 2 /\ 2 + off[next + 1] <= Len(server)
        /\ off[next] \in Nat /\ off[next + 1] = off[next] + l /\ l \in Nat /\ Len(server) \in Nat
    <3>1. Len(body) = Len(server) - 2 /\ Len(server) \in Nat
      BY <1>2, CompleteFile
    <3> HIDE DEF body
    <3> QED BY <1>2, <1>3, <3>1, CompleteChunk
  <2>2. off[next + 1] <= Len(body)
    <3> DEFINE o == off[next]
               p == off[next + 1]
               m == Len(server)
               n == Len(body)
    <3>1. o \in Nat /\ l \in Nat /\ p = o + l /\ m \in Nat /\ n = m - 2 /\ 2 + p <= m
      BY <2>1
    <3> HIDE DEF o, p, m, n, l
    <3>2. p <= n
      BY <3>1
    <3> QED BY <3>2 DEF p, n
  <2>3. Len(server) >= BodyOffset /\ VerifiedPrefix(server)
    BY <1>2 DEF Quiet, Complete, Parses
  <2>4. Sum(target.ckType, Slice(body, off[next], l)) = target.chunks[next].digest
    <3>1. Reaches(target, next, Len(body))
      BY <2>2 DEF Reaches
    <3> QED BY <1>2, <1>3, <2>3, <3>1 DEF VerifiedPrefix
  <2>5. ChunkOf(server, next) = Slice(body, off[next], l)
    BY <1>2 DEF ChunkOf
  <2> QED BY <1>3, <2>1, <2>4, <2>5 DEF Genuine
<1>5. ASSUME next \in RunStarts(plan), NEW a \in RunAnswers(next)
      PROVE  Len(a) = RemoteRun(plan, next).length
  <2> DEFINE e == RunEnd(plan, next)
             u == off[next]
             v == off[e]
  <2>1. /\ u \in Nat /\ v \in Nat /\ u <= v /\ 2 + v <= Len(server)
        /\ RemoteRun(plan, next).length = v - u
        /\ RunAnswers(next) = {Slice(server, 2 + u, v - u)}
    BY <1>5, QuietRun
  <2> HIDE DEF u, v
  <2> DEFINE o == 2 + u
             k == v - u
  <2>2. o \in Nat /\ k \in Nat /\ o + k <= Len(server)
    <3>1. Len(server) \in Nat
      BY <1>2, LenProperties
    <3> QED BY <2>1, <3>1
  <2>3. a = Slice(server, o, k) /\ RemoteRun(plan, next).length = k
    BY <1>5, <2>1
  <2>4. server \in Seq(Unit)
    BY <1>2
  <2> HIDE DEF o, k
  <2>5. Len(Slice(server, o, k)) = k
    BY <2>2, <2>4, SliceInside
  <2> QED BY <2>3, <2>5
<1> QED BY <1>1, <1>4, <1>5

(* A step of a download that is quiet afterwards was quiet before it.       *)
LEMMA QuietKept ==
  ASSUME IInv, pc # "idle", cmd.kind = "download", cmd' = cmd, server' = server,
         disk' = disk \/ \E new : disk' = [disk EXCEPT ![cmd.out] = new], Quiet'
  PROVE  Quiet /\ Opened' = Opened
<1>1. cmd.local \in Paths \cup {"none"} /\ cmd.header \in Paths \cup {"none"}
      /\ disk \in [Paths -> Seq(Unit)]
  BY CommandsAssumption DEF IInv, CommandAtWork, FilesParse
<1>2. ASSUME NEW p \in Paths, p # cmd.out PROVE disk'[p] = disk[p]
  BY <1>1, <1>2
<1>3. /\ cmd.local # "none" => cmd.local # cmd.out
      /\ cmd.header # "none" => cmd.header # cmd.out
  BY DEF Quiet
<1>4. /\ cmd.local # "none" => disk'[cmd.local] = disk[cmd.local]
      /\ cmd.header # "none" => disk'[cmd.header] = disk[cmd.header]
  BY <1>1, <1>2, <1>3
<1>5. cmd.local # "none" =>
        /\ cmd.local # cmd.out
        /\ Complete(disk[cmd.local]) /\ 2 * Len(disk[cmd.local]) < Word
        /\ ~TypeMismatch(disk[cmd.local][2].index, server[2].index)
        /\ DigestsTell(disk[cmd.local], server)
  BY <1>4 DEF Quiet
<1>6. cmd.header # "none" =>
        /\ cmd.header # cmd.out
        /\ Len(disk[cmd.header]) >= BodyOffset
        /\ EmbeddedHeader(disk[cmd.header]) = EmbeddedHeader(server)
  BY <1>4 DEF Quiet
<1>7. /\ ~Faulty /\ MaxRepublish = 0 /\ MaxKills = 0
      /\ Complete(server) /\ 2 * Len(server) < Word
      /\ ~server[1].detached /\ VerifiedPrefix(server)
      /\ server[2].uncompressed
           \/ Sum(server[1].ckType, BodyOf(server)) = server[2].dataChecksum
  BY DEF Quiet
<1>8. Quiet
  BY <1>5, <1>6, <1>7 DEF Quiet
<1>9. Opened' = Opened
  BY <1>4 DEF Opened
<1> QED BY <1>8, <1>9

(* What the server holds has a verified header with the embedded magic.     *)
LEMMA QuietServer ==
  ASSUME IInv, Quiet
  PROVE  /\ server \in Seq(Unit) /\ Len(server) \in Nat /\ Len(server) >= 2
         /\ IsLead(server[1]) /\ IsHeader(server[2])
         /\ VerifyHeader(server[1], server[2])
         /\ EmbeddedHeader(server) = SubSeq(server, 1, 2)
<1>1. server \in Seq(Unit) /\ Complete(server) /\ VerifiedPrefix(server) /\ ~server[1].detached
  BY ServerIsUnits DEF IInv, FilesParse, Quiet
<1>2. /\ Len(server) \in Nat /\ Len(server) >= 2 /\ Len(server) >= BodyOffset
      /\ IsLead(server[1]) /\ IsHeader(server[2])
  BY <1>1, LenProperties DEF Complete, Parses, BodyOffset, LeadLen, HeaderSize
<1>3. VerifyHeader(server[1], server[2])
  BY <1>1, <1>2 DEF VerifiedPrefix, VerifyHeader
<1> QED BY <1>1, <1>2, <1>3, EmbeddedStays

LEMMA OpenLocalQuiet ==
  ASSUME LocalIsOpened, Quiet, QuietProgress, cmd.kind = "download", Opened' = Opened, OpenLocal
  PROVE  QuietProgress'
<1>1. pc = "open local" /\ loc = NoLocal /\ err = "nil"
  BY DEF OpenLocal, LocalIsOpened, QuietProgress
<1>2. pc' = "create" /\ err' = err /\ loc' = Opened
  <2>1. CASE cmd.local = "none"
    BY <1>1, <2>1 DEF OpenLocal, AfterLocal, Opened, callVars
  <2>2. CASE cmd.local # "none"
    <3>1. Parses(disk[cmd.local])
      BY <2>2 DEF Quiet, Complete
    <3>2. /\ pc' = AfterLocal /\ err' = err
          /\ loc' = [index |-> disk[cmd.local][2].index, path |-> cmd.local,
                     size |-> Len(disk[cmd.local]) - BodyOffset]
      BY <2>2, <3>1, Zenon DEF OpenLocal
    <3>3. loc' = Opened
      BY <2>2, <3>2, Zenon DEF Opened
    <3> QED BY <3>2, <3>3 DEF AfterLocal
  <2> QED BY <2>1, <2>2
<1> QED BY <1>1, <1>2 DEF QuietProgress

LEMMA CreateQuiet ==
  ASSUME Quiet, QuietProgress, cmd.kind = "download", Opened' = Opened, Create
  PROVE  QuietProgress'
<1>1. pc = "create" /\ loc = Opened /\ err = "nil" /\ ~Faulty
  BY DEF Create, QuietProgress, Quiet
<1>2. pc' \in {"detached", "lead"} /\ err' = err /\ loc' = loc
  BY <1>1 DEF Create, callVars
<1> QED BY <1>1, <1>2 DEF QuietProgress

LEMMA ReadDetachedHeaderQuiet ==
  ASSUME IInv, Quiet, QuietProgress, Opened' = Opened, ReadDetachedHeader
  PROVE  QuietProgress'
<1> DEFINE content == disk[cmd.header]
           valid   == Parses(content) /\ VerifyHeader(content[1], content[2])
<1>1. /\ pc = "detached" /\ loc = Opened /\ err = "nil" /\ server' = server
      /\ cmd.header # "none" /\ cmd.header \in Paths
  BY CommandsAssumption DEF ReadDetachedHeader, QuietProgress, IInv, CommandAtWork
<1>2. Len(content) >= BodyOffset /\ EmbeddedHeader(content) = EmbeddedHeader(server)
  BY <1>1 DEF Quiet
<1>3. /\ content \in Seq(Unit) /\ Len(content) >= 2 /\ Len(content) \in Nat /\ valid
  BY <1>1, <1>2, FileHeader, LenProperties DEF IInv, FilesParse
<1>4. rh' = SubSeq(content, 1, BodyOffset) /\ pc' = "plan" /\ err' = err /\ loc' = loc
  BY <1>3, Zenon DEF ReadDetachedHeader, callVars
<1> DEFINE h == SubSeq(content, 0 + 1, 2)
<1>5. h[1] = content[1] /\ h[2] = content[2]
  <2>1. 0 \in 0 .. Len(content) /\ 2 \in 0 .. Len(content)
    BY <1>3
  <2> HIDE DEF content
  <2>2. \A k \in 1 .. 2 - 0 : h[k] = content[0 + k]
    BY <1>3, <2>1, SubSeqFacts
  <2> HIDE DEF h
  <2> QED BY <2>2
<1>6. rh' = h
  BY <1>4 DEF BodyOffset, LeadLen, HeaderSize
<1> HIDE DEF h, content
<1>7. EmbeddedHeader(rh') = EmbeddedHeader(server')
  BY <1>1, <1>2, <1>5, <1>6 DEF EmbeddedHeader
<1> QED BY <1>1, <1>4, <1>7 DEF QuietProgress

LEMMA FetchLeadQuiet ==
  ASSUME IInv, Quiet, QuietProgress, Opened' = Opened, FetchLead
  PROVE  QuietProgress'
<1>1. pc = "lead" /\ loc = Opened /\ err = "nil" /\ ~Faulty /\ server' = server
  BY DEF FetchLead, QuietProgress, Quiet
<1> DEFINE data == Slice(server, 0, LeadPrefix)
<1>2. /\ server \in Seq(Unit) /\ Len(server) \in Nat /\ Len(server) >= 2 /\ IsLead(server[1])
  BY QuietServer
<1>3. data # <<>> /\ data[1] = server[1]
  <2> DEFINE b == IF 0 + LeadPrefix <= Len(server) THEN 0 + LeadPrefix ELSE Len(server)
             l == SubSeq(server, 0 + 1, b)
  <2>1. b \in 0 .. Len(server) /\ b >= 1 /\ 0 \in 0 .. Len(server)
    BY <1>2, BoundsAssumption
  <2>2. data = l
    BY DEF Slice
  <2> HIDE DEF b, data
  <2>3. Len(l) = b - 0 /\ \A k \in 1 .. b - 0 : l[k] = server[0 + k]
    BY <1>2, <2>1, SubSeqFacts
  <2> HIDE DEF l
  <2>4. 1 \in 1 .. b - 0 /\ Len(l) >= 1
    BY <2>1, <2>3
  <2>5. l # <<>> /\ l[1] = server[1]
    BY <2>3, <2>4
  <2> QED BY <2>2, <2>5
<1>4. Answers(server, 0, LeadPrefix) = {data}
  BY <1>1 DEF Answers
<1> HIDE DEF data
<1>5. prefix' = data /\ pc' = "header" /\ err' = err /\ loc' = loc
  BY <1>1, <1>2, <1>3, <1>4 DEF FetchLead, RequestFails
<1> QED BY <1>1, <1>3, <1>5 DEF QuietProgress

LEMMA FetchHeaderQuiet ==
  ASSUME IInv, Quiet, QuietProgress, Opened' = Opened, FetchHeader
  PROVE  QuietProgress'
<1>1. /\ pc = "header" /\ loc = Opened /\ err = "nil" /\ ~Faulty /\ server' = server
      /\ prefix[1] = server[1]
  BY DEF FetchHeader, QuietProgress, Quiet
<1> DEFINE data == Slice(server, 1, 1)
<1>2. /\ server \in Seq(Unit) /\ Len(server) \in Nat /\ Len(server) >= 2
      /\ IsLead(server[1]) /\ IsHeader(server[2]) /\ VerifyHeader(server[1], server[2])
  BY QuietServer
<1>3. /\ data \in Seq(Unit) /\ Len(data) = 1 /\ data[1] = server[2]
  <2> DEFINE o == 1
             l == 1
  <2>1. o \in Nat /\ l \in Nat /\ o + l <= Len(server) /\ data = Slice(server, o, l)
    BY <1>2
  <2> HIDE DEF o, l, data
  <2>2. data \in Seq(Unit) /\ Len(data) = l /\ \A k \in 1 .. l : data[k] = server[o + k]
    BY <1>2, <2>1, SliceInside
  <2> QED BY <2>2 DEF o, l
<1>4. Answers(server, LeadLen, HeaderSize) = {data}
  BY <1>1 DEF Answers, LeadLen, HeaderSize
<1> HIDE DEF data
<1>5. /\ Len(data) = HeaderSize /\ VerifyHeader(prefix[1], data[1]) /\ IsHeader(data[1])
  BY <1>1, <1>2, <1>3 DEF HeaderSize
<1>6. rh' = <<prefix[1]>> \o data /\ pc' = "plan" /\ err' = err /\ loc' = loc
  BY <1>1, <1>4, <1>5 DEF FetchHeader, RequestFails, callVars
<1>7. rh'[1] = server[1] /\ rh'[2] = server[2]
  <2>1. server[1] \in Unit
    <3>1. 1 \in 1 .. Len(server)
      BY <1>2
    <3> QED BY <1>2, <3>1, ElementOfSeq
  <2>2. <<server[1]>> \in Seq(Unit) /\ Len(<<server[1]>>) = 1 /\ <<server[1]>>[1] = server[1]
    BY <2>1
  <2> QED BY <1>1, <1>3, <1>6, <2>2, ConcatProperties
<1>8. EmbeddedHeader(rh') = EmbeddedHeader(server')
  BY <1>1, <1>7 DEF EmbeddedHeader
<1> QED BY <1>1, <1>6, <1>8 DEF QuietProgress

LEMMA WriteHeaderQuiet ==
  ASSUME IInv, Quiet, QuietProgress, cmd.kind = "download", Opened' = Opened, WriteHeader
  PROVE  QuietProgress'
<1>1. /\ pc = "plan" /\ loc = Opened /\ err = "nil" /\ ~Faulty
      /\ EmbeddedHeader(rh) = EmbeddedHeader(server)
      /\ UNCHANGED <<server, cmd, rh>>
  BY DEF WriteHeader, QuietProgress, Quiet
<1>2. /\ cmd \in Commands /\ cmd.out \in Paths /\ disk[cmd.out] = <<>> /\ Published(rh)
      /\ server \in ServerContents
  BY <1>1, CommandsAssumption
     DEF IInv, CommandAtWork, OutHoldsTheChunks, HeaderVerified, FilesParse
<1>3. target = server[2].index /\ ProperIndex(target)
  BY <1>1, <1>2, QuietTarget, HeaderAlone DEF target
<1>4. ~TypeMismatch(loc.index, target)
  <2>1. CASE cmd.local = "none"
    <3>1. loc.index.chunks = <<>>
      BY <1>1, <2>1 DEF Opened, NoLocal, NilIndex
    <3> QED BY <3>1 DEF TypeMismatch
  <2>2. CASE cmd.local # "none"
    <3>1. loc.index = disk[cmd.local][2].index
      BY <1>1, <2>2 DEF Opened
    <3> QED BY <1>3, <2>2, <3>1 DEF Quiet
  <2> QED BY <2>1, <2>2
<1> DEFINE h == EmbeddedHeader(rh)
<1>5. /\ AppendOut(h) /\ pc' = "body" /\ next' = 1 /\ seen' = {server} /\ err' = err /\ loc' = loc
  BY <1>1, <1>4 DEF WriteHeader, WriteFails
<1>6. disk'[cmd.out] = h
  <2>1. Published(h)
    <3>1. /\ rh \in Seq(Unit) /\ Len(rh) >= 2 /\ IsLead(rh[1]) /\ IsHeader(rh[2])
          /\ VerifyHeader(rh[1], rh[2])
      BY <1>2 DEF Published, BodyOffset, LeadLen, HeaderSize
    <3> QED BY <3>1, OtherMagicPublished DEF EmbeddedHeader
  <2>2. seen' \subseteq ServerContents
    BY <1>2, <1>5
  <2> HIDE DEF h
  <2> QED BY <1>1, <1>2, <1>5, <2>1, <2>2, HeaderWritten
<1>7. h = SubSeq(server, 1, 2)
  BY <1>1, QuietServer
<1>8. BodyOffset + Offsets(CompLengths(target'))[next'] = 2
  <2>1. target' = target
    BY <1>1 DEF target
  <2>2. Offsets(CompLengths(target))[1] = 0
    BY <1>3, IndexFacts
  <2> QED BY <1>5, <2>1, <2>2 DEF BodyOffset, LeadLen, HeaderSize
<1>9. EmbeddedHeader(rh') = EmbeddedHeader(server')
  BY <1>1
<1> HIDE DEF h
<1>10. /\ seen' = {server'}
       /\ disk'[cmd'.out] = SubSeq(server', 1, BodyOffset + Offsets(CompLengths(target'))[next'])
  BY <1>1, <1>5, <1>6, <1>7, <1>8
<1> QED BY <1>1, <1>5, <1>9, <1>10 DEF QuietProgress

(* A step of the body that goes on with it.                                 *)
LEMMA BodyGoesOn ==
  ASSUME IInv, Quiet, QuietProgress, Opened' = Opened, pc = "body",
         next \in DOMAIN target.chunks, next' = next + 1,
         UNCHANGED <<server, pc, cmd, err, rh, loc, seen>>,
         disk'[cmd.out] = SubSeq(server, 1, 2 + Offsets(CompLengths(target))[next + 1])
  PROVE  QuietProgress'
<1>1. target' = target
  BY DEF target
<1>2. EmbeddedHeader(rh') = EmbeddedHeader(server')
  BY DEF QuietProgress
<1>3. disk'[cmd'.out] = SubSeq(server', 1, BodyOffset + Offsets(CompLengths(target'))[next'])
  BY <1>1 DEF BodyOffset, LeadLen, HeaderSize
<1>4. err = "nil" /\ loc = Opened /\ seen = {server}
  BY DEF QuietProgress
<1> QED BY <1>2, <1>3, <1>4 DEF QuietProgress

LEMMA SkipChunkQuiet ==
  ASSUME IInv, Quiet, QuietProgress, Opened' = Opened, SkipChunk
  PROVE  QuietProgress'
<1>1. /\ pc = "body" /\ UNCHANGED <<disk, server, pc, cmd, err, rh, loc, seen>>
      /\ next \in DOMAIN target.chunks /\ target.chunks[next].compLength = 0
      /\ next' = next + 1
  BY DEF SkipChunk, callVars, Stream!SkipEmpty, Stream!Open
<1>2. ProperIndex(target)
  BY <1>1, BodyState
<1>3. Offsets(CompLengths(target))[next + 1] = Offsets(CompLengths(target))[next]
  <2>1. /\ Offsets(CompLengths(target))[next + 1]
             = Offsets(CompLengths(target))[next] + target.chunks[next].compLength
        /\ Offsets(CompLengths(target))[next] \in Nat
    <3>1. next \in 1 .. Len(target.chunks) + 1
      BY <1>1, BodyState
    <3> QED BY <1>1, <1>2, <3>1, IndexFacts
  <2> QED BY <1>1, <2>1
<1>4. disk[cmd.out] = SubSeq(server, 1, 2 + Offsets(CompLengths(target))[next])
  BY <1>1 DEF QuietProgress, BodyOffset, LeadLen, HeaderSize
<1> QED BY <1>1, <1>3, <1>4, BodyGoesOn

LEMMA DeliverChunkQuiet ==
  ASSUME IInv, Quiet, QuietProgress, Opened' = Opened, DeliverChunk
  PROVE  QuietProgress'
<1>1. /\ pc = "body" /\ AtChunk /\ UNCHANGED <<server, pc, cmd, err, rh, loc, seen>>
  BY DEF DeliverChunk, callVars
<1> DEFINE data == ChunkOf(server, next)
           off  == Offsets(CompLengths(target))
           l    == target.chunks[next].compLength
<1>2. AppendOut(data) /\ Genuine(data) /\ data \in Seq(Unit)
  <2>1. ChunkData = {data} /\ Genuine(data)
    BY <1>1, QuietChunk
  <2>2. data \in Seq(Unit)
    BY <1>1, <2>1, ChunkDataTypes
  <2>3. AppendOut(data)
    <3> HIDE DEF data
    <3> QED BY <2>1 DEF DeliverChunk
  <2> QED BY <2>1, <2>2, <2>3
<1>3. /\ next \in DOMAIN target.chunks /\ plan[next].length = l
  BY <1>1, ChunkDataTypes
<1>4. next' = next + 1
  BY DEF DeliverChunk, Stream!Deliver
<1>5. disk'[cmd.out] = disk[cmd.out] \o data
  <2>1. Len(data) = l /\ Sum(target.ckType, data) = target.chunks[next].digest
    BY <1>2, <1>3 DEF Genuine
  <2> HIDE DEF data
  <2> QED BY <1>1, <1>2, <1>3, <2>1, ChunkWritten
<1>6. disk[cmd.out] = SubSeq(server, 1, 2 + off[next])
  BY <1>1 DEF QuietProgress, BodyOffset, LeadLen, HeaderSize
<1>7. /\ server \in Seq(Unit) /\ Complete(server) /\ 2 * Len(server) < Word
      /\ target = server[2].index
  BY <1>1, QuietPlan
<1>8. /\ off[next] \in Nat /\ off[next + 1] = off[next] + l /\ l \in Nat
      /\ 2 + off[next + 1] <= Len(server) /\ Len(server) \in Nat
      /\ data = Slice(server, 2 + off[next], l)
  BY <1>3, <1>7, CompleteChunk, LenProperties
<1> DEFINE a == 2 + off[next]
           b == 2 + off[next + 1]
<1>9. a \in Nat /\ a >= 2 /\ b = a + l /\ l \in Nat /\ b <= Len(server) /\ Len(server) \in Nat
  BY <1>8
<1>10. data = Slice(server, a, l)
  BY <1>8
<1> HIDE DEF a, b, l, data
<1>11. data = SubSeq(server, a + 1, b)
  BY <1>7, <1>9, <1>10, SliceInside
<1>12. SubSeq(server, 1, a) \o SubSeq(server, a + 1, b) = SubSeq(server, 1, b)
  <2>1. 1 \in 1 .. Len(server) + 1 /\ a \in 1 - 1 .. Len(server) /\ b \in a .. Len(server)
    BY <1>9
  <2> QED BY <1>7, <2>1, ConcatAdjacentSubSeq
<1>13. disk'[cmd.out] = SubSeq(server, 1, 2 + off[next + 1])
  BY <1>5, <1>6, <1>11, <1>12 DEF a, b
<1> QED BY <1>1, <1>3, <1>4, <1>13, BodyGoesOn

(* Nothing breaks the body.                                                 *)
LEMMA BreakBodyQuiet ==
  ASSUME IInv, Quiet, QuietProgress
  PROVE  ~BreakBody
<1> SUFFICES ASSUME BreakBody PROVE FALSE
  OBVIOUS
<1>1. pc = "body" /\ AtChunk /\ ~Faulty
  BY DEF BreakBody, Quiet
<1>2. /\ \A data \in ChunkData : Genuine(data)
      /\ next \in RunStarts(plan) =>
           \A a \in RunAnswers(next) : Len(a) = RemoteRun(plan, next).length
  BY <1>1, QuietChunk
<1> QED BY <1>1, <1>2 DEF BreakBody, WriteFails

LEMMA CompleteBodyQuiet ==
  ASSUME IInv, Quiet, QuietProgress, CompleteBody
  PROVE  QuietProgress'
<1>1. /\ pc = "body" /\ pc' = "check" /\ UNCHANGED <<disk, server, cmd, err, rh>>
      /\ next = Len(target.chunks) + 1
  BY DEF CompleteBody, Stream!Complete
<1>2. /\ server \in Seq(Unit) /\ Complete(server) /\ 2 * Len(server) < Word
      /\ target = server[2].index
  BY <1>1, QuietPlan
<1>3. Len(server) = 2 + Offsets(CompLengths(target))[next] /\ Len(server) \in Nat
  BY <1>1, <1>2, CompleteFile
<1>4. /\ disk[cmd.out] = SubSeq(server, 1, 2 + Offsets(CompLengths(target))[next])
      /\ err = "nil" /\ EmbeddedHeader(rh) = EmbeddedHeader(server)
  BY <1>1 DEF QuietProgress, BodyOffset, LeadLen, HeaderSize
<1>5. SubSeq(server, 1, Len(server)) = server
  BY <1>2, SubSeqFull
<1>6. disk'[cmd'.out] = server' /\ EmbeddedHeader(rh') = EmbeddedHeader(server')
  BY <1>1, <1>3, <1>4, <1>5
<1> QED BY <1>1, <1>4, <1>6 DEF QuietProgress

LEMMA CheckDataQuiet ==
  ASSUME IInv, Quiet, QuietProgress, CheckData
  PROVE  QuietProgress'
<1>1. /\ pc = "check" /\ err = "nil" /\ disk[cmd.out] = server
      /\ EmbeddedHeader(rh) = EmbeddedHeader(server) /\ UNCHANGED <<disk, server, cmd, rh>>
  BY DEF CheckData, QuietProgress
<1>2. rh[2] = server[2] /\ rh[1].ckType = server[1].ckType
  <2>1. Published(rh)
    BY <1>1 DEF IInv, HeaderVerified
  <2> QED BY <1>1, <2>1, QuietTarget
<1>3. DataIntact
  BY <1>1, <1>2 DEF DataIntact, Body, Quiet
<1>4. pc' = "close" /\ err' = err
  BY <1>3 DEF CheckData
<1>5. disk'[cmd'.out] = server' /\ EmbeddedHeader(rh') = EmbeddedHeader(server')
  BY <1>1
<1> QED BY <1>1, <1>4, <1>5 DEF QuietProgress

LEMMA CloseQuiet ==
  ASSUME Quiet, QuietProgress, Close
  PROVE  QuietProgress'
<1>1. /\ pc = "close" /\ disk[cmd.out] = server /\ UNCHANGED <<disk, server, cmd>>
      /\ pc' = "exited" /\ err' = "nil"
  BY DEF Close, QuietProgress, Quiet, Exit
<1> QED BY <1>1 DEF QuietProgress

(* Whatever step is taken, a quiet download comes nearer to its end.        *)
LEMMA StepQuiet ==
  ASSUME IInv, LocalIsOpened, QuietInv, [Next]_vars
  PROVE  QuietInv'
<1>1. republished' \in Nat /\ kills' \in Nat
  <2>1. republished \in Nat /\ kills \in Nat
    BY DEF QuietInv
  <2>2. \/ UNCHANGED <<republished, kills>>
        \/ republished' = republished + 1 /\ kills' = kills
        \/ kills' = kills + 1 /\ republished' = republished
    <3>1. CASE Process
      BY <3>1 DEF Process, OpenLocal, Create, ReadFile, EmitHeader, ReadDetachedHeader,
           FetchLead, FetchHeader, Report, WriteHeader, SkipChunk, DeliverChunk, BreakBody,
           Abandon, CompleteBody, CheckData, Close, bounds
    <3>2. CASE Kill \/ Republish \/ UNCHANGED vars \/ \E c \in Commands : Start(c)
      BY <3>2 DEF Kill, Republish, vars, bounds, Start
    <3> QED BY <3>1, <3>2 DEF Next, Finished
  <2> QED BY <2>1, <2>2
<1> SUFFICES ASSUME pc' # "idle", cmd'.kind = "download", Quiet'
             PROVE  QuietProgress'
  BY <1>1 DEF QuietInv
<1>2. ASSUME NEW c \in Commands, Start(c) PROVE QuietProgress'
  <2>1. pc' = "open local" /\ err' = "nil"
    BY <1>2 DEF Start, FirstStep
  <2> QED BY <2>1 DEF QuietProgress
<1>3. ~Kill /\ ~Republish
  BY DEF Kill, Republish, Quiet, QuietInv
<1>4. CASE UNCHANGED vars
  <2>1. UNCHANGED <<disk, server, pc, cmd, err, loc, prefix, rh, next, seen>>
    BY <1>4 DEF vars, callVars
  <2>2. QuietProgress
    BY <2>1 DEF QuietInv, Quiet
  <2> QED BY <2>1, <2>2 DEF QuietProgress, Opened, target
<1>5. CASE Process
  <2>1. pc # "idle" /\ cmd' = cmd /\ server' = server
    BY <1>5 DEF Process, OpenLocal, Create, ReadFile, EmitHeader,
         ReadDetachedHeader, FetchLead, FetchHeader, Report, WriteHeader, SkipChunk,
         DeliverChunk, BreakBody, Abandon, CompleteBody, CheckData, Close
  <2>2. disk' = disk \/ \E new : disk' = [disk EXCEPT ![cmd.out] = new]
    BY WritersWriteOut
  <2>3. Quiet /\ Opened' = Opened /\ cmd.kind = "download"
    BY <2>1, <2>2, QuietKept
  <2>4. QuietProgress
    BY <2>1, <2>3 DEF QuietInv
  <2>5. ~(ReadFile \/ EmitHeader \/ Report)
    BY <2>3 DEF ReadFile, EmitHeader, Report, IInv, CommandAtWork
  <2>6. ~Abandon
    BY <2>4 DEF Abandon, QuietProgress
  <2> QED BY <1>5, <2>3, <2>4, <2>5, <2>6, OpenLocalQuiet, CreateQuiet,
             ReadDetachedHeaderQuiet, FetchLeadQuiet, FetchHeaderQuiet, WriteHeaderQuiet,
             SkipChunkQuiet, DeliverChunkQuiet, BreakBodyQuiet, CompleteBodyQuiet,
             CheckDataQuiet, CloseQuiet DEF Process
<1> QED BY <1>2, <1>3, <1>4, <1>5 DEF Next, Finished

(* A download that ends when nothing fails or changes has written the file  *)
(* the server holds and reports success, for all files, whatever has become *)
(* of the user's files before it, with or without a local copy or a         *)
(* detached header made from either (remote.go:131-143).                    *)
THEOREM QuietDownloadIsRight ==
  Spec => []QuietDownloadSucceeds
<1>1. Init => IndexesAgree /\ QuietInv
  BY DEF Init, IndexesAgree, LocalIsOpened, ReportIsOfItsFiles, QuietInv
<1>2. IInv /\ IndexesAgree /\ QuietInv /\ [Next]_vars => IndexesAgree' /\ QuietInv'
  BY StepLocalIsOpened, StepReport, StepQuiet DEF IndexesAgree
<1>3. QuietInv => QuietDownloadSucceeds
  BY DEF QuietInv, QuietProgress, QuietDownloadSucceeds
<1> QED BY <1>1, <1>2, <1>3, InductiveInvariant, PTL DEF Spec

----------------------------------------------------------------------------
(* The commands around the concurrent call *)

(* A write appends units to OUT and to no other file.                       *)
LEMMA AppendKeeps ==
  ASSUME disk \in [Paths -> Seq(Unit)], cmd.out \in Paths,
         NEW units \in Seq(Unit), AppendOut(units)
  PROVE  /\ disk' \in [Paths -> Seq(Unit)]
         /\ disk'[cmd.out] = disk[cmd.out] \o units
         /\ Len(disk'[cmd.out]) = Len(disk[cmd.out]) + Len(units)
         /\ \A p \in Paths : p # cmd.out => disk'[p] = disk[p]
<1>1. disk[cmd.out] \o units \in Seq(Unit)
      /\ Len(disk[cmd.out] \o units) = Len(disk[cmd.out]) + Len(units)
  BY ConcatProperties
<1> QED BY <1>1 DEF AppendOut

(* A write that fails leaves units too.                                     *)
LEMMA WriteFailsKeeps ==
  ASSUME disk \in [Paths -> Seq(Unit)], cmd.out \in Paths,
         NEW units \in Seq(Unit), WriteFails(units)
  PROVE  disk' \in [Paths -> Seq(Unit)]
<1>1. PICK n \in 0 .. Len(units) - 1 : AppendOut(SubSeq(units, 1, n))
  BY DEF WriteFails
<1>2. n \in 0 .. Len(units)
  BY <1>1, LenProperties
<1> QED BY <1>1, <1>2, PrefixFacts, AppendKeeps

(* A command that ends.                                                     *)
LEMMA ExitKeeps ==
  ASSUME CommandAtWork, ReadyToWrite, pc # "idle", NEW e, Exit(e),
         cmd' = cmd, server' = server, disk' \in [Paths -> Seq(Unit)]
  PROVE  CommandAtWork' /\ ReadyToWrite'
<1>1. pc' = "exited" /\ loc' = NoLocal /\ seen' = {}
  BY DEF Exit
<1>2. CommandAtWork'
  BY <1>1, NoLocalIsProper DEF CommandAtWork
<1> QED BY <1>1, <1>2 DEF ReadyToWrite

(* One that reads a file or an answer and goes on.                          *)
LEMMA GoesOnKeeps ==
  ASSUME CommandAtWork, ReadyToWrite, pc \in {"detached", "lead", "header"},
         pc' \in {"header", "plan"},
         UNCHANGED <<disk, server, cmd, err, loc, seen>>,
         pc' = "header" => prefix' \in Seq(Unit) /\ prefix' # <<>> /\ IsLead(prefix'[1]),
         pc' = "plan" => Published(rh')
  PROVE  CommandAtWork' /\ ReadyToWrite'
BY DEF CommandAtWork, ReadyToWrite

(* The steps up to the plan, one by one.                                    *)
LEMMA OpenLocalKeeps ==
  ASSUME CommandAtWork, ReadyToWrite, OpenLocal
  PROVE  CommandAtWork' /\ ReadyToWrite'
<1>1. /\ pc = "open local" /\ UNCHANGED <<disk, server, cmd>> /\ cmd \in Commands
      /\ cmd.kind \in {"download", "delta-size"} /\ cmd.local \in Paths \cup {"none"}
      /\ loc = NoLocal /\ err = "nil"
  BY CommandsAssumption DEF OpenLocal, CommandAtWork, ReadyToWrite
<1>2. CASE Exit("local")
  BY <1>1, <1>2, ExitKeeps DEF ReadyToWrite
<1>3. ASSUME pc' = AfterLocal, UNCHANGED <<err, seen>>, ProperIndex(loc'.index),
             loc' = NoLocal \/ (loc'.path \in Paths /\ loc'.size \in Nat),
             cmd.local # "none" => loc'.path = cmd.local,
             cmd.local = "none" => loc' = NoLocal
      PROVE  CommandAtWork' /\ ReadyToWrite'
  <2>1. \/ cmd.kind = "delta-size" /\ pc' = "lead"
        \/ cmd.kind = "download" /\ pc' = "create"
    BY <1>1, <1>3 DEF AfterLocal
  <2> QED BY <1>1, <1>3, <2>1 DEF CommandAtWork, ReadyToWrite
<1>4. CASE cmd.local = "none" /\ pc' = AfterLocal /\ UNCHANGED <<err, callVars>>
  BY <1>1, <1>3, <1>4, NoLocalIsProper DEF callVars
<1>5. CASE /\ cmd.local # "none" /\ Parses(disk[cmd.local])
           /\ loc' = [index |-> disk[cmd.local][2].index, path |-> cmd.local,
                      size |-> Len(disk[cmd.local]) - BodyOffset]
           /\ pc' = AfterLocal /\ UNCHANGED <<err, prefix, seen>>
  <2>1. cmd.local \in Paths /\ disk[cmd.local] \in Seq(Unit)
    BY <1>1, <1>5 DEF ReadyToWrite
  <2>2. ProperIndex(disk[cmd.local][2].index) /\ Len(disk[cmd.local]) - BodyOffset \in Nat
    BY <1>5, <2>1, ParsedFile
  <2>3. /\ loc'.index = disk[cmd.local][2].index /\ loc'.path = cmd.local
        /\ loc'.size = Len(disk[cmd.local]) - BodyOffset
    BY <1>5
  <2> QED BY <1>3, <1>5, <2>1, <2>2, <2>3
<1> QED BY <1>2, <1>4, <1>5, Zenon DEF OpenLocal

(* OUT is created empty.                                                    *)
LEMMA CreateKeeps ==
  ASSUME CommandAtWork, ReadyToWrite, Create
  PROVE  CommandAtWork' /\ ReadyToWrite'
<1>1. /\ pc = "create" /\ UNCHANGED <<server, cmd>> /\ cmd \in Commands
      /\ cmd.kind \in {"download", "header"} /\ cmd.out \in Paths
      /\ disk \in [Paths -> Seq(Unit)]
  BY CommandsAssumption DEF Create, CommandAtWork, ReadyToWrite
<1>2. CASE Exit("create") /\ UNCHANGED disk
  BY <1>1, <1>2, ExitKeeps
<1>3. CASE /\ disk' = [disk EXCEPT ![cmd.out] = <<>>]
           /\ pc' = IF cmd.kind = "header" THEN "emit"
                    ELSE IF cmd.header # "none" THEN "detached" ELSE "lead"
           /\ UNCHANGED <<err, callVars>>
  <2>1. disk' \in [Paths -> Seq(Unit)]
    BY <1>1, <1>3, EmptySeq
  <2>2. \/ cmd.kind = "header" /\ pc' = "emit"
        \/ cmd.kind = "download" /\ pc' = "detached" /\ cmd.header # "none"
        \/ cmd.kind = "download" /\ pc' = "lead"
    BY <1>1, <1>3
  <2> QED BY <1>1, <1>3, <2>1, <2>2 DEF CommandAtWork, ReadyToWrite, callVars
<1> QED BY <1>2, <1>3, Zenon DEF Create

(* The header command takes FILE as it is, with the other magic.            *)
LEMMA ReadFileKeeps ==
  ASSUME CommandAtWork, ReadyToWrite, ReadFile
  PROVE  CommandAtWork' /\ ReadyToWrite'
<1>1. /\ pc = "read file" /\ UNCHANGED <<disk, server, cmd>> /\ cmd \in Commands
      /\ cmd.kind = "header" /\ cmd.file \in Paths /\ disk[cmd.file] \in Seq(Unit)
  BY CommandsAssumption DEF ReadFile, CommandAtWork, ReadyToWrite
<1> DEFINE content == disk[cmd.file]
<1>2. CASE Exit("read")
  BY <1>1, <1>2, ExitKeeps DEF ReadyToWrite
<1>3. CASE /\ Len(content) >= BodyOffset /\ IsLead(content[1])
           /\ prefix' = <<[content[1] EXCEPT !.detached = TRUE], content[2]>>
           /\ pc' = "create"
           /\ UNCHANGED <<err, loc, seen>>
  <2>0. content \in Seq(Unit)
    BY <1>1
  <2> HIDE DEF content
  <2>1. content \in Seq(Unit) /\ Len(content) >= 2
    BY <1>3, <2>0 DEF BodyOffset, LeadLen, HeaderSize
  <2>4. content[1] \in Unit /\ content[2] \in Unit
    <3>1. 1 \in 1 .. Len(content) /\ 2 \in 1 .. Len(content)
      BY <2>1, LenProperties
    <3> QED BY <2>1, <3>1, ElementOfSeq
  <2>2. [content[1] EXCEPT !.detached = TRUE] \in Unit
    BY <1>3, <2>4, OtherMagic
  <2>3. prefix' \in Seq(Unit)
    BY <1>3, <2>4, <2>2
  <2> QED BY <1>1, <1>3, <2>3 DEF CommandAtWork, ReadyToWrite
<1> QED BY <1>2, <1>3, Zenon DEF ReadFile

(* It writes what it has read, and ends.                                    *)
LEMMA EmitHeaderKeeps ==
  ASSUME CommandAtWork, ReadyToWrite, EmitHeader
  PROVE  CommandAtWork' /\ ReadyToWrite'
<1>1. /\ pc = "emit" /\ UNCHANGED <<server, cmd>> /\ cmd.out \in Paths
      /\ prefix \in Seq(Unit) /\ disk \in [Paths -> Seq(Unit)]
  BY CommandsAssumption DEF EmitHeader, CommandAtWork, ReadyToWrite
<1>2. PICK e : Exit(e)
  BY DEF EmitHeader
<1>3. disk' \in [Paths -> Seq(Unit)]
  BY <1>1, AppendKeeps, WriteFailsKeeps DEF EmitHeader
<1> QED BY <1>1, <1>2, <1>3, ExitKeeps

(* A detached header is verified before it is used.                         *)
LEMMA ReadDetachedHeaderKeeps ==
  ASSUME CommandAtWork, ReadyToWrite, ReadDetachedHeader
  PROVE  CommandAtWork' /\ ReadyToWrite'
<1> DEFINE content == disk[cmd.header]
           valid   == Parses(content) /\ VerifyHeader(content[1], content[2])
<1>1. /\ pc = "detached" /\ UNCHANGED <<disk, server, cmd>>
      /\ cmd.header \in Paths /\ disk \in [Paths -> Seq(Unit)]
  BY CommandsAssumption DEF ReadDetachedHeader, CommandAtWork, ReadyToWrite
<1>2. CASE Exit("header")
  BY <1>1, <1>2, ExitKeeps
<1>3. CASE /\ valid /\ rh' = SubSeq(content, 1, BodyOffset) /\ pc' = "plan"
           /\ UNCHANGED <<err, callVars>>
  <2>1. content \in Seq(Unit)
    BY <1>1
  <2> HIDE DEF content
  <2>2. Published(rh')
    BY <1>3, <2>1, DetachedIsPublished
  <2> QED BY <1>1, <1>3, <2>2, GoesOnKeeps DEF callVars
<1> QED BY <1>2, <1>3, Zenon DEF ReadDetachedHeader

(* The answer to the request for the lead starts with one.                  *)
LEMMA FetchLeadKeeps ==
  ASSUME CommandAtWork, ReadyToWrite, FetchLead
  PROVE  CommandAtWork' /\ ReadyToWrite'
<1>1. /\ pc = "lead" /\ UNCHANGED <<disk, server, cmd>> /\ server \in ServerContents
      /\ disk \in [Paths -> Seq(Unit)]
  BY DEF FetchLead, ReadyToWrite
<1>2. CASE Exit("lead")
  BY <1>1, <1>2, ExitKeeps
<1>3. ASSUME NEW data \in Answers(server, 0, LeadPrefix),
             data # <<>>, IsLead(data[1]), prefix' = data, pc' = "header",
             UNCHANGED <<err, loc, seen>>
      PROVE  CommandAtWork' /\ ReadyToWrite'
  <2>1. data \in Seq(Unit)
    BY <1>1, AnswerTypes, BoundsAssumption
  <2> QED BY <1>1, <1>3, <2>1, GoesOnKeeps
<1> QED BY <1>2, <1>3, Zenon DEF FetchLead, RequestFails

(* The fetched header is verified before it is used.                        *)
LEMMA FetchHeaderKeeps ==
  ASSUME CommandAtWork, ReadyToWrite, FetchHeader
  PROVE  CommandAtWork' /\ ReadyToWrite'
<1>1. /\ pc = "header" /\ UNCHANGED <<disk, server, cmd>> /\ server \in ServerContents
      /\ prefix \in Seq(Unit) /\ prefix # <<>> /\ IsLead(prefix[1])
      /\ disk \in [Paths -> Seq(Unit)]
  BY DEF FetchHeader, ReadyToWrite
<1>2. CASE Exit("header")
  BY <1>1, <1>2, ExitKeeps
<1>3. ASSUME NEW data \in Answers(server, LeadLen, HeaderSize),
             Len(data) = HeaderSize, VerifyHeader(prefix[1], data[1]), IsHeader(data[1]),
             rh' = <<prefix[1]>> \o data, pc' = "plan", UNCHANGED <<err, callVars>>
      PROVE  CommandAtWork' /\ ReadyToWrite'
  <2>1. data \in Seq(Unit)
    BY <1>1, AnswerTypes DEF LeadLen, HeaderSize
  <2>2. Published(<<prefix[1]>> \o data)
    BY <1>1, <1>3, <2>1, FetchedIsPublished
  <2> QED BY <1>1, <1>3, <2>2, GoesOnKeeps DEF callVars
<1> QED BY <1>2, <1>3, Zenon DEF FetchHeader, RequestFails

----------------------------------------------------------------------------
(* The call of AssembleBody *)

(* The proofs about AssembleBody, for this call of it.                      *)
AP == INSTANCE AssembleBodyProofs WITH
  Jobs <- {}, Byte <- Unit, KnownChecksumTypes <- ChecksumTypes,
  job <- call, pc <- bpc, i <- bi, run <- brun, c <- bc, pos <- bpos,
  written <- bwritten, err <- berr, out <- bout

(* The proofs about AssembleBody are instantiated as the module is; the     *)
(* definitions of the two instances agree: the calling goroutine.           *)
LEMMA SameMain == A!Main <=> AP!Main
BY DEF A!Main, A!Validate, A!Launch, A!SkipEmpty, A!CopyLocal, A!AwaitRun,
       A!SplitRun, A!NextAfterRun, A!EndOfSources, A!Return, A!AtChunk,
       A!SourcesLeft, A!LocalReads, A!Overflows, A!Sliced, A!Fail, A!RejectChunk, A!AcceptChunk, A!Verifies,
       A!RunAt, A!ReadyClosed, A!Settled, A!Advance, A!WorkersDone, A!workerVars,
       A!Runs, A!plan, A!target, A!RunStarts, A!RemoteRun, A!RunEnd, A!RunChunks,
       A!RunLength, A!Remote, A!Offsets, A!Lengths, A!Slice, A!Int64, A!Uint64,
       AP!Main, AP!Validate, AP!Launch, AP!SkipEmpty, AP!CopyLocal, AP!AwaitRun,
       AP!SplitRun, AP!NextAfterRun, AP!EndOfSources, AP!Return, AP!AtChunk,
       AP!SourcesLeft, AP!LocalReads, AP!Overflows, AP!Sliced, AP!Fail, AP!RejectChunk, AP!AcceptChunk,
       AP!Verifies, AP!RunAt, AP!ReadyClosed, AP!Settled, AP!Advance, AP!WorkersDone,
       AP!workerVars, AP!Runs, AP!plan, AP!target, AP!RunStarts, AP!RemoteRun,
       AP!RunEnd, AP!RunChunks, AP!RunLength, AP!Remote, AP!Offsets, AP!Lengths,
       AP!Slice, AP!Int64, AP!Uint64

(* The goroutines it starts.                                                *)
LEMMA SameWorker == \A k : A!Worker(k) <=> AP!Worker(k)
BY DEF A!Worker, A!Acquire, A!Fetch, A!CloseReady, A!Release, A!WorkerDone, A!Step,
       A!mainVars, A!Room, A!Answers, A!Failed, A!TokensBack, A!plan, A!RemoteRun,
       A!RunEnd, A!RunChunks, A!RunLength, A!Remote, A!Offsets, A!Lengths, A!Slice,
       A!Int64, A!Uint64, AP!Worker, AP!Acquire, AP!Fetch, AP!CloseReady, AP!Release,
       AP!WorkerDone, AP!Step, AP!mainVars, AP!Room, AP!Answers, AP!Failed,
       AP!TokensBack, AP!plan, AP!RemoteRun, AP!RunEnd, AP!RunChunks, AP!RunLength,
       AP!Remote, AP!Offsets, AP!Lengths, AP!Slice, AP!Int64, AP!Uint64

(* The inductive invariant of the call.                                     *)
LEMMA SameCall == A!CallInv <=> AP!CallInv
BY DEF A!Cardinality, A!CallInv, A!TypeOK, A!ProperJob, A!Plans, A!Errors,
       A!Launched, A!TokensHeld, A!WaitGroupCounts, A!ResultsSettled,
       A!BetweenChunks, A!SplitReadsASettledResult, A!InsideRun,
       A!NoWorkerOutlivesTheCall, A!PanicsOnlyOnOverflow, A!HoldsToken, A!Alive, A!Settled,
       A!Offs, A!Runs, A!plan, A!RunStarts, A!RemoteRun, A!RunEnd, A!RunChunks,
       A!RunLength, A!Remote, A!Offsets, A!Lengths, A!Int64, A!Uint64,
       A!Overflows, AP!Cardinality, AP!CallInv, AP!TypeOK, AP!ProperJob, AP!Plans,
       AP!Errors, AP!Launched, AP!TokensHeld, AP!WaitGroupCounts, AP!ResultsSettled,
       AP!BetweenChunks, AP!SplitReadsASettledResult, AP!InsideRun,
       AP!NoWorkerOutlivesTheCall, AP!PanicsOnlyOnOverflow, AP!HoldsToken, AP!Alive,
       AP!Settled, AP!Offs, AP!Runs, AP!plan, AP!RunStarts, AP!RemoteRun, AP!RunEnd,
       AP!RunChunks, AP!RunLength, AP!Remote, AP!Offsets, AP!Lengths, AP!Int64,
       AP!Uint64, AP!Overflows

(* What the proofs about AssembleBody assume holds of this instance.        *)
LEMMA CallAssumptions ==
  AP!WordAssumption /\ AP!JobsAssumption /\ AP!BodyAssumption /\ AP!ConcurrencyAssumption
BY WordAssumption, FetchConcurrencyAssumption
   DEF AP!WordAssumption, AP!JobsAssumption, AP!BodyAssumption, AP!ConcurrencyAssumption

(* A step of the call keeps its inductive invariant, and its arguments.     *)
LEMMA CallStep ==
  ASSUME A!CallInv, A!Main \/ \E k \in DOMAIN worker : A!Worker(k)
  PROVE  A!CallInv' /\ call' = call
<1>1. AP!CallInv
  BY SameCall
<1>2. DOMAIN worker = AP!Runs
  BY <1>1 DEF AP!CallInv, AP!TypeOK
<1>3. AP!Next
  BY <1>2, SameMain, SameWorker DEF AP!Next
<1>4. AP!CallInv' /\ call' = call
  BY <1>1, <1>3, CallAssumptions, AP!StepCallInv, AP!JobIsFixed
<1>5. A!CallInv' <=> AP!CallInv'
  BY SameCall, PTL
<1> QED BY <1>4, <1>5

(* At first no command is at work.                                          *)
LEMMA InitKeeps ==
  ASSUME Init
  PROVE  CommandAtWork /\ ReadyToWrite
<1>1. disk \in [Paths -> Seq(Unit)]
  BY FilesAssumption DEF Init
<1> QED BY <1>1, NoLocalIsProper DEF Init, CommandAtWork, ReadyToWrite

(* A command starts with nothing in memory.                                 *)
LEMMA StartKeeps ==
  ASSUME CommandAtWork, ReadyToWrite, NEW c \in Commands, Start(c)
  PROVE  CommandAtWork' /\ ReadyToWrite'
<1>1. /\ pc \in {"idle", "exited"} /\ cmd' = c /\ err' = "nil"
      /\ UNCHANGED <<disk, server, loc, prefix, seen>> /\ loc = NoLocal
      /\ c.kind \in {"download", "delta-size", "header"}
  BY CommandsAssumption DEF Start, callVars, ReadyToWrite
<1>2. \/ c.kind = "header" /\ pc' = "read file"
      \/ c.kind # "header" /\ pc' = "open local"
  BY DEF Start, FirstStep
<1> QED BY <1>1, <1>2, NoLocalIsProper DEF CommandAtWork, ReadyToWrite

(* delta-size ends with its report.                                         *)
LEMMA ReportKeeps ==
  ASSUME CommandAtWork, ReadyToWrite, Report
  PROVE  CommandAtWork' /\ ReadyToWrite'
<1>1. /\ pc = "plan" /\ UNCHANGED <<disk, server, cmd>> /\ disk \in [Paths -> Seq(Unit)]
  BY DEF Report, ReadyToWrite
<1>2. PICK e : Exit(e)
  BY DEF Report
<1> QED BY <1>1, <1>2, ExitKeeps

(* The header that is written is a lead and a header.                       *)
LEMMA EmbeddedIsUnits ==
  ASSUME Published(rh)
  PROVE  EmbeddedHeader(rh) \in Seq(Unit) /\ Len(EmbeddedHeader(rh)) = 2
<1>1. /\ rh \in Seq(Unit) /\ Len(rh) >= 2 /\ IsLead(rh[1]) /\ IsHeader(rh[2])
      /\ VerifyHeader(rh[1], rh[2])
  BY DEF Published, BodyOffset, LeadLen, HeaderSize
<1>2. Published(<<[rh[1] EXCEPT !.detached = FALSE], rh[2]>>)
  BY <1>1, OtherMagicPublished
<1> QED BY <1>2 DEF EmbeddedHeader, Published, BodyOffset, LeadLen, HeaderSize

(* The header is written, in full before the body begins.                   *)
LEMMA WriteHeaderKeeps ==
  ASSUME CommandAtWork, ReadyToWrite, WriteHeader
  PROVE  CommandAtWork' /\ ReadyToWrite'
<1>1. /\ pc = "plan" /\ UNCHANGED <<server, cmd, rh>> /\ cmd \in Commands
      /\ cmd.kind = "download" /\ cmd.out \in Paths /\ Published(rh) /\ err = "nil"
      /\ disk \in [Paths -> Seq(Unit)] /\ server \in ServerContents
  BY CommandsAssumption DEF WriteHeader, CommandAtWork, ReadyToWrite
<1> DEFINE h == EmbeddedHeader(rh)
<1>2. h \in Seq(Unit) /\ Len(h) = 2
  BY <1>1, EmbeddedIsUnits
<1> HIDE DEF h
<1>3. CASE Exit("plan") /\ UNCHANGED <<disk, next>>
  BY <1>1, <1>3, ExitKeeps
<1>4. CASE WriteFails(h) /\ Exit("write")
  <2>1. disk' \in [Paths -> Seq(Unit)]
    BY <1>1, <1>2, <1>4, WriteFailsKeeps
  <2> QED BY <1>1, <1>4, <2>1, ExitKeeps
<1>5. CASE /\ AppendOut(h) /\ pc' = "body" /\ next' = 1 /\ seen' = {server}
           /\ UNCHANGED <<err, loc, prefix>>
  <2>1. /\ disk' \in [Paths -> Seq(Unit)]
        /\ Len(disk'[cmd.out]) = Len(disk[cmd.out]) + Len(h)
    BY <1>1, <1>2, <1>5, AppendKeeps
  <2>2. Len(disk[cmd.out]) \in Nat
    BY <1>1, LenProperties
  <2>3. Len(disk'[cmd'.out]) >= BodyOffset
    BY <1>1, <1>2, <2>1, <2>2 DEF BodyOffset, LeadLen, HeaderSize
  <2> QED BY <1>1, <1>5, <2>1, <2>3 DEF CommandAtWork, ReadyToWrite
<1> QED BY <1>3, <1>4, <1>5, Zenon DEF WriteHeader, h

(* The end of a download.                                                   *)
LEMMA EndKeeps ==
  ASSUME CommandAtWork, ReadyToWrite, Abandon \/ CheckData \/ Close
  PROVE  CommandAtWork' /\ ReadyToWrite'
<1>1. /\ pc \in {"abandon", "check", "close"} /\ UNCHANGED <<disk, server, cmd>>
      /\ disk \in [Paths -> Seq(Unit)]
  BY DEF Abandon, CheckData, Close, ReadyToWrite
<1>2. CASE \E e : Exit(e)
  BY <1>1, <1>2, ExitKeeps
<1>3. CASE pc = "check" /\ pc' = "close" /\ UNCHANGED <<err, callVars>>
  BY <1>1, <1>3 DEF CommandAtWork, ReadyToWrite, callVars
<1> QED BY <1>2, <1>3 DEF Abandon, CheckData, Close

(* A command that is killed ends.                                           *)
LEMMA KillKeeps ==
  ASSUME CommandAtWork, ReadyToWrite, Kill
  PROVE  CommandAtWork' /\ ReadyToWrite'
<1>1. /\ pc # "idle" /\ UNCHANGED <<disk, server, cmd>> /\ Exit("killed")
      /\ disk \in [Paths -> Seq(Unit)]
  BY DEF Kill, Running, ReadyToWrite
<1> QED BY <1>1, ExitKeeps

(* The server serves one of its contents, before and after.                 *)
LEMMA RepublishKeeps ==
  ASSUME CommandAtWork, ReadyToWrite, Republish
  PROVE  CommandAtWork' /\ ReadyToWrite'
<1>1. /\ UNCHANGED <<disk, pc, cmd, err, rh, loc, prefix>>
      /\ server' \in ServerContents /\ seen' \subseteq ServerContents
  BY DEF Republish, ReadyToWrite
<1> QED BY <1>1 DEF CommandAtWork, ReadyToWrite

(* Nothing changes.                                                         *)
LEMMA StutterKeeps ==
  ASSUME CommandAtWork, ReadyToWrite, UNCHANGED vars
  PROVE  CommandAtWork' /\ ReadyToWrite'
BY DEF CommandAtWork, ReadyToWrite, vars, callVars

(* What AssembleBody writes in a step is appended to OUT; nothing else of   *)
(* the command changes, the local copy least of all.                        *)
LEMMA StepOfBodyKeeps ==
  ASSUME CommandAtWork, ReadyToWrite, A!CallInv, A!CallInv', StepOfBody
  PROVE  CommandAtWork' /\ ReadyToWrite' /\ LocalBody' = LocalBody
<1>1. /\ pc = "body" /\ UNCHANGED <<server, pc, cmd, err, rh, loc, prefix, seen>>
      /\ cmd \in Commands /\ cmd.kind = "download" /\ cmd.out \in Paths
      /\ disk \in [Paths -> Seq(Unit)] /\ Len(disk[cmd.out]) >= BodyOffset
  BY CommandsAssumption DEF StepOfBody, callVars, CommandAtWork, ReadyToWrite
<1> DEFINE gained == SubSeq(bout', Len(bout) + 1, Len(bout'))
<1>2. gained \in Seq(Unit) /\ AppendOut(gained)
  <2>1. bout \in Seq(Unit) /\ bout' \in Seq(Unit)
    BY DEF A!CallInv, A!TypeOK
  <2>2. Len(bout) \in Nat /\ Len(bout') \in Nat
    BY <2>1, LenProperties
  <2>3. Slice(bout', Len(bout), Len(bout')) = gained
    BY <2>2 DEF Slice
  <2>4. Slice(bout', Len(bout), Len(bout')) \in Seq(Unit)
    BY <2>1, <2>2, SliceType
  <2> QED BY <2>3, <2>4 DEF StepOfBody
<1> HIDE DEF gained
<1>3. /\ disk' \in [Paths -> Seq(Unit)]
      /\ Len(disk'[cmd.out]) = Len(disk[cmd.out]) + Len(gained)
      /\ \A p \in Paths : p # cmd.out => disk'[p] = disk[p]
  BY <1>1, <1>2, AppendKeeps
<1>4. Len(disk[cmd.out]) \in Nat /\ Len(gained) \in Nat
  BY <1>1, <1>2, LenProperties
<1>5. Len(disk'[cmd'.out]) >= BodyOffset
  BY <1>1, <1>3, <1>4 DEF BodyOffset, LeadLen, HeaderSize
<1>6. CommandAtWork' /\ ReadyToWrite'
  BY <1>1, <1>3, <1>5 DEF CommandAtWork, ReadyToWrite
<1>7. CASE loc = NoLocal
  BY <1>1, <1>6, <1>7 DEF LocalBody
<1>8. CASE loc # NoLocal
  <2>1. loc.path \in Paths /\ loc.path = cmd.local
    BY <1>1, <1>8 DEF CommandAtWork, ReadyToWrite
  <2>2. loc.path # cmd.out
    BY <1>1, <2>1, OutAssumption
  <2>3. disk'[loc.path] = disk[loc.path]
    BY <1>3, <2>1, <2>2
  <2> QED BY <1>1, <1>6, <1>8, <2>3 DEF LocalBody
<1> QED BY <1>6, <1>7, <1>8

(* The body's error makes the command fail, and it has one then.            *)
LEMMA BodyReturnsKeeps ==
  ASSUME CommandAtWork, ReadyToWrite, BodyReturns
  PROVE  CommandAtWork' /\ ReadyToWrite'
<1>1. /\ pc = "body" /\ UNCHANGED <<disk, server, cmd, rh, loc, prefix, seen>>
      /\ \/ pc' = "check" /\ err' = err
         \/ pc' = "abandon" /\ err' = "body"
  BY DEF BodyReturns, AfterBody, callVars
<1> QED BY <1>1 DEF CommandAtWork, ReadyToWrite

(* The target of a published header has lengths that add up.                *)
LEMMA TargetIsProper ==
  ASSUME Published(rh)
  PROVE  ProperIndex(target) /\ Fits(CompLengths(target))
<1>1. rh[2] \in Unit /\ IsHeader(rh[2])
  <2>1. rh \in Seq(Unit) /\ Len(rh) = 2
    BY DEF Published, BodyOffset, LeadLen, HeaderSize
  <2>2. 2 \in 1 .. Len(rh)
    BY <2>1
  <2> QED BY <2>1, <2>2, ElementOfSeq DEF Published
<1> QED BY <1>1, HeaderIndex, LengthsAssumption DEF target

(* The local body is made of units.                                         *)
LEMMA LocalBodyType ==
  ASSUME CommandAtWork, disk \in [Paths -> Seq(Unit)]
  PROVE  LocalBody \in Seq(Unit)
<1>1. CASE loc = NoLocal
  BY <1>1, EmptySeq DEF LocalBody
<1>2. CASE loc # NoLocal
  <2>0. loc.path \in Paths /\ loc.size \in Nat
    BY <1>2 DEF CommandAtWork
  <2>1. disk[loc.path] \in Seq(Unit) /\ loc.size \in Int
    BY <2>0
  <2>2. Slice(disk[loc.path], BodyOffset, loc.size) \in Seq(Unit)
    BY <2>1, SliceType DEF BodyOffset, LeadLen, HeaderSize
  <2> QED BY <1>2, <2>2 DEF LocalBody
<1> QED BY <1>1, <1>2

(* The arguments that a command hands to AssembleBody are proper.           *)
LEMMA ProperCall ==
  ASSUME CommandAtWork, disk \in [Paths -> Seq(Unit)], Published(rh),
         NEW contents \in SUBSET Seq(Unit), NEW j,
         j = [target |-> target, plan |-> plan, localBodies |-> {LocalBody},
              contents |-> contents, base |-> BodyOffset, faulty |-> Faulty]
  PROVE  A!ProperJob(j)
<1>1. ProperIndex(target) /\ Fits(CompLengths(target)) /\ ProperIndex(loc.index)
  BY TargetIsProper DEF CommandAtWork
<1>2. /\ DOMAIN target.chunks = 1 .. Len(target.chunks) /\ Len(target.chunks) \in Nat
      /\ \A n \in DOMAIN target.chunks : target.chunks[n].compLength \in Nat
  BY <1>1 DEF ProperIndex
<1>3. /\ DOMAIN plan = 1 .. Len(target.chunks) /\ Len(plan) = Len(target.chunks)
      /\ \A n \in DOMAIN target.chunks :
           /\ plan[n] = Source(loc.index, target, n)
           /\ plan[n].local \in BOOLEAN /\ plan[n].offset \in Nat
           /\ plan[n].length = target.chunks[n].compLength
      /\ Lengths(plan) = CompLengths(target)
  BY <1>1, PlanTypes DEF plan
<1>4. plan \in A!Plans
  <2>1. \A n \in 1 .. Len(target.chunks) :
          plan[n] \in [local : BOOLEAN, offset : Nat, length : Nat]
    <3> SUFFICES ASSUME NEW n \in 1 .. Len(target.chunks)
                 PROVE  plan[n] \in [local : BOOLEAN, offset : Nat, length : Nat]
      OBVIOUS
    <3>1. /\ plan[n].local \in BOOLEAN /\ plan[n].offset \in Nat /\ plan[n].length \in Nat
          /\ plan[n] = Source(loc.index, target, n)
      BY <1>2, <1>3
    <3>2. plan[n] = [local |-> plan[n].local, offset |-> plan[n].offset,
                     length |-> plan[n].length]
      BY <3>1 DEF Source
    <3> QED BY <3>1, <3>2
  <2>2. plan = [n \in 1 .. Len(target.chunks) |-> plan[n]]
    BY <1>3 DEF plan, PlanDelta
  <2>3. plan \in [1 .. Len(target.chunks) -> [local : BOOLEAN, offset : Nat, length : Nat]]
    BY <2>1, <2>2
  <2> DEFINE N == Len(target.chunks)
             S == [local : BOOLEAN, offset : Nat, length : Nat]
  <2>4. N \in Nat /\ plan \in [1 .. N -> S]
    BY <1>2, <2>3
  <2> HIDE DEF plan, N, S
  <2>5. plan \in Seq(S)
    BY <2>4
  <2> QED BY <2>5 DEF A!Plans, S
<1>5. \A n \in DOMAIN plan : plan[n].length < Word
  <2> SUFFICES ASSUME NEW n \in 1 .. Len(target.chunks)
               PROVE  target.chunks[n].compLength < Word
    BY <1>2, <1>3
  <2>1. 2 * target.chunks[n].compLength < Word /\ target.chunks[n].compLength \in Nat
    BY <1>1, <1>2, LengthFits
  <2> HIDE DEF target
  <2> QED BY <2>1, WordAssumption
<1>6. LocalBody \in Seq(Unit)
  BY LocalBodyType
<1>7. BodyOffset \in Nat /\ Faulty \in BOOLEAN
  BY BoundsAssumption DEF BodyOffset, LeadLen, HeaderSize
<1> HIDE DEF target, plan, LocalBody
<1>8. /\ j.plan = plan /\ j.target = target /\ j.localBodies = {LocalBody}
      /\ j.contents = contents /\ j.base = BodyOffset /\ j.faulty = Faulty
  OBVIOUS
<1> QED BY <1>2, <1>3, <1>4, <1>5, <1>6, <1>7, <1>8 DEF A!ProperJob

(* A proper call starts with its inductive invariant.                       *)
LEMMA CallBegins == A!ProperJob(call) /\ A!Begin => A!CallInv
<1>1. A!ProperJob(call) <=> AP!ProperJob(call)
  BY DEF A!ProperJob, A!Plans, AP!ProperJob, AP!Plans
<1>2. A!Begin <=> AP!Begin
  BY DEF A!Begin, A!NoResult, A!Runs, A!plan, A!RunStarts, A!Remote,
         AP!Begin, AP!NoResult, AP!Runs, AP!plan, AP!RunStarts, AP!Remote
<1> QED BY <1>1, <1>2, AP!BeginCallInv, CallAssumptions, SameCall

(* AssembleBody is called with the plan at hand, and with what the server   *)
(* holds when the requests begin.                                           *)
LEMMA CallAssembleBodyKeeps ==
  ASSUME CommandAtWork, ReadyToWrite, CallAssembleBody, pc' = "body"
  PROVE  A!CallInv' /\ CallIsOfThePlan' /\ ResultsAreAnswers'
<1>1. /\ pc = "plan" /\ cmd' = cmd /\ rh' = rh /\ cmd \in Commands
      /\ cmd.kind = "download" /\ cmd.out \in Paths /\ Published(rh)
      /\ disk \in [Paths -> Seq(Unit)] /\ server \in ServerContents
  BY CommandsAssumption DEF CallAssembleBody, WriteHeader, CommandAtWork, ReadyToWrite
<1>2. /\ AppendOut(EmbeddedHeader(rh)) /\ next' = 1 /\ seen' = {server} /\ loc' = loc
  BY DEF CallAssembleBody, WriteHeader, Exit
<1>3. \A p \in Paths : p # cmd.out => disk'[p] = disk[p]
  BY <1>1, <1>2, EmbeddedIsUnits, AppendKeeps
<1>4. LocalBody' = LocalBody
  <2>1. CASE loc = NoLocal
    BY <1>2, <2>1 DEF LocalBody
  <2>2. CASE loc # NoLocal
    <3>1. loc.path \in Paths /\ loc.path = cmd.local
      BY <1>1, <2>2 DEF CommandAtWork, ReadyToWrite
    <3>2. disk'[loc.path] = disk[loc.path]
      BY <1>1, <1>3, <3>1, OutAssumption
    <3> QED BY <1>2, <2>2, <3>2 DEF LocalBody
  <2> QED BY <2>1, <2>2
<1>5. target' = target /\ plan' = plan
  BY <1>1, <1>2 DEF target, plan
<1>6. /\ call' = [target |-> target, plan |-> plan, localBodies |-> {LocalBody},
                  contents |-> seen', base |-> BodyOffset, faulty |-> Faulty]
      /\ bpc' = "called" /\ bi' = 1 /\ brun' = 1 /\ bc' = 0 /\ bpos' = 0
      /\ bwritten' = 0 /\ berr' = "nil" /\ bout' = <<>>
      /\ worker' = [k \in RunStarts(plan) |-> "none"]
      /\ results' = [k \in RunStarts(plan) |-> A!NoResult] /\ sem' = 0 /\ wg' = 0
  BY DEF CallAssembleBody
<1>7. CallIsOfThePlan'
  BY <1>2, <1>4, <1>5, <1>6 DEF CallIsOfThePlan
<1>8. ResultsAreAnswers'
  BY <1>5, <1>6 DEF ResultsAreAnswers
<1>9. A!ProperJob(call)'
  <2>1. seen' \in SUBSET Seq(Unit)
    BY <1>1, <1>2, ServerIsUnits
  <2>2. A!ProperJob(call')
    BY <1>1, <1>6, <2>1, ProperCall
  <2> QED BY <2>2
<1>10. A!Begin'
  <2> HIDE DEF plan
  <2>1. call'.plan = plan
    BY <1>6
  <2>2. RunStarts(plan) = A!RunStarts(call'.plan)
    BY <2>1 DEF RunStarts, Remote, A!RunStarts, A!Remote
  <2> QED BY <1>6, <2>2 DEF A!Begin, A!Runs, A!plan, A!NoResult
<1>11. A!ProperJob(call)' /\ A!Begin' => A!CallInv'
  BY CallBegins, PTL
<1> QED BY <1>7, <1>8, <1>9, <1>10, <1>11

(* What the two modules call the same.                                      *)
LEMMA CallFacts ==
  ASSUME CallIsOfThePlan
  PROVE  /\ A!plan = plan /\ A!target = target /\ A!Runs = RunStarts(plan)
         /\ \A k : A!RemoteRun(A!plan, k) = RemoteRun(plan, k)
         /\ AP!plan = plan /\ AP!target = target /\ AP!Runs = RunStarts(plan)
         /\ \A k : AP!RemoteRun(AP!plan, k) = RemoteRun(plan, k)
         /\ AP!Offs = Offsets(Lengths(plan))
<1>1. /\ A!plan = plan /\ A!target = target /\ AP!plan = plan /\ AP!target = target
  BY DEF CallIsOfThePlan, A!plan, A!target, AP!plan, AP!target
<1> HIDE DEF plan, target
<1>2. /\ A!Runs = RunStarts(plan) /\ AP!Runs = RunStarts(plan)
  BY <1>1 DEF A!Runs, A!RunStarts, A!Remote, AP!Runs, AP!RunStarts, AP!Remote,
              RunStarts, Remote
<1>3. \A k : A!RemoteRun(plan, k) = RemoteRun(plan, k)
  BY DEF A!RemoteRun, A!RunEnd, A!RunChunks, A!RunLength, A!Remote, A!Offsets,
         A!Lengths, A!Int64, A!Uint64,
         RemoteRun, RunEnd, RunChunks, RunLength, Remote, Offsets, Lengths, Int64, Uint64
<1>4. \A k : AP!RemoteRun(plan, k) = RemoteRun(plan, k)
  BY DEF AP!RemoteRun, AP!RunEnd, AP!RunChunks, AP!RunLength, AP!Remote, AP!Offsets,
         AP!Lengths, AP!Int64, AP!Uint64,
         RemoteRun, RunEnd, RunChunks, RunLength, Remote, Offsets, Lengths, Int64, Uint64
<1>5. AP!Offs = Offsets(Lengths(plan))
  BY <1>1 DEF AP!Offs, AP!Offsets, AP!Lengths, Offsets, Lengths
<1> QED BY <1>1, <1>2, <1>3, <1>4, <1>5

(* What a request of the call is answered with.                             *)
LEMMA AnswersOfTheCall ==
  ASSUME CallIsOfThePlan, NEW k, NEW a \in A!Answers(k)
  PROVE  \/ ~a.err /\ a.data \in RunAnswers(k)
         \/ a.err /\ Faulty
<1> DEFINE r  == RemoteRun(plan, k)
           at == Int64(BodyOffset + r.offset)
<1>1. /\ call.contents = seen /\ call.base = BodyOffset /\ call.faulty = Faulty
      /\ A!RemoteRun(A!plan, k) = r
  BY CallFacts DEF CallIsOfThePlan
<1>2. \/ \E b \in seen : a = [data |-> Slice(b, at, r.length), err |-> FALSE]
      \/ Faulty /\ \E b \in seen : a = [data |-> b, err |-> FALSE]
      \/ Faulty /\ a = [data |-> <<>>, err |-> TRUE]
  <2> HIDE DEF r
  <2> QED BY <1>1 DEF A!Answers, A!Slice, Slice, A!Int64, Int64, A!Uint64, Uint64
<1>3. \A b \in seen : Answers(b, at, r.length) \subseteq RunAnswers(k)
  BY Zenon DEF RunAnswers, RunOffset
<1>4. \A b \in seen : /\ Slice(b, at, r.length) \in RunAnswers(k)
                      /\ Faulty => b \in RunAnswers(k)
  <2> HIDE DEF r, at
  <2> QED BY <1>3 DEF Answers
<1> HIDE DEF r, at
<1> QED BY <1>2, <1>4

(* A result is stored as an answer and never changed.                       *)
LEMMA ResultsKept ==
  ASSUME A!CallInv, CallIsOfThePlan, ResultsAreAnswers,
         A!Main \/ \E k \in DOMAIN worker : A!Worker(k),
         plan' = plan, seen' = seen
  PROVE  ResultsAreAnswers'
<1>1. /\ \A k : RunAnswers(k)' = RunAnswers(k)
      /\ \A k : RemoteRun(plan, k)' = RemoteRun(plan, k)
  BY DEF RunAnswers, RunOffset
<1>2. /\ A!Runs = RunStarts(plan) /\ \A k : A!RemoteRun(A!plan, k) = RemoteRun(plan, k)
      /\ DOMAIN worker = RunStarts(plan) /\ DOMAIN results = RunStarts(plan)
  BY CallFacts DEF A!CallInv, A!TypeOK
<1> DEFINE Stored == {"fetched", "ready", "released", "done"}
<1>3. SUFFICES ASSUME NEW k \in RunStarts(plan), worker'[k] \in Stored
               PROVE  \/ ~results'[k].err /\ results'[k].data \in RunAnswers(k)
                      \/ /\ results'[k].err
                         /\ \/ Faulty
                            \/ \E a \in RunAnswers(k) : Len(a) # RemoteRun(plan, k).length
  BY <1>1 DEF ResultsAreAnswers
<1>4. CASE worker[k] \in Stored /\ results' = results
  BY <1>4 DEF ResultsAreAnswers
<1>5. ASSUME A!Main PROVE worker[k] \in Stored /\ results' = results
  <2>1. CASE A!Launch
    BY <1>2, <1>3, <2>1 DEF A!Launch
  <2>2. CASE UNCHANGED A!workerVars
    BY <1>3, <2>2 DEF A!workerVars
  <2> QED BY <1>5, <2>1, <2>2
          DEF A!Main, A!Validate, A!SkipEmpty, A!CopyLocal, A!AwaitRun, A!SplitRun,
              A!NextAfterRun, A!EndOfSources, A!Return
<1>6. ASSUME NEW l \in DOMAIN worker, A!Worker(l), ~A!Fetch(l)
      PROVE  worker[k] \in Stored /\ results' = results
  BY <1>2, <1>3, <1>6
     DEF A!Worker, A!Acquire, A!CloseReady, A!Release, A!WorkerDone, A!Step
<1>7. ASSUME NEW l \in DOMAIN worker, A!Fetch(l)
      PROVE  \/ ~results'[k].err /\ results'[k].data \in RunAnswers(k)
             \/ /\ results'[k].err
                /\ \/ Faulty
                   \/ \E a \in RunAnswers(k) : Len(a) # RemoteRun(plan, k).length
  <2>1. PICK a \in A!Answers(l) :
          results' = [results EXCEPT ![l] = [data |-> a.data, err |-> A!Failed(l, a)]]
    BY <1>7 DEF A!Fetch
  <2>2. worker' = [worker EXCEPT ![l] = "fetched"]
    BY <1>7 DEF A!Fetch, A!Step
  <2>3. CASE k # l
    BY <1>2, <1>3, <2>1, <2>2, <2>3 DEF ResultsAreAnswers
  <2>4. CASE k = l
    <3>1. results'[k] = [data |-> a.data, err |-> A!Failed(l, a)]
      BY <1>2, <2>1, <2>4
    <3>2. \/ ~a.err /\ a.data \in RunAnswers(k)
          \/ a.err /\ Faulty
      BY <2>4, AnswersOfTheCall
    <3>3. A!Failed(l, a) <=> a.err \/ Len(a.data) # RemoteRun(plan, k).length
      BY <1>2, <2>4 DEF A!Failed
    <3>4. results'[k].data = a.data
          /\ (results'[k].err <=> a.err \/ Len(a.data) # RemoteRun(plan, k).length)
      BY <3>1, <3>3
    <3> QED BY <3>2, <3>4
  <2> QED BY <2>3, <2>4
<1> QED BY <1>4, <1>5, <1>6, <1>7

(* A step of the call keeps what is known of it and of the command.         *)
LEMMA StepOfBodyInv ==
  ASSUME ConcurrentInv, StepOfBody
  PROVE  ConcurrentInv'
<1>1. /\ CommandAtWork /\ ReadyToWrite /\ A!CallInv /\ CallIsOfThePlan /\ ResultsAreAnswers
      /\ A!Main \/ \E k \in DOMAIN worker : A!Worker(k)
      /\ pc' = pc /\ rh' = rh /\ loc' = loc /\ seen' = seen /\ next' = bi' + bc'
  BY DEF ConcurrentInv, StepOfBody, callVars
<1>2. A!CallInv' /\ call' = call
  BY <1>1, CallStep
<1>3. CommandAtWork' /\ ReadyToWrite' /\ LocalBody' = LocalBody
  BY <1>1, <1>2, StepOfBodyKeeps
<1>4. plan' = plan /\ target' = target
  BY <1>1 DEF plan, target
<1>5. CallIsOfThePlan'
  BY <1>1, <1>2, <1>3, <1>4 DEF CallIsOfThePlan
<1>6. ResultsAreAnswers'
  BY <1>1, <1>4, ResultsKept
<1> QED BY <1>2, <1>3, <1>5, <1>6 DEF ConcurrentInv

(* More contents may answer the requests of the call.                       *)
LEMMA RepublishInv ==
  ASSUME ConcurrentInv, Republish, pc = "body", call' = [call EXCEPT !.contents = seen'],
         UNCHANGED <<bpc, bi, brun, bc, bpos, bwritten, berr, bout, worker, results, sem, wg>>
  PROVE  ConcurrentInv'
<1>1. /\ CommandAtWork /\ ReadyToWrite /\ A!CallInv /\ CallIsOfThePlan /\ ResultsAreAnswers
      /\ UNCHANGED <<disk, pc, rh, loc, next>> /\ seen \subseteq seen' /\ Published(rh)
  BY DEF ConcurrentInv, Republish, ReadyToWrite
<1>2. CommandAtWork' /\ ReadyToWrite'
  BY <1>1, RepublishKeeps
<1>3. /\ plan' = plan /\ target' = target /\ LocalBody' = LocalBody
  BY <1>1 DEF plan, target, LocalBody
<1>4. call' = [target |-> target, plan |-> plan, localBodies |-> {LocalBody},
               contents |-> seen', base |-> BodyOffset, faulty |-> Faulty]
  <2> HIDE DEF plan, target, LocalBody
  <2> QED BY <1>1 DEF CallIsOfThePlan
<1>5. A!ProperJob(call')
  <2>1. seen' \in SUBSET Seq(Unit)
    BY <1>2, ServerIsUnits DEF ReadyToWrite
  <2>2. disk \in [Paths -> Seq(Unit)]
    BY <1>1 DEF ReadyToWrite
  <2> QED BY <1>1, <1>4, <2>1, <2>2, ProperCall
<1>6. A!CallInv'
  <2>1. AP!CallInv
    BY <1>1, SameCall
  <2>2. AP!ProperJob(call')
    BY <1>5 DEF A!ProperJob, A!Plans, AP!ProperJob, AP!Plans
  <2>3. call'.plan = call.plan /\ call'.target = call.target
    BY <1>1, <1>4 DEF CallIsOfThePlan
  <2>4. UNCHANGED <<AP!mainVars, AP!workerVars>>
    BY DEF AP!mainVars, AP!workerVars
  <2>5. AP!CallInv'
    BY <2>1, <2>2, <2>3, <2>4, CallAssumptions, AP!ContentsMayChange
  <2>6. A!CallInv' <=> AP!CallInv'
    BY SameCall, PTL
  <2> QED BY <2>5, <2>6
<1>7. CallIsOfThePlan'
  BY <1>1, <1>3, <1>4 DEF CallIsOfThePlan
<1>8. ResultsAreAnswers'
  <2>1. \A k : RunAnswers(k) \subseteq RunAnswers(k)'
    BY <1>1, <1>3 DEF RunAnswers, RunOffset, Answers
  <2>2. worker' = worker /\ results' = results
    OBVIOUS
  <2> HIDE DEF plan
  <2> QED BY <1>1, <1>3, <2>1, <2>2 DEF ResultsAreAnswers
<1> QED BY <1>2, <1>6, <1>7, <1>8 DEF ConcurrentInv

(* Outside of the body the two conjuncts about the command suffice.         *)
LEMMA StepConcurrentInv ==
  ConcurrentInv /\ [ConcurrentNext]_allVars => ConcurrentInv'
<1> SUFFICES ASSUME ConcurrentInv, [ConcurrentNext]_allVars PROVE ConcurrentInv'
  OBVIOUS
<1>1. CommandAtWork /\ ReadyToWrite
  BY DEF ConcurrentInv
<1>2. ASSUME CommandAtWork', ReadyToWrite', pc' # "body" PROVE ConcurrentInv'
  BY <1>2 DEF ConcurrentInv
<1>3. ASSUME NEW c \in Commands, Start(c) PROVE ConcurrentInv'
  <2>1. pc' # "body"
    BY <1>3 DEF Start, FirstStep
  <2> QED BY <1>1, <1>2, <1>3, <2>1, StartKeeps
<1>4. CASE \/ OpenLocal \/ Create \/ ReadFile \/ EmitHeader
           \/ ReadDetachedHeader \/ FetchLead \/ FetchHeader \/ Report
           \/ Abandon \/ CheckData \/ Close
  <2>1. CommandAtWork' /\ ReadyToWrite'
    BY <1>1, <1>4, OpenLocalKeeps, CreateKeeps, ReadFileKeeps, EmitHeaderKeeps,
       ReadDetachedHeaderKeeps, FetchLeadKeeps, FetchHeaderKeeps, ReportKeeps, EndKeeps
  <2>2. pc' # "body"
    BY <1>4 DEF OpenLocal, Create, ReadFile, EmitHeader, ReadDetachedHeader, FetchLead,
       FetchHeader, Report, Abandon, CheckData, Close, Exit, AfterLocal, RequestFails
  <2> QED BY <1>2, <2>1, <2>2
<1>5. CASE CallAssembleBody
  <2>1. CommandAtWork' /\ ReadyToWrite'
    BY <1>1, <1>5, WriteHeaderKeeps DEF CallAssembleBody
  <2>2. CASE pc' = "body"
    BY <1>1, <1>5, <2>1, <2>2, CallAssembleBodyKeeps DEF ConcurrentInv
  <2> QED BY <1>2, <2>1, <2>2
<1>6. CASE BodyReturns
  <2>1. pc' # "body"
    BY <1>6 DEF BodyReturns, AfterBody
  <2> QED BY <1>1, <1>2, <1>6, <2>1, BodyReturnsKeeps
<1>7. CASE Kill
  <2>1. pc' # "body"
    BY <1>7 DEF Kill, Exit
  <2> QED BY <1>1, <1>2, <1>7, <2>1, KillKeeps
<1>8. CASE /\ Republish
           /\ IF pc = "body" THEN call' = [call EXCEPT !.contents = seen'] ELSE UNCHANGED call
           /\ UNCHANGED <<bpc, bi, brun, bc, bpos, bwritten, berr, bout,
                          worker, results, sem, wg>>
  <2>1. CASE pc = "body"
    BY <1>8, <2>1, RepublishInv
  <2>2. CASE pc # "body"
    <3>1. pc' # "body"
      BY <1>8, <2>2 DEF Republish
    <3> QED BY <1>1, <1>2, <1>8, <3>1, RepublishKeeps
  <2> QED BY <2>1, <2>2
<1>9. CASE UNCHANGED <<vars, bodyVars>>
  <2>1. CommandAtWork' /\ ReadyToWrite'
    BY <1>1, <1>9, StutterKeeps
  <2>2. /\ UNCHANGED <<disk, pc, rh, loc, seen, next>>
        /\ UNCHANGED <<call, bpc, bi, brun, bc, bpos, bwritten, berr, bout,
                       worker, results, sem, wg>>
    BY <1>9 DEF vars, bodyVars, callVars
  <2>3. A!CallInv => A!CallInv'
    <3>1. UNCHANGED AP!vars
      BY <2>2 DEF AP!vars, AP!mainVars, AP!workerVars
    <3>2. AP!CallInv => AP!CallInv'
      BY <3>1, CallAssumptions, AP!StutterCallInv
    <3>3. A!CallInv' <=> AP!CallInv'
      BY SameCall, PTL
    <3> QED BY <3>2, <3>3, SameCall
  <2>4. CallIsOfThePlan => CallIsOfThePlan'
    BY <2>2 DEF CallIsOfThePlan, target, plan, LocalBody
  <2>5. ResultsAreAnswers => ResultsAreAnswers'
    BY <2>2 DEF ResultsAreAnswers, RunAnswers, RunOffset, plan, target
  <2> QED BY <2>1, <2>2, <2>3, <2>4, <2>5 DEF ConcurrentInv
<1> QED BY <1>3, <1>4, <1>5, <1>6, <1>7, <1>8, <1>9, StepOfBodyInv
        DEF ConcurrentNext, ConcurrentProcess, allVars, Finished

(* ConcurrentInv holds of the commands with AssembleBody, its goroutines,   *)
(* their requests and its writer (remote.go:195-200, download.go:49-141).   *)
THEOREM ConcurrentInvariant == ConcurrentSpec => []ConcurrentInv
<1>1. ConcurrentInit => ConcurrentInv
  <2> SUFFICES ASSUME ConcurrentInit PROVE ConcurrentInv
    OBVIOUS
  <2>1. Init /\ pc # "body"
    BY DEF ConcurrentInit, Init
  <2> QED BY <2>1, InitKeeps DEF ConcurrentInv
<1> QED BY <1>1, StepConcurrentInv, PTL DEF ConcurrentSpec

----------------------------------------------------------------------------
(* What the goroutines do to the stream *)

(* Outside of AssembleBody a command is where Download says that it is.     *)
LEMMA OutsideTheBody ==
  /\ pc # "body" => PcOfDownload = pc /\ ErrOfDownload = err
  /\ bpc = "called" /\ berr = "nil" => PcOfDownload = pc /\ ErrOfDownload = err
BY DEF PcOfDownload, ErrOfDownload, BodyDone, BodyLost

(* The actions of the two instances of Download, where the command is at    *)
(* the same place in both: those on files.                                  *)
LEMMA SameFiles ==
  ASSUME PcOfDownload = pc, ErrOfDownload = err,
         PcOfDownload' = pc', ErrOfDownload' = err'
  PROVE  /\ \A c : Start(c) => D!Start(c)
         /\ OpenLocal => D!OpenLocal
         /\ Create => D!Create
         /\ ReadFile => D!ReadFile
         /\ EmitHeader => D!EmitHeader
BY DEF Start, D!Start, FirstStep, D!FirstStep, NoHeader, D!NoHeader, OpenLocal,
       D!OpenLocal, AfterLocal, D!AfterLocal, Create, D!Create, ReadFile, D!ReadFile,
       EmitHeader, D!EmitHeader, Exit, D!Exit, callVars, D!callVars, bounds,
       D!bounds, NoLocal, D!NoLocal, NilIndex, D!NilIndex, Parses, D!Parses, IsLead,
       D!IsLead, IsHeader, D!IsHeader, BodyOffset, D!BodyOffset, LeadLen, D!LeadLen,
       HeaderSize, D!HeaderSize, AppendOut, D!AppendOut, WriteFails, D!WriteFails

(* Those that get the header.                                               *)
LEMMA SameHeader ==
  ASSUME PcOfDownload = pc, ErrOfDownload = err,
         PcOfDownload' = pc', ErrOfDownload' = err'
  PROVE  /\ ReadDetachedHeader => D!ReadDetachedHeader
         /\ FetchLead => D!FetchLead
         /\ FetchHeader => D!FetchHeader
BY DEF ReadDetachedHeader, D!ReadDetachedHeader, FetchLead, D!FetchLead, FetchHeader,
       D!FetchHeader, Exit, D!Exit, callVars, D!callVars, bounds, D!bounds, NoLocal,
       D!NoLocal, NilIndex, D!NilIndex, Parses, D!Parses, IsLead, D!IsLead, IsHeader,
       D!IsHeader, BodyOffset, D!BodyOffset, LeadLen, D!LeadLen, HeaderSize,
       D!HeaderSize, Answers, D!Answers, Slice, D!Slice, RequestFails,
       D!RequestFails, VerifyHeader, D!VerifyHeader

(* That of delta-size.                                                      *)
LEMMA SameReport ==
  ASSUME PcOfDownload = pc, ErrOfDownload = err,
         PcOfDownload' = pc', ErrOfDownload' = err'
  PROVE  Report => D!Report
BY DEF Report, D!Report, Exit, D!Exit, callVars, D!callVars, bounds, D!bounds,
       NoLocal, D!NoLocal, NilIndex, D!NilIndex, plan, D!plan, target, D!target,
       PlanDelta, D!PlanDelta, Source, D!Source, LocalOffsets, D!LocalOffsets,
       NonEmpty, D!NonEmpty, ChunkOffset, D!ChunkOffset, Uint64, D!Uint64, Offsets,
       D!Offsets, CompLengths, D!CompLengths, TypeMismatch, D!TypeMismatch,
       DeltaSize, D!DeltaSize, ReportedPlan, D!ReportedPlan, ReuseBytes,
       D!ReuseBytes, FetchBytes, D!FetchBytes, SumOver, D!SumOver, Total, D!Total

(* That which writes the header.                                            *)
LEMMA SameWriteHeader ==
  ASSUME PcOfDownload = pc, ErrOfDownload = err,
         PcOfDownload' = pc', ErrOfDownload' = err'
  PROVE  WriteHeader => D!WriteHeader
BY DEF WriteHeader, D!WriteHeader, EmbeddedHeader, D!EmbeddedHeader, Exit, D!Exit,
       callVars, D!callVars, bounds, D!bounds, NoLocal, D!NoLocal, NilIndex,
       D!NilIndex, plan, D!plan, target, D!target, PlanDelta, D!PlanDelta, Source,
       D!Source, LocalOffsets, D!LocalOffsets, NonEmpty, D!NonEmpty, ChunkOffset,
       D!ChunkOffset, Uint64, D!Uint64, Offsets, D!Offsets, CompLengths,
       D!CompLengths, TypeMismatch, D!TypeMismatch, AppendOut, D!AppendOut,
       WriteFails, D!WriteFails

(* Those that end a download.                                               *)
LEMMA SameEnd ==
  ASSUME PcOfDownload = pc, ErrOfDownload = err,
         PcOfDownload' = pc', ErrOfDownload' = err'
  PROVE  /\ Abandon => D!Abandon
         /\ CheckData => D!CheckData
         /\ Close => D!Close
         /\ Finished => D!Finished
BY DEF Abandon, D!Abandon, CheckData, D!CheckData, DataIntact, D!DataIntact, Body,
       D!Body, BodyOf, D!BodyOf, BodyOffset, D!BodyOffset, LeadLen, D!LeadLen,
       HeaderSize, D!HeaderSize, Close, D!Close, Finished, D!Finished, Running,
       D!Running, vars, D!vars, Exit, D!Exit, callVars, D!callVars, bounds, D!bounds,
       NoLocal, D!NoLocal, NilIndex, D!NilIndex

(* What the two instances say of the body is the same.                      *)
LEMMA SameBody ==
  /\ D!plan = plan /\ D!target = target /\ D!Body = Body
  /\ D!ChunkData = ChunkData /\ (D!AtChunk <=> AtChunk)
  /\ D!RunStarts(plan) = RunStarts(plan)
  /\ \A s : D!RunAnswers(s) = RunAnswers(s) /\ D!RemoteRun(plan, s) = RemoteRun(plan, s)
  /\ \A data : D!Genuine(data) <=> Genuine(data)
  /\ \A data : D!AppendOut(data) <=> AppendOut(data)
  /\ \A data : D!WriteFails(data) <=> WriteFails(data)
<1>1. D!plan = plan /\ D!target = target /\ D!Body = Body
  BY DEF D!plan, plan, D!target, target, D!PlanDelta, PlanDelta, D!Source, Source, D!LocalOffsets, LocalOffsets,
    D!NonEmpty, NonEmpty, D!ChunkOffset, ChunkOffset, D!Uint64, Uint64, D!Offsets, Offsets, D!CompLengths, CompLengths,
    D!Body, Body, D!BodyOf, BodyOf, D!BodyOffset, BodyOffset, D!LeadLen, LeadLen, D!HeaderSize, HeaderSize
<1> HIDE DEF plan, target
<1>2. D!RunStarts(plan) = RunStarts(plan)
  BY DEF D!RunStarts, RunStarts, D!Remote, Remote
<1>3. \A s : D!RemoteRun(plan, s) = RemoteRun(plan, s)
  BY DEF D!RemoteRun, RemoteRun, D!RunEnd, RunEnd, D!RunChunks, RunChunks, D!Remote, Remote,
    D!RunLength, RunLength, D!Offsets, Offsets, D!Lengths, Lengths, D!Int64, Int64, D!Uint64, Uint64
<1>4. \A s : D!RunAnswers(s) = RunAnswers(s)
  BY <1>1, <1>3 DEF D!RunAnswers, RunAnswers, D!RunOffset, RunOffset, D!Answers, Answers, D!Slice, Slice,
    D!BodyOffset, BodyOffset, D!LeadLen, LeadLen, D!HeaderSize, HeaderSize, D!Int64, Int64, D!Uint64, Uint64
<1>5. D!AtChunk <=> AtChunk
  BY <1>1 DEF D!AtChunk, AtChunk
<1>6. D!LocalBody = LocalBody
  BY DEF D!LocalBody, LocalBody, D!NoLocal, NoLocal, D!NilIndex, NilIndex, D!Slice, Slice,
    D!BodyOffset, BodyOffset, D!LeadLen, LeadLen, D!HeaderSize, HeaderSize
<1>7. D!ChunkData = ChunkData
  <2> DEFINE src == plan[next]
             s   == CHOOSE r \in RunStarts(plan) : next \in RunChunks(plan, r)
             at  == Offsets(Lengths(plan))[next] - Offsets(Lengths(plan))[s]
  <2>1. (CHOOSE r \in D!RunStarts(plan) : next \in D!RunChunks(plan, r)) = s
    BY DEF D!RunStarts, RunStarts, D!RunChunks, RunChunks, D!Remote, Remote
  <2>2. D!Offsets(D!Lengths(plan)) = Offsets(Lengths(plan))
    BY DEF D!Offsets, Offsets, D!Lengths, Lengths
  <2>3. \A x, y, z : D!Slice(x, y, z) = Slice(x, y, z)
    BY DEF D!Slice, Slice
  <2>4. \A n : D!Int64(n) = Int64(n)
    BY DEF D!Int64, Int64, D!Uint64, Uint64
  <2>5. D!ChunkData =
          IF src.local THEN {D!Slice(D!LocalBody, D!Int64(src.offset), src.length)}
          ELSE {D!Slice(a, D!Offsets(D!Lengths(plan))[next] - D!Offsets(D!Lengths(plan))[s],
                        src.length) :
                  a \in {b \in D!RunAnswers(s) : Len(b) = D!RemoteRun(plan, s).length}}
    <3> HIDE DEF s
    <3> QED BY <1>1, <2>1 DEF D!ChunkData
  <2>6. ChunkData =
          IF src.local THEN {Slice(LocalBody, Int64(src.offset), src.length)}
          ELSE {Slice(a, at, src.length) :
                  a \in {b \in RunAnswers(s) : Len(b) = RemoteRun(plan, s).length}}
    BY DEF ChunkData
  <2>7. {b \in D!RunAnswers(s) : Len(b) = D!RemoteRun(plan, s).length}
          = {b \in RunAnswers(s) : Len(b) = RemoteRun(plan, s).length}
    <3> HIDE DEF s
    <3> QED BY <1>3, <1>4
  <2> DEFINE complete == {b \in RunAnswers(s) : Len(b) = RemoteRun(plan, s).length}
  <2>8. D!ChunkData =
          IF src.local THEN {D!Slice(LocalBody, Int64(src.offset), src.length)}
          ELSE {D!Slice(a, at, src.length) : a \in complete}
    <3> HIDE DEF s, src
    <3> QED BY <1>6, <2>2, <2>4, <2>5, <2>7
  <2> HIDE DEF src, at, complete
  <2>9. {D!Slice(a, at, src.length) : a \in complete} = {Slice(a, at, src.length) : a \in complete}
    BY <2>3
  <2>10. ChunkData = IF src.local THEN {Slice(LocalBody, Int64(src.offset), src.length)}
                     ELSE {Slice(a, at, src.length) : a \in complete}
    BY <2>6 DEF complete
  <2> QED BY <2>3, <2>8, <2>9, <2>10
<1>8. /\ \A data : D!Genuine(data) <=> Genuine(data)
      /\ \A data : D!AppendOut(data) <=> AppendOut(data)
      /\ \A data : D!WriteFails(data) <=> WriteFails(data)
  BY <1>1 DEF D!Genuine, Genuine, D!AppendOut, AppendOut, D!WriteFails, WriteFails
<1> QED BY <1>1, <1>2, <1>3, <1>4, <1>5, <1>7, <1>8

(* The command is at a chunk, in the eyes of Download.                      *)
InBody ==
  /\ disk \in [Paths -> Seq(Unit)] /\ cmd.out \in Paths /\ Len(disk[cmd.out]) >= 2
  /\ PcOfDownload = "body" /\ AtChunk /\ next \in DOMAIN target.chunks
  /\ plan[next].length = target.chunks[next].compLength

(* What no step of AssembleBody touches.                                    *)
BodyFrame == UNCHANGED <<server, cmd, rh, report, callVars, bounds>>

(* What the frame of a step keeps, for both instances.                      *)
LEMMA FrameFacts ==
  ASSUME BodyFrame
  PROVE  target' = target /\ cmd' = cmd
         /\ UNCHANGED <<server, cmd, rh, report, D!callVars, D!bounds>>
BY DEF BodyFrame, target, callVars, bounds, D!callVars, D!bounds

(* Appending a genuine chunk is a delivery.                                 *)
LEMMA DeliversChunk ==
  ASSUME InBody, BodyFrame, PcOfDownload' = "body", ErrOfDownload' = ErrOfDownload,
         NEW data \in Seq(Unit), data \in ChunkData, Genuine(data), AppendOut(data),
         next' = next + 1
  PROVE  D!DeliverChunk
<1>1. target' = target /\ cmd' = cmd
      /\ UNCHANGED <<server, cmd, rh, report, D!callVars, D!bounds>>
  BY FrameFacts
<1>2. Body' = Body \o data /\ SubSeq(Body', Len(Body) + 1, Len(Body')) = data
  BY <1>1, BodyAppends DEF InBody
<1>3. D!Body = Body /\ D!Body' = Body' /\ D!target = target /\ D!target' = target
  <2>1. D!Body' = Body' /\ D!target' = target'
    BY DEF D!Body, Body, D!BodyOf, BodyOf, D!target, target, D!BodyOffset, BodyOffset,
           D!LeadLen, LeadLen, D!HeaderSize, HeaderSize
  <2> QED BY <1>1, <2>1, SameBody
<1>4. D!Stream!Deliver
  BY <1>2, <1>3 DEF D!Stream!Deliver, D!Stream!Open, D!Stream!Gained, D!Status, InBody, Genuine
<1>5. D!AtChunk /\ \E d \in D!ChunkData : D!AppendOut(d)
  BY SameBody DEF InBody
<1> QED BY <1>1, <1>4, <1>5 DEF D!DeliverChunk, InBody

(* Failing at a chunk, for one of the reasons Download knows, breaks the    *)
(* body.                                                                    *)
LEMMA BreaksBody ==
  ASSUME InBody, BodyFrame, PcOfDownload' = "abandon", ErrOfDownload' = "body",
         next' = next,
         \/ /\ \/ Faulty
               \/ \E data \in ChunkData : ~Genuine(data)
               \/ /\ next \in RunStarts(plan)
                  /\ \E a \in RunAnswers(next) : Len(a) # RemoteRun(plan, next).length
            /\ UNCHANGED disk
         \/ \E data \in ChunkData : data \in Seq(Unit) /\ Genuine(data) /\ WriteFails(data)
  PROVE  D!BreakBody
<1>1. target' = target /\ cmd' = cmd
      /\ UNCHANGED <<server, cmd, rh, report, D!callVars, D!bounds>>
  BY FrameFacts
<1>2. D!Body = Body /\ D!Body' = Body' /\ D!target = target /\ D!target' = target
  <2>1. D!Body' = Body' /\ D!target' = target'
    BY DEF D!Body, Body, D!BodyOf, BodyOf, D!target, target, D!BodyOffset, BodyOffset,
           D!LeadLen, LeadLen, D!HeaderSize, HeaderSize
  <2> QED BY <1>1, <2>1, SameBody
<1>3. ASSUME NEW g \in Seq(Unit), AppendOut(g),
             g = <<>> \/ Len(g) < target.chunks[next].compLength
      PROVE  D!Stream!Break
  <2>1. Body' = Body \o g /\ SubSeq(Body', Len(Body) + 1, Len(Body')) = g
    BY <1>1, <1>3, BodyAppends DEF InBody
  <2> QED BY <1>2, <1>3, <2>1
          DEF D!Stream!Break, D!Stream!Open, D!Stream!Gained, D!Status, InBody
<1>4. CASE UNCHANGED disk
  <2>1. AppendOut(<<>>) /\ <<>> \in Seq(Unit)
    <3>1. disk[cmd.out] \in Seq(Unit) /\ cmd.out \in Paths /\ disk \in [Paths -> Seq(Unit)]
      BY DEF InBody
    <3>2. disk[cmd.out] \o <<>> = disk[cmd.out]
      BY <3>1, ConcatEmptySeq
    <3> QED BY <1>4, <3>1, <3>2, EmptySeq DEF AppendOut
  <2>2. D!Stream!Break
    BY <1>3, <2>1
  <2>3. CASE \/ Faulty
             \/ \E data \in ChunkData : ~Genuine(data)
             \/ /\ next \in RunStarts(plan)
                /\ \E a \in RunAnswers(next) : Len(a) # RemoteRun(plan, next).length
    <3>1. \/ Faulty
          \/ \E data \in D!ChunkData : ~D!Genuine(data)
          \/ /\ next \in D!RunStarts(D!plan)
             /\ \E a \in D!RunAnswers(next) : Len(a) # D!RemoteRun(D!plan, next).length
      <4> HIDE DEF plan
      <4> QED BY <2>3, SameBody
    <3> QED BY <1>1, <1>4, <2>2, <3>1, SameBody DEF D!BreakBody, InBody
  <2>4. CASE \E data \in ChunkData : Genuine(data) /\ WriteFails(data)
    <3>1. \E data \in D!ChunkData : D!Genuine(data) /\ D!WriteFails(data)
      BY <2>4, SameBody
    <3> QED BY <1>1, <2>2, <3>1, SameBody DEF D!BreakBody, InBody
  <2> QED BY <2>3, <2>4
<1>5. CASE \E data \in ChunkData : data \in Seq(Unit) /\ Genuine(data) /\ WriteFails(data)
  <2>1. PICK data \in ChunkData : data \in Seq(Unit) /\ Genuine(data) /\ WriteFails(data)
    BY <1>5
  <2>2. PICK n \in 0 .. Len(data) - 1 : AppendOut(SubSeq(data, 1, n))
    BY <2>1 DEF WriteFails
  <2>3. /\ SubSeq(data, 1, n) \in Seq(Unit) /\ Len(SubSeq(data, 1, n)) = n
    BY <2>1, <2>2, PrefixFacts, LenProperties
  <2>4. Len(SubSeq(data, 1, n)) < target.chunks[next].compLength
    BY <2>1, <2>2, <2>3, LenProperties DEF Genuine, InBody
  <2>5. D!Stream!Break
    BY <1>3, <2>2, <2>3, <2>4
  <2>6. \E d \in D!ChunkData : D!Genuine(d) /\ D!WriteFails(d)
    BY <2>1, SameBody
  <2> QED BY <1>1, <2>5, <2>6, SameBody DEF D!BreakBody, InBody
<1> QED BY <1>4, <1>5

(* What is known while AssembleBody is at work.                             *)
LEMMA CallState ==
  ASSUME ConcurrentInv, pc = "body"
  PROVE  /\ AP!CallInv /\ AP!TypeOK /\ CallIsOfThePlan /\ ResultsAreAnswers
         /\ disk \in [Paths -> Seq(Unit)] /\ cmd.out \in Paths
         /\ Len(disk[cmd.out]) >= 2 /\ LocalBody \in Seq(Unit)
         /\ bi \in Nat \ {0} /\ bc \in Nat /\ next = bi + bc /\ bout \in Seq(Unit)
         /\ target.ckType \in ChecksumTypes
         /\ Len(plan) \in Nat /\ DOMAIN plan = 1 .. Len(plan)
         /\ DOMAIN target.chunks = DOMAIN plan /\ Len(target.chunks) = Len(plan)
         /\ \A n \in DOMAIN plan :
              /\ plan[n].length \in Nat /\ plan[n].offset \in Nat
              /\ plan[n].length = target.chunks[n].compLength
         /\ bpc \in {"called", "launch", "loop", "split"} =>
              berr = "nil" /\ PcOfDownload = "body" /\ ErrOfDownload = err
<1>1. /\ AP!CallInv /\ AP!TypeOK /\ CallIsOfThePlan /\ ResultsAreAnswers
      /\ CommandAtWork /\ ReadyToWrite
  BY SameCall DEF ConcurrentInv, AP!CallInv
<1>2. /\ disk \in [Paths -> Seq(Unit)] /\ cmd.out \in Paths
      /\ Len(disk[cmd.out]) >= 2 /\ Published(rh) /\ ProperIndex(loc.index)
  BY <1>1, CommandsAssumption
     DEF CommandAtWork, ReadyToWrite, BodyOffset, LeadLen, HeaderSize
<1>3. LocalBody \in Seq(Unit)
  BY <1>1, <1>2, LocalBodyType
<1>4. bi \in Nat \ {0} /\ bc \in Nat /\ next = bi + bc /\ bout \in Seq(Unit)
  BY <1>1 DEF AP!TypeOK, CallIsOfThePlan
<1>5. target.ckType \in ChecksumTypes
  <2>1. rh[2] \in Unit /\ IsHeader(rh[2])
    <3>1. rh \in Seq(Unit) /\ 2 \in 1 .. Len(rh)
      BY <1>2 DEF Published, BodyOffset, LeadLen, HeaderSize
    <3> QED BY <1>2, <3>1, ElementOfSeq DEF Published
  <2> QED BY <2>1 DEF target, ChecksumTypes
<1>6. ProperIndex(target)
  BY <1>2, TargetIsProper
<1>7. /\ Len(plan) \in Nat /\ DOMAIN plan = 1 .. Len(plan)
      /\ DOMAIN target.chunks = DOMAIN plan /\ Len(target.chunks) = Len(plan)
      /\ \A n \in DOMAIN plan :
           /\ plan[n].length \in Nat /\ plan[n].offset \in Nat
           /\ plan[n].length = target.chunks[n].compLength
  <2>1. /\ DOMAIN target.chunks = 1 .. Len(target.chunks) /\ Len(target.chunks) \in Nat
        /\ \A n \in DOMAIN target.chunks : target.chunks[n].compLength \in Nat
    BY <1>6 DEF ProperIndex
  <2>2. /\ DOMAIN plan = 1 .. Len(target.chunks) /\ Len(plan) = Len(target.chunks)
        /\ \A n \in DOMAIN target.chunks :
             plan[n].offset \in Nat /\ plan[n].length = target.chunks[n].compLength
    BY <1>2, <1>6, PlanTypes DEF plan
  <2> HIDE DEF plan, target
  <2> QED BY <2>1, <2>2
<1>8. bpc \in {"called", "launch", "loop", "split"} =>
        berr = "nil" /\ PcOfDownload = "body" /\ ErrOfDownload = err
  BY <1>1 DEF AP!CallInv, AP!BetweenChunks, PcOfDownload, ErrOfDownload, BodyDone, BodyLost
<1> QED BY <1>1, <1>2, <1>3, <1>4, <1>5, <1>7, <1>8

(* What a step of AssembleBody writes.                                      *)
LEMMA WritesGained ==
  ASSUME ConcurrentInv, StepOfBody
  PROVE  /\ pc = "body" /\ pc' = "body" /\ err' = err /\ BodyFrame
         /\ bout' = bout => disk' = disk
         /\ \A g \in Seq(Unit) : bout' = bout \o g => AppendOut(g)
<1>1. pc = "body" /\ pc' = "body" /\ err' = err /\ BodyFrame
      /\ AppendOut(SubSeq(bout', Len(bout) + 1, Len(bout')))
  BY DEF StepOfBody, BodyFrame
<1>2. bout \in Seq(Unit) /\ cmd.out \in Paths /\ disk \in [Paths -> Seq(Unit)]
  BY <1>1, CallState
<1>3. ASSUME NEW g \in Seq(Unit), bout' = bout \o g
      PROVE  AppendOut(g)
  BY <1>1, <1>2, <1>3, AppendedSuffix
<1>4. ASSUME bout' = bout
      PROVE  disk' = disk
  <2>1. bout' = bout \o <<>> /\ <<>> \in Seq(Unit)
    BY <1>2, <1>4, ConcatEmptySeq, EmptySeq
  <2>2. AppendOut(<<>>)
    BY <1>3, <2>1
  <2>3. disk[cmd.out] \o <<>> = disk[cmd.out]
    BY <1>2, ConcatEmptySeq
  <2> QED BY <1>2, <2>2, <2>3 DEF AppendOut
<1> QED BY <1>1, <1>3, <1>4

(* A step that does nothing to the stream.                                  *)
LEMMA BodyStutters ==
  ASSUME ConcurrentInv, StepOfBody, bout' = bout, bi' + bc' = bi + bc,
         berr' = berr, BodyDone' <=> BodyDone
  PROVE  UNCHANGED D!vars
<1>1. disk' = disk /\ pc' = pc /\ err' = err /\ BodyFrame /\ next' = next
  BY WritesGained, CallState DEF StepOfBody
<1>2. PcOfDownload' = PcOfDownload /\ ErrOfDownload' = ErrOfDownload
  BY <1>1 DEF PcOfDownload, ErrOfDownload, BodyLost
<1> QED BY <1>1, <1>2
        DEF BodyFrame, D!vars, D!callVars, D!bounds, callVars, bounds

(* verifyWriteChunk on what a source yields.                                *)
LEMMA ChunkIsVerified ==
  ASSUME ConcurrentInv, StepOfBody, PcOfDownload = "body", AtChunk,
         NEW data \in ChunkData, data \in Seq(Unit), Len(data) = plan[next].length
  PROVE  /\ AP!RejectChunk(next, data) /\ next' = next => D!BreakBody
         /\ AP!AcceptChunk(next, data) /\ next' = next + 1 => D!DeliverChunk
<1>1. /\ pc = "body" /\ pc' = "body" /\ err' = err /\ BodyFrame
      /\ bout' = bout => disk' = disk
      /\ \A g \in Seq(Unit) : bout' = bout \o g => AppendOut(g)
  BY WritesGained
<1>2. InBody
  BY <1>1, CallState DEF InBody, AtChunk
<1>3. AP!Verifies(next, data) <=> Genuine(data)
  BY <1>1, CallState, CallFacts DEF AP!Verifies, Genuine
<1>4. ASSUME AP!RejectChunk(next, data), next' = next
      PROVE  D!BreakBody
  <2>1. bpc' = "wait" /\ berr' # "nil"
    BY <1>4 DEF AP!RejectChunk, AP!Fail
  <2>2. PcOfDownload' = "abandon" /\ ErrOfDownload' = "body"
    BY <1>1, <2>1 DEF PcOfDownload, ErrOfDownload, BodyDone, BodyLost
  <2>3. CASE ~AP!Verifies(next, data) /\ bout' = bout
    BY <1>1, <1>2, <1>3, <1>4, <2>2, <2>3, BreaksBody
  <2>4. CASE /\ AP!Verifies(next, data) /\ call.faulty
             /\ \E m \in 0 .. Len(data) - 1 : bout' = bout \o SubSeq(data, 1, m)
    <3>1. PICK m \in 0 .. Len(data) - 1 : bout' = bout \o SubSeq(data, 1, m)
      BY <2>4
    <3>2. m \in 0 .. Len(data)
      BY <3>1, LenProperties
    <3>3. SubSeq(data, 1, m) \in Seq(Unit)
      BY <3>2, PrefixFacts
    <3>4. AppendOut(SubSeq(data, 1, m))
      BY <1>1, <3>1, <3>3
    <3>5. Faulty
      BY <1>1, <2>4, CallState DEF CallIsOfThePlan
    <3>6. WriteFails(data)
      BY <3>1, <3>4, <3>5 DEF WriteFails
    <3> QED BY <1>1, <1>2, <1>3, <1>4, <1>3, <2>2, <2>4, <3>6, BreaksBody
  <2> QED BY <1>4, <2>3, <2>4 DEF AP!RejectChunk
<1>5. ASSUME AP!AcceptChunk(next, data), next' = next + 1
      PROVE  D!DeliverChunk
  <2>1. bpc' = bpc /\ berr' = berr /\ AP!Verifies(next, data) /\ bout' = bout \o data
    BY <1>5 DEF AP!AcceptChunk
  <2>2. PcOfDownload' = "body" /\ ErrOfDownload' = ErrOfDownload
    BY <1>1, <2>1 DEF PcOfDownload, ErrOfDownload, BodyDone, BodyLost
  <2> QED BY <1>1, <1>2, <1>3, <1>5, <2>1, <2>2, DeliversChunk
<1> QED BY <1>4, <1>5

(* The loop over Sources skips an empty chunk.                              *)
LEMMA SkipEmptySteps ==
  ASSUME ConcurrentInv, StepOfBody, AP!SkipEmpty
  PROVE  D!SkipChunk
<1>1. /\ pc = "body" /\ pc' = "body" /\ err' = err /\ BodyFrame
      /\ bout' = bout => disk' = disk
  BY WritesGained
<1>2. /\ bpc = "loop" /\ bpc' = bpc /\ berr' = berr /\ bout' = bout
      /\ bi \in DOMAIN AP!plan /\ AP!plan[bi].length = 0 /\ bi' = bi + 1 /\ bc' = bc
  BY DEF AP!SkipEmpty, AP!AtChunk, AP!SourcesLeft
<1>3. bc = 0 /\ PcOfDownload = "body" /\ ErrOfDownload = err
      /\ bi \in Nat /\ next = bi + bc /\ AP!plan = plan
  BY <1>1, <1>2, CallState, CallFacts DEF AP!CallInv, AP!BetweenChunks
<1>4. PcOfDownload' = "body" /\ ErrOfDownload' = err'
  BY <1>1, <1>2, <1>3 DEF PcOfDownload, ErrOfDownload, BodyDone, BodyLost
<1>5. next = bi /\ next' = next + 1
  BY <1>2, <1>3 DEF StepOfBody
<1>6. next \in DOMAIN target.chunks /\ target.chunks[next].compLength = 0
  BY <1>1, <1>2, <1>3, <1>5, CallState
<1>7. D!Body = Body /\ D!Body' = Body' /\ Body' = Body /\ D!target = target /\ D!target' = target
  <2>1. target' = target /\ Body' = Body
    BY <1>1, <1>2 DEF BodyFrame, target, Body, BodyOf
  <2>2. D!Body' = Body' /\ D!target' = target'
    BY DEF D!Body, Body, D!BodyOf, BodyOf, D!target, target, D!BodyOffset, BodyOffset,
           D!LeadLen, LeadLen, D!HeaderSize, HeaderSize
  <2> QED BY <2>1, <2>2, SameBody
<1>8. D!Stream!SkipEmpty
  BY <1>3, <1>4, <1>5, <1>6, <1>7 DEF D!Stream!SkipEmpty, D!Stream!Open, D!Status
<1> QED BY <1>1, <1>2, <1>3, <1>4, <1>8
        DEF D!SkipChunk, BodyFrame, D!callVars, D!bounds, callVars, bounds

(* It copies a chunk from the local body, or fails to.                      *)
LEMMA CopyLocalSteps ==
  ASSUME ConcurrentInv, StepOfBody, AP!CopyLocal
  PROVE  D!BreakBody \/ D!DeliverChunk \/ UNCHANGED D!vars
<1>1. /\ pc = "body" /\ pc' = "body" /\ err' = err /\ BodyFrame
      /\ bout' = bout => disk' = disk
  BY WritesGained
<1>2. /\ bpc = "loop" /\ bi \in DOMAIN AP!plan /\ AP!plan[bi].length > 0
      /\ AP!plan[bi].local /\ bc' = bc
  BY DEF AP!CopyLocal, AP!AtChunk, AP!SourcesLeft
<1>3. bc = 0 /\ PcOfDownload = "body" /\ ErrOfDownload = err
      /\ bi \in Nat /\ next = bi + bc /\ AP!plan = plan
  BY <1>1, <1>2, CallState, CallFacts DEF AP!CallInv, AP!BetweenChunks
<1>0. CASE bpc' = "panic" /\ UNCHANGED <<bi, bwritten, berr, bout>>
  <2>1. bi' + bc' = bi + bc /\ (BodyDone' <=> BodyDone)
    BY <1>0, <1>2 DEF BodyDone
  <2> QED BY <1>0, <2>1, BodyStutters
<1>4. next = bi /\ next' = bi' /\ AtChunk /\ InBody
  <2>1. next = bi /\ next \in DOMAIN plan /\ plan[next].length > 0
    BY <1>2, <1>3
  <2>2. next' = bi' + bc' /\ bi' \in Nat /\ bc' = 0
    <3>1. AP!CallInv'
      <4>1. A!CallInv /\ (A!Main \/ \E k \in DOMAIN worker : A!Worker(k))
        BY <1>1 DEF ConcurrentInv, StepOfBody
      <4>2. A!CallInv'
        BY <4>1, CallStep
      <4>3. A!CallInv' <=> AP!CallInv'
        BY SameCall, PTL
      <4> QED BY <4>2, <4>3
    <3> QED BY <1>2, <1>3, <3>1 DEF StepOfBody, AP!CallInv, AP!TypeOK
  <2>3. next' = bi'
    <3>1. next' = bi' + 0
      BY <2>2
    <3>2. \A n \in Nat : n + 0 = n
      OBVIOUS
    <3> QED BY <2>2, <3>1, <3>2
  <2>4. AtChunk
    BY <2>1 DEF AtChunk
  <2>5. InBody
    <3> HIDE DEF plan, target
    <3> QED BY <1>1, <1>3, <2>1, <2>4, CallState DEF InBody
  <2> QED BY <2>1, <2>3, <2>4, <2>5
<1> DEFINE at   == Int64(plan[next].offset)
           copy == Slice(LocalBody, at, plan[next].length)
<1>5. ChunkData = {copy} /\ copy \in Seq(Unit)
  <2>1. at \in Int /\ plan[next].length \in Int /\ LocalBody \in Seq(Unit)
    <3>1. /\ plan[next].length \in Nat /\ plan[next].offset \in Nat
          /\ LocalBody \in Seq(Unit)
      <4>1. next \in DOMAIN plan
        BY <1>4 DEF AtChunk
      <4> HIDE DEF plan, LocalBody
      <4> QED BY <1>1, <4>1, CallState
    <3>2. at \in Int
      <4> DEFINE offset == plan[next].offset
      <4>1. offset \in Int
        BY <3>1
      <4> HIDE DEF offset
      <4>2. Int64(offset) \in Int
        BY <4>1, Int64Type
      <4> QED BY <4>2, Zenon DEF offset
    <3> HIDE DEF plan, LocalBody, at
    <3> QED BY <3>1, <3>2
  <2>2. copy \in Seq(Unit)
    <3> HIDE DEF at
    <3> QED BY <2>1, SliceType
  <2>3. plan[next].local
    BY <1>2, <1>3, <1>4
  <2> QED BY <2>2, <2>3, Zenon DEF ChunkData
<1>6. SUFFICES ASSUME
        NEW data \in AP!LocalReads,
        \/ /\ Len(data) # plan[next].length
           /\ AP!Fail("local read")
           /\ UNCHANGED <<bi, bout, bwritten>>
        \/ /\ Len(data) = plan[next].length
           /\ AP!RejectChunk(next, data)
           /\ UNCHANGED bi
        \/ /\ Len(data) = plan[next].length
           /\ AP!AcceptChunk(next, data)
           /\ bi' = bi + 1
      PROVE D!BreakBody \/ D!DeliverChunk
  BY <1>0, <1>3, <1>4 DEF AP!CopyLocal
<1>7. data = copy \/ (Faulty /\ data = <<>>)
  <2>1. AP!LocalReads = {copy} \cup (IF Faulty THEN {<<>>} ELSE {})
    <3>1. call.localBodies = {LocalBody} /\ call.faulty = Faulty
      BY <1>1, CallState DEF CallIsOfThePlan
    <3> HIDE DEF plan, LocalBody
    <3> QED BY <1>3, <1>4, <3>1
            DEF AP!LocalReads, AP!Slice, Slice, AP!Int64, Int64, AP!Uint64, Uint64
  <2> QED BY <2>1
<1> HIDE DEF copy
<1>8. CASE /\ Len(data) # plan[next].length
           /\ AP!Fail("local read")
           /\ UNCHANGED <<bi, bout, bwritten>>
  <2>1. PcOfDownload' = "abandon" /\ ErrOfDownload' = "body"
    BY <1>1, <1>8 DEF AP!Fail, PcOfDownload, ErrOfDownload, BodyDone, BodyLost
  <2>2. Faulty \/ \E d \in ChunkData : ~Genuine(d)
    BY <1>5, <1>7, <1>8 DEF Genuine
  <2> QED BY <1>1, <1>4, <1>8, <2>1, <2>2, BreaksBody
<1>9. CASE data = copy
  BY <1>3, <1>4, <1>5, <1>6, <1>8, <1>9, ChunkIsVerified
<1>10. CASE data = <<>> /\ Len(data) = plan[next].length
  BY <1>10, <1>4, CallState, EmptySeq DEF AtChunk
<1> QED BY <1>6, <1>7, <1>8, <1>9, <1>10

(* It waits for a run, whose error ends the body.                           *)
LEMMA AwaitRunSteps ==
  ASSUME ConcurrentInv, StepOfBody, AP!AwaitRun
  PROVE  D!BreakBody \/ UNCHANGED D!vars
<1>1. /\ pc = "body" /\ pc' = "body" /\ err' = err /\ BodyFrame
      /\ bout' = bout => disk' = disk
  BY WritesGained
<1>2. /\ bpc = "loop" /\ bi \in DOMAIN AP!plan /\ AP!plan[bi].length > 0
      /\ ~AP!plan[bi].local /\ bi' = bi /\ bout' = bout
      /\ AP!ReadyClosed(AP!RunAt(bi))
  BY DEF AP!AwaitRun, AP!AtChunk, AP!SourcesLeft
<1>3. bc = 0 /\ PcOfDownload = "body" /\ ErrOfDownload = err
      /\ bi \in Nat /\ next = bi + bc /\ AP!plan = plan /\ AP!Runs = RunStarts(plan)
  BY <1>1, <1>2, CallState, CallFacts DEF AP!CallInv, AP!BetweenChunks
<1>4. bi \in AP!Runs /\ AP!RunAt(bi) = bi
  <2>1. AP!Remote(AP!plan, bi)
    BY <1>2 DEF AP!Remote
  <2>2. bi \in AP!Runs
    BY <1>1, <1>2, <2>1, CallState DEF AP!CallInv, AP!BetweenChunks
  <2> QED BY <2>2 DEF AP!RunAt
<1>5. next = bi /\ AtChunk /\ InBody /\ next \in RunStarts(plan)
  <2>1. next = bi /\ next \in DOMAIN plan /\ plan[next].length > 0
    BY <1>2, <1>3
  <2> QED BY <1>1, <1>3, <1>4, <2>1, CallState DEF AtChunk, InBody
<1>6. CASE results[bi].err /\ AP!Fail("fetch") /\ UNCHANGED <<brun, bc, bpos>>
  <2>1. PcOfDownload' = "abandon" /\ ErrOfDownload' = "body"
    BY <1>1, <1>6 DEF AP!Fail, PcOfDownload, ErrOfDownload, BodyDone, BodyLost
  <2>2. worker[next] \in {"fetched", "ready", "released", "done"}
    BY <1>2, <1>4, <1>5 DEF AP!ReadyClosed, AP!Settled
  <2>3. Faulty \/ \E a \in RunAnswers(next) : Len(a) # RemoteRun(plan, next).length
    BY <1>1, <1>5, <1>6, <2>2, CallState DEF ResultsAreAnswers
  <2>4. next' = next
    BY <1>2, <1>3, <1>6 DEF StepOfBody
  <2> QED BY <1>1, <1>2, <1>5, <2>1, <2>3, <2>4, BreaksBody
<1>7. CASE bpc' = "split" /\ bc' = 0 /\ UNCHANGED berr
  <2>1. bi' + bc' = bi + bc /\ (BodyDone' <=> BodyDone)
    BY <1>2, <1>3, <1>7 DEF BodyDone
  <2> QED BY <1>2, <1>7, <2>1, BodyStutters
<1> QED BY <1>4, <1>6, <1>7 DEF AP!AwaitRun

(* What is cut out of a run's bytes is the chunk's part of an answer to its *)
(* request.                                                                 *)
LEMMA CutOutOfAnAnswer ==
  ASSUME ConcurrentInv, pc = "body", bpc = "split",
         bc < AP!RemoteRun(AP!plan, brun).count
  PROVE  LET data == SubSeq(results[brun].data, bpos + 1, bpos + plan[next].length)
         IN  /\ AtChunk /\ next = bi + bc
             /\ AP!Int64(bpos + plan[next].length) = bpos + plan[next].length
             /\ bpos + plan[next].length <= Len(results[brun].data)
             /\ data \in ChunkData /\ data \in Seq(Unit)
             /\ Len(data) = plan[next].length
<1> DEFINE length == plan[next].length
           answer == results[brun].data
           data   == SubSeq(answer, bpos + 1, bpos + length)
<1>1. /\ AP!CallInv /\ AP!TypeOK /\ CallIsOfThePlan /\ ResultsAreAnswers
      /\ bi \in Nat \ {0} /\ bc \in Nat /\ next = bi + bc
      /\ Len(plan) \in Nat /\ DOMAIN plan = 1 .. Len(plan)
  <2> HIDE DEF plan
  <2> QED BY CallState
<1>2. /\ AP!plan = plan /\ AP!Runs = RunStarts(plan) /\ AP!Offs = Offsets(Lengths(plan))
      /\ \A k : AP!RemoteRun(AP!plan, k) = RemoteRun(plan, k)
  <2> HIDE DEF plan
  <2> QED BY <1>1, CallFacts
<1>11. Fits(Lengths(plan)) /\ \A n \in DOMAIN plan : plan[n].length \in Nat
  <2>1. Published(rh) /\ ProperIndex(loc.index)
    BY DEF ConcurrentInv, CommandAtWork, ReadyToWrite
  <2>2. Lengths(plan) = CompLengths(target) /\ Fits(CompLengths(target))
    BY <2>1, TargetIsProper, PlanTypes DEF plan
  <2> HIDE DEF plan
  <2> QED BY <2>2, CallState
<1> HIDE DEF plan
<1>3. /\ brun = bi /\ brun \in RunStarts(plan) /\ next \in DOMAIN plan
      /\ length \in Nat /\ length > 0 /\ Remote(plan, next)
      /\ AP!Int64(bpos + length) = bpos + length
      /\ bpos + length <= Len(answer)
  <2>1. /\ brun = bi /\ brun \in AP!Runs /\ next \in DOMAIN AP!plan
        /\ AP!plan[next].length \in Nat /\ AP!plan[next].length > 0
        /\ AP!Remote(AP!plan, next)
        /\ ~AP!Overflows(AP!RunLength(AP!plan, brun)) =>
             /\ AP!Int64(bpos + AP!plan[next].length) = bpos + AP!plan[next].length
             /\ bpos + AP!plan[next].length <= Len(answer)
    BY <1>1, CallAssumptions, AP!SplitInRange
  <2>2. ~AP!Overflows(AP!RunLength(AP!plan, brun))
    <3>1. AP!RunLength(plan, brun) = RunLength(plan, brun)
      BY DEF AP!RunLength, AP!Offsets, AP!Lengths, AP!RunEnd, AP!RunChunks, AP!Remote,
             RunLength, Offsets, Lengths, RunEnd, RunChunks, Remote
    <3>2. RunLength(plan, brun) \in Int /\ 2 * RunLength(plan, brun) < Word
      <4>1. brun \in RunStarts(plan)
        BY <1>2, <2>1
      <4>2. 2 * RunLength(plan, brun) < Word
        BY <1>1, <1>11, <4>1, RunLengthFits
      <4>3. RunLength(plan, brun) \in Int
        BY <1>1, <1>11, <4>1, RunLengthFits DEF RunLength
      <4> QED BY <4>2, <4>3
    <3> DEFINE n == RunLength(plan, brun)
    <3>3. n \in Int /\ 2 * n < Word
      BY <3>2
    <3> HIDE DEF n
    <3>4. ~AP!Overflows(n)
      BY <3>3, WordAssumption DEF AP!Overflows
    <3> QED BY <1>2, <3>1, <3>4 DEF n
  <2> QED BY <1>2, <2>1, <2>2 DEF AP!Remote, Remote
<1>4. bpos \in Nat /\ bpos = Offsets(Lengths(plan))[next] - Offsets(Lengths(plan))[brun]
  <2>1. bpos \in Nat /\ bpos = AP!Offs[brun + bc] - AP!Offs[brun]
    BY <1>1 DEF AP!CallInv, AP!TypeOK, AP!InsideRun
  <2> QED BY <1>1, <1>2, <1>3, <2>1
<1>5. /\ ~results[brun].err /\ answer \in Seq(Unit)
      /\ Len(answer) = RemoteRun(plan, brun).length
      /\ worker[brun] \in {"ready", "released", "done"}
  <2>1. /\ ~results[brun].err /\ Len(answer) = AP!RemoteRun(AP!plan, brun).length
        /\ worker[brun] \in AP!Settled
    BY <1>1 DEF AP!CallInv, AP!SplitReadsASettledResult
  <2>2. answer \in Seq(Unit)
    BY <1>1, <1>2, <1>3 DEF AP!TypeOK
  <2> QED BY <1>2, <2>1, <2>2 DEF AP!Settled
<1>6. answer \in RunAnswers(brun)
  BY <1>1, <1>3, <1>5 DEF ResultsAreAnswers
<1>7. brun = CHOOSE r \in RunStarts(plan) : next \in RunChunks(plan, r)
  <2>1. next \in RunChunks(plan, brun)
    <3>1. AP!InsideRun /\ RemoteRun(plan, brun).count = RunEnd(plan, brun) - brun
      BY <1>1 DEF AP!CallInv, RemoteRun
    <3>2. bc < RunEnd(plan, brun) - brun
      BY <1>2, <3>1
    <3>3. brun \in 1 .. Len(plan) /\ RunEnd(plan, brun) \in brun + 1 .. Len(plan) + 1
      BY <1>1, <1>3, RunEndProperties
    <3>4. next \in brun .. RunEnd(plan, brun) - 1
      BY <1>1, <1>3, <3>2, <3>3
    <3> QED BY <1>1, <1>3, <3>4, RunChunksUpToEnd
  <2>2. \A r \in RunStarts(plan) : next \in RunChunks(plan, r) => r = brun
    BY <1>1, <1>3, <2>1, RunsAreDisjoint
  <2> QED BY <1>3, <2>1, <2>2
<1>8. Slice(answer, bpos, length) = data /\ data \in Seq(Unit) /\ Len(data) = length
  <2>1. /\ answer \in Seq(Unit) /\ bpos \in Nat /\ length \in Nat
        /\ bpos + length <= Len(answer)
    BY <1>3, <1>4, <1>5
  <2> HIDE DEF answer, length
  <2>2. /\ Slice(answer, bpos, length) = SubSeq(answer, bpos + 1, bpos + length)
        /\ Slice(answer, bpos, length) \in Seq(Unit)
        /\ Len(Slice(answer, bpos, length)) = length
    BY <2>1, SliceInside
  <2> QED BY <2>2
<1>9. data \in ChunkData
  <2>1. ~plan[next].local
    BY <1>3 DEF Remote
  <2>2. ChunkData =
          {Slice(a, Offsets(Lengths(plan))[next] - Offsets(Lengths(plan))[brun], length) :
             a \in {b \in RunAnswers(brun) : Len(b) = RemoteRun(plan, brun).length}}
    <3> DEFINE s == CHOOSE r \in RunStarts(plan) : next \in RunChunks(plan, r)
    <3>1. ChunkData =
            {Slice(a, Offsets(Lengths(plan))[next] - Offsets(Lengths(plan))[s], length) :
               a \in {b \in RunAnswers(s) : Len(b) = RemoteRun(plan, s).length}}
      BY <2>1 DEF ChunkData
    <3>2. s = brun
      BY <1>7
    <3> HIDE DEF s
    <3> QED BY <3>1, <3>2
  <2> HIDE DEF data, answer, length
  <2> QED BY <1>4, <1>5, <1>6, <1>8, <2>2
<1>10. AtChunk
  BY <1>3 DEF AtChunk
<1> QED BY <1>1, <1>3, <1>8, <1>9, <1>10

(* It cuts a chunk out of a run and verifies it.                            *)
LEMMA SplitRunSteps ==
  ASSUME ConcurrentInv, StepOfBody, AP!SplitRun
  PROVE  D!BreakBody \/ D!DeliverChunk
<1> DEFINE data == SubSeq(results[brun].data, bpos + 1, bpos + plan[next].length)
<1>1. pc = "body" /\ bpc = "split" /\ bc < AP!RemoteRun(AP!plan, brun).count
      /\ next' = bi' + bc' /\ bi' = bi
  BY DEF StepOfBody, AP!SplitRun
<1>2. /\ AtChunk /\ next = bi + bc /\ bi \in Nat /\ bc \in Nat
      /\ AP!Int64(bpos + plan[next].length) = bpos + plan[next].length
      /\ bpos + plan[next].length <= Len(results[brun].data)
      /\ data \in ChunkData /\ data \in Seq(Unit) /\ Len(data) = plan[next].length
      /\ AP!plan = plan /\ PcOfDownload = "body"
  <2> HIDE DEF plan
  <2> QED BY <1>1, CutOutOfAnAnswer, CallState, CallFacts
<1>3. \/ AP!RejectChunk(next, data) /\ UNCHANGED bc
      \/ AP!AcceptChunk(next, data) /\ bc' = bc + 1
  <2> HIDE DEF plan
  <2> DEFINE bytes == results[brun].data
             high  == bpos + plan[next].length
  <2>1. bpos \in Nat /\ plan[next].length \in Nat /\ bytes \in Seq(Unit)
    <3>1. AP!TypeOK /\ AP!CallInv /\ plan[next].length \in Nat
      BY <1>1, <1>2, CallState DEF AtChunk
    <3>2. results[brun].data \in Seq(Unit)
      BY <1>1, <3>1 DEF AP!TypeOK, AP!CallInv, AP!SplitReadsASettledResult
    <3> QED BY <3>1, <3>2 DEF AP!TypeOK
  <2>2. high \in Nat /\ high >= bpos /\ high <= Len(bytes) /\ Len(bytes) \in Nat
    BY <1>2, <2>1, LenProperties
  <2>3. ~(high < bpos \/ high > Len(bytes))
    <3> HIDE DEF high, bytes
    <3> QED BY <2>1, <2>2
  <2>4. \/ high < bpos \/ high > Len(bytes)
        \/ \E d \in AP!Sliced(bytes, bpos, high) :
             \/ AP!RejectChunk(next, d) /\ UNCHANGED bc
             \/ AP!AcceptChunk(next, d) /\ bc' = bc + 1
    BY <1>2 DEF AP!SplitRun
  <2>5. \A d \in AP!Sliced(bytes, bpos, high) : d = SubSeq(bytes, bpos + 1, high)
    <3> HIDE DEF high, bytes
    <3> QED BY <2>1, <2>2, CallAssumptions, AP!SlicedInside
  <2>6. data = SubSeq(bytes, bpos + 1, high)
    OBVIOUS
  <2> HIDE DEF data, bytes, high
  <2> QED BY <2>3, <2>4, <2>5, <2>6, Zenon
<1> HIDE DEF data
<1>4. CASE AP!RejectChunk(next, data) /\ UNCHANGED bc
  <2>1. next' = next
    BY <1>1, <1>2, <1>4
  <2> QED BY <1>2, <1>4, <2>1, ChunkIsVerified
<1>5. CASE AP!AcceptChunk(next, data) /\ bc' = bc + 1
  <2>1. next' = next + 1
    BY <1>1, <1>2, <1>5
  <2> QED BY <1>2, <1>5, <2>1, ChunkIsVerified
<1> QED BY <1>3, <1>4, <1>5

(* The steps of AssembleBody that the stream does not show.                 *)
LEMMA HiddenSteps ==
  ASSUME ConcurrentInv, StepOfBody,
         \/ AP!Validate \/ AP!Launch \/ AP!NextAfterRun \/ AP!Return
         \/ \E k \in DOMAIN worker : AP!Worker(k)
  PROVE  UNCHANGED D!vars
<1>1. pc = "body" /\ pc' = "body"
  BY WritesGained
<1>2. /\ AP!CallInv /\ CallIsOfThePlan /\ bi \in Nat /\ bc \in Nat
      /\ AP!target = target /\ target.ckType \in ChecksumTypes
      /\ AP!BetweenChunks
  <2> HIDE DEF plan, target
  <2> QED BY <1>1, CallState, CallFacts DEF AP!CallInv
<1>3. CASE AP!Validate
  <2>1. bpc = "called" /\ bpc' = "launch" /\ berr' = berr
        /\ bout' = bout /\ bi' = bi /\ bc' = bc
    BY <1>2, <1>3 DEF AP!Validate
  <2>2. BodyDone' <=> BodyDone
    BY <2>1 DEF BodyDone
  <2> QED BY <2>1, <2>2, BodyStutters
<1>4. CASE AP!Launch
  <2>1. bpc = "launch" /\ bpc' \in {"launch", "loop"} /\ berr' = berr
        /\ bout' = bout /\ bi' = bi /\ bc' = bc
    BY <1>4 DEF AP!Launch
  <2>2. BodyDone' <=> BodyDone
    BY <2>1 DEF BodyDone
  <2> QED BY <2>1, <2>2, BodyStutters
<1>5. CASE AP!NextAfterRun
  <2>1. bpc = "split" /\ bpc' = "loop" /\ berr' = berr /\ bout' = bout
        /\ bc = AP!Advance /\ bi' = bi + AP!Advance /\ bc' = 0
    BY <1>5 DEF AP!NextAfterRun, AP!Advance
  <2>2. bi' + bc' = bi + bc
    <3>1. bi' = bi + bc
      BY <2>1
    <3>2. bi + bc \in Nat
      BY <1>2
    <3>3. \A n \in Nat : n + 0 = n
      OBVIOUS
    <3> QED BY <2>1, <3>1, <3>2, <3>3
  <2>3. BodyDone' <=> BodyDone
    BY <2>1 DEF BodyDone
  <2> QED BY <2>1, <2>2, <2>3, BodyStutters
<1>6. CASE AP!Return
  <2>1. bpc = "wait" /\ bpc' = "returned" /\ berr' = berr
        /\ bout' = bout /\ bi' = bi /\ bc' = bc
    BY <1>6 DEF AP!Return
  <2>2. BodyDone' <=> BodyDone
    BY <1>1, <2>1 DEF BodyDone
  <2> QED BY <2>1, <2>2, BodyStutters
<1>7. CASE \E k \in DOMAIN worker : AP!Worker(k)
  <2>1. bpc' = bpc /\ berr' = berr /\ bout' = bout /\ bi' = bi /\ bc' = bc
    BY <1>7 DEF AP!Worker, AP!Acquire, AP!Fetch, AP!CloseReady, AP!Release,
                AP!WorkerDone, AP!Step, AP!mainVars
  <2>2. BodyDone' <=> BodyDone
    BY <1>1, <2>1 DEF BodyDone
  <2> QED BY <2>1, <2>2, BodyStutters
<1> QED BY <1>3, <1>4, <1>5, <1>6, <1>7

(* The end of the loop completes the stream, with the last chunk behind it. *)
LEMMA EndOfSourcesSteps ==
  ASSUME ConcurrentInv, StepOfBody, AP!EndOfSources
  PROVE  D!CompleteBody
<1>1. /\ pc = "body" /\ pc' = "body" /\ err' = err /\ BodyFrame
      /\ bout' = bout => disk' = disk
  BY WritesGained
<1>2. bpc = "loop" /\ bpc' = "wait" /\ berr' = berr /\ bout' = bout
      /\ bi' = bi /\ bc' = bc /\ bi \notin DOMAIN AP!plan
  BY DEF AP!EndOfSources, AP!SourcesLeft
<1>3. /\ berr = "nil" /\ PcOfDownload = "body" /\ ErrOfDownload = err
      /\ bi \in Nat \ {0} /\ bc \in Nat /\ next = bi + bc
      /\ AP!CallInv /\ CallIsOfThePlan
      /\ Len(plan) \in Nat /\ DOMAIN plan = 1 .. Len(plan)
      /\ Len(target.chunks) = Len(plan)
  <2> HIDE DEF plan, target
  <2> QED BY <1>1, <1>2, CallState
<1>4. AP!plan = plan /\ bc = 0 /\ bi <= Len(plan) + 1
  <2>1. AP!plan = plan
    BY <1>3, CallFacts
  <2> HIDE DEF plan
  <2> QED BY <1>2, <1>3, <2>1 DEF AP!CallInv, AP!BetweenChunks
<1>5. err = "nil"
  BY <1>1 DEF ConcurrentInv, ReadyToWrite
<1>6. next = Len(target.chunks) + 1 /\ next' = next
  <2>1. next' = bi' + bc'
    BY DEF StepOfBody
  <2> HIDE DEF plan, target
  <2> QED BY <1>2, <1>3, <1>4, <2>1
<1>7. PcOfDownload' = "check" /\ ErrOfDownload' = err
  BY <1>1, <1>2, <1>3 DEF PcOfDownload, ErrOfDownload, BodyDone, BodyLost
<1>8. D!Body' = D!Body /\ D!target = target /\ D!target' = D!target
  <2>1. disk' = disk /\ cmd' = cmd /\ rh' = rh
    BY <1>1, <1>2 DEF BodyFrame
  <2>2. D!Body' = D!Body /\ D!target' = D!target
    BY <2>1 DEF D!Body, D!BodyOf, D!target, D!BodyOffset, D!LeadLen, D!HeaderSize
  <2> QED BY <2>2, SameBody
<1>9. D!Stream!Complete
  <2> HIDE DEF target
  <2> QED BY <1>3, <1>5, <1>6, <1>7, <1>8 DEF D!Stream!Complete, D!Status
<1> QED BY <1>1, <1>2, <1>3, <1>6, <1>7, <1>9
        DEF D!CompleteBody, BodyFrame, D!callVars, D!bounds, callVars, bounds

(* Each step of AssembleBody is one of Download's, or does nothing to it.   *)
LEMMA BodyRefines ==
  ConcurrentInv /\ StepOfBody => D!Next \/ UNCHANGED D!vars
<1> SUFFICES ASSUME ConcurrentInv, StepOfBody
             PROVE  D!Next \/ UNCHANGED D!vars
  OBVIOUS
<1>1. AP!Main \/ \E k \in DOMAIN worker : AP!Worker(k)
  <2>1. A!Main \/ \E k \in DOMAIN worker : A!Worker(k)
    BY DEF StepOfBody
  <2> QED BY <2>1, SameMain, SameWorker
<1>2. D!SkipChunk \/ D!DeliverChunk \/ D!BreakBody \/ D!CompleteBody \/ UNCHANGED D!vars
  BY <1>1, HiddenSteps, SkipEmptySteps, CopyLocalSteps, AwaitRunSteps, SplitRunSteps,
     EndOfSourcesSteps DEF AP!Main
<1> QED BY <1>2 DEF D!Next, D!Process

(* The error of the body is passed on, as Download has it at once.          *)
LEMMA ReturnRefines ==
  BodyReturns => UNCHANGED D!vars
<1> SUFFICES ASSUME BodyReturns PROVE UNCHANGED D!vars
  OBVIOUS
<1>1. UNCHANGED <<disk, server, cmd, rh, next, report, callVars, bounds>>
  BY DEF BodyReturns
<1>2. CASE berr = "nil"
  <2>1. pc = "body" /\ bpc = "returned" /\ pc' = "check" /\ err' = err
    BY <1>2 DEF BodyReturns, AfterBody
  <2>2. PcOfDownload' = PcOfDownload /\ ErrOfDownload' = ErrOfDownload
    BY <1>2, <2>1 DEF PcOfDownload, ErrOfDownload, BodyDone, BodyLost
  <2> QED BY <1>1, <2>2 DEF D!vars, D!callVars, D!bounds, callVars, bounds
<1>3. CASE berr # "nil"
  <2>1. pc = "body" /\ bpc = "returned" /\ pc' = "abandon" /\ err' = "body"
    BY <1>3 DEF BodyReturns, AfterBody
  <2>2. PcOfDownload' = PcOfDownload /\ ErrOfDownload' = ErrOfDownload
    BY <1>3, <2>1 DEF PcOfDownload, ErrOfDownload, BodyDone, BodyLost
  <2> QED BY <1>1, <2>2 DEF D!vars, D!callVars, D!bounds, callVars, bounds
<1> QED BY <1>2, <1>3

(* The call itself comes with the header's being written.                   *)
LEMMA CallRefines ==
  CallAssembleBody => D!WriteHeader
<1> SUFFICES ASSUME CallAssembleBody PROVE D!WriteHeader
  OBVIOUS
<1>1. WriteHeader /\ pc = "plan" /\ (pc' = "body" => bpc' = "called" /\ berr' = "nil")
  BY DEF CallAssembleBody, WriteHeader
<1>2. PcOfDownload = pc /\ ErrOfDownload = err
  BY <1>1, OutsideTheBody
<1>3. PcOfDownload' = pc' /\ ErrOfDownload' = err'
  BY <1>1 DEF PcOfDownload, ErrOfDownload, BodyDone, BodyLost
<1> QED BY <1>1, <1>2, <1>3, SameWriteHeader

(* The surroundings act on both alike, also while a body is assembled.      *)
LEMMA KillRefines ==
  Kill => D!Kill
<1> SUFFICES ASSUME Kill PROVE D!Kill
  OBVIOUS
<1>1. pc \notin {"idle", "exited"} /\ pc' = "exited" /\ err' = "killed"
  BY DEF Kill, Running, Exit
<1>2. PcOfDownload \notin {"idle", "exited"}
  BY <1>1 DEF PcOfDownload
<1>3. PcOfDownload' = pc' /\ ErrOfDownload' = err'
  BY <1>1 DEF PcOfDownload, ErrOfDownload, BodyDone, BodyLost
<1> QED BY <1>1, <1>2, <1>3
        DEF Kill, D!Kill, D!Running, Exit, D!Exit, NoLocal, D!NoLocal, NilIndex, D!NilIndex

(* The server replaces its file.                                            *)
LEMMA RepublishRefines ==
  Republish /\ bpc' = bpc /\ berr' = berr => D!Republish
<1> SUFFICES ASSUME Republish, bpc' = bpc, berr' = berr PROVE D!Republish
  OBVIOUS
<1>1. pc' = pc /\ err' = err
  BY DEF Republish
<1>2. PcOfDownload' = PcOfDownload /\ ErrOfDownload' = ErrOfDownload
  BY <1>1 DEF PcOfDownload, ErrOfDownload, BodyDone, BodyLost
<1> QED BY <1>2 DEF Republish, D!Republish

(* The rest of the commands is the same in both.                            *)
LEMMA OtherStepsRefine ==
  ASSUME pc # "body", pc' # "body"
  PROVE  /\ \A c : Start(c) => D!Start(c)
         /\ \/ OpenLocal \/ Create \/ ReadFile \/ EmitHeader
            \/ ReadDetachedHeader \/ FetchLead \/ FetchHeader \/ Report
            \/ Abandon \/ CheckData \/ Close
            => D!Process
         /\ Finished => D!Finished
<1>1. PcOfDownload = pc /\ ErrOfDownload = err
  BY OutsideTheBody
<1>2. PcOfDownload' = pc' /\ ErrOfDownload' = err'
  BY DEF PcOfDownload, ErrOfDownload, BodyDone, BodyLost
<1> QED BY <1>1, <1>2, SameFiles, SameHeader, SameReport, SameEnd DEF D!Process

(* Each step of the commands with AssembleBody is one of Download's.        *)
LEMMA StepImplements ==
  ConcurrentInv /\ [ConcurrentNext]_allVars => [D!Next]_(D!vars)
<1> SUFFICES ASSUME ConcurrentInv, [ConcurrentNext]_allVars
             PROVE  D!Next \/ UNCHANGED D!vars
  OBVIOUS
<1>1. ASSUME NEW c \in Commands, Start(c) PROVE D!Next
  <2>1. pc # "body" /\ pc' # "body"
    BY <1>1 DEF Start, FirstStep
  <2> QED BY <1>1, <2>1, OtherStepsRefine DEF D!Next
<1>2. CASE \/ OpenLocal \/ Create \/ ReadFile \/ EmitHeader
           \/ ReadDetachedHeader \/ FetchLead \/ FetchHeader \/ Report
           \/ Abandon \/ CheckData \/ Close
  <2>1. pc # "body" /\ pc' # "body"
    BY <1>2 DEF OpenLocal, Create, ReadFile, EmitHeader, ReadDetachedHeader, FetchLead,
       FetchHeader, Report, Abandon, CheckData, Close, Exit, AfterLocal, RequestFails
  <2> QED BY <1>2, <2>1, OtherStepsRefine DEF D!Next
<1>3. CASE CallAssembleBody
  BY <1>3, CallRefines DEF D!Next, D!Process
<1>4. CASE StepOfBody
  BY <1>4, BodyRefines
<1>5. CASE BodyReturns
  BY <1>5, ReturnRefines
<1>6. CASE Kill
  BY <1>6, KillRefines DEF D!Next
<1>7. CASE Republish /\ bpc' = bpc /\ berr' = berr
  BY <1>7, RepublishRefines DEF D!Next
<1>8. CASE Finished
  <2>1. pc # "body" /\ pc' # "body"
    BY <1>8 DEF Finished, Running, vars
  <2> QED BY <1>8, <2>1, OtherStepsRefine DEF D!Next
<1>9. CASE UNCHANGED allVars
  <2>1. PcOfDownload' = PcOfDownload /\ ErrOfDownload' = ErrOfDownload
    BY <1>9 DEF allVars, vars, bodyVars, PcOfDownload, ErrOfDownload, BodyDone, BodyLost
  <2> QED BY <1>9, <2>1 DEF allVars, vars, callVars, bounds, D!vars, D!callVars, D!bounds
<1> QED BY <1>1, <1>2, <1>3, <1>4, <1>5, <1>6, <1>7, <1>8, <1>9
        DEF ConcurrentNext, ConcurrentProcess

(* They start alike.                                                        *)
LEMMA InitImplements ==
  ConcurrentInit => D!Init
<1> SUFFICES ASSUME ConcurrentInit PROVE D!Init
  OBVIOUS
<1>1. Init /\ pc = "idle" /\ err = "nil"
  BY DEF ConcurrentInit, Init
<1>2. PcOfDownload = pc /\ ErrOfDownload = err
  BY <1>1, OutsideTheBody
<1> QED BY <1>1, <1>2 DEF Init, D!Init, NoLocal, D!NoLocal, NilIndex, D!NilIndex,
        NoHeader, D!NoHeader, NoReport, D!NoReport

(* Whatever the goroutines of AssembleBody do, and in whatever order the    *)
(* server answers them and from whichever of its contents, the commands     *)
(* behave as Download says, where the body is a stream of verified chunks   *)
(* (remote.go:195-200, download.go:49-141).                                 *)
THEOREM ConcurrencyIsHidden == ConcurrentSpec => ImplementsDownload
BY ConcurrentInvariant, InitImplements, StepImplements, PTL
   DEF ConcurrentSpec, ImplementsDownload, D!Spec
=============================================================================

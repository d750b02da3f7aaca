-------------------------- MODULE DeltaFilesProofs --------------------------
(***************************************************************************)
(* Theorems about delta planning for every pair of files whatever their    *)
(* chunks: what is copied and what is fetched are the bytes of the target,  *)
(* and the range requests cover the chunks to fetch and no others.          *)
(***************************************************************************)
EXTENDS DeltaFiles, DeltaProofs, FiniteSetTheorems

----------------------------------------------------------------------------
(* The body of a file *)

(* An index describes the file it is made from.                             *)
LEMMA IndexOfFile ==
  ASSUME NEW file \in Seq(Blobs)
  PROVE  /\ Len(file) \in Nat /\ file \in Seq(Seq(Bytes))
         /\ ProperIndex(IndexOf(file))
         /\ Len(IndexOf(file).chunks) = Len(file)
         /\ DOMAIN IndexOf(file).chunks = 1 .. Len(file)
         /\ \A i \in 1 .. Len(file) :
              /\ IndexOf(file).chunks[i].digest = file[i]
              /\ IndexOf(file).chunks[i].compLength = Len(file[i])
              /\ file[i] \in Seq(Bytes) /\ Len(file[i]) \in Nat
<1>1. Len(file) \in Nat /\ file \in Seq(Seq(Bytes)) /\ DOMAIN file = 1 .. Len(file)
  <2>1. Seq(Blobs) \subseteq Seq(Seq(Bytes))
    BY BlobsAssumption
  <2> QED BY <2>1, LenProperties
<1>2. \A i \in 1 .. Len(file) : file[i] \in Seq(Bytes) /\ Len(file[i]) \in Nat
  <2> SUFFICES ASSUME NEW i \in 1 .. Len(file)
               PROVE  file[i] \in Seq(Bytes) /\ Len(file[i]) \in Nat
    OBVIOUS
  <2>1. file[i] \in Seq(Bytes)
    BY <1>1, ElementOfSeq
  <2> QED BY <2>1, LenProperties
<1> DEFINE chunks == [i \in DOMAIN file |-> [digest |-> file[i], compLength |-> Len(file[i])]]
<1>3. IndexOf(file).chunks = chunks
  BY DEF IndexOf
<1>4. DOMAIN chunks = 1 .. Len(file) /\ Len(chunks) = Len(file)
  BY <1>1
<1>5. \A i \in 1 .. Len(file) : chunks[i].digest = file[i] /\ chunks[i].compLength = Len(file[i])
  BY <1>1
<1> HIDE DEF chunks
<1> QED BY <1>1, <1>2, <1>3, <1>4, <1>5 DEF ProperIndex

(* The body of a file, by the offsets that planning computes.               *)
LEMMA BodyOfFile ==
  ASSUME NEW file \in Seq(Blobs)
  PROVE  LET off == Offsets(CompLengths(IndexOf(file)))
         IN  /\ off \in [1 .. Len(file) + 1 -> Nat]
             /\ \A i \in 1 .. Len(file) : off[i + 1] = off[i] + Len(file[i])
             /\ \A i \in 1 .. Len(file) + 1 : off[i] <= off[Len(file) + 1]
             /\ \A i \in 1 .. Len(file) + 1 : \A j \in i .. Len(file) + 1 : off[i] <= off[j]
             /\ Total(CompLengths(IndexOf(file))) = off[Len(file) + 1]
             /\ Body(file) \in Seq(Bytes) /\ Len(Body(file)) = off[Len(file) + 1]
             /\ \A i \in 1 .. Len(file) :
                  SubSeq(Body(file), off[i] + 1, off[i + 1]) = file[i]
<1> DEFINE idx == IndexOf(file)
           off == Offsets(CompLengths(idx))
<1>1. /\ Len(file) \in Nat /\ file \in Seq(Seq(Bytes)) /\ ProperIndex(idx)
      /\ Len(idx.chunks) = Len(file) /\ DOMAIN idx.chunks = 1 .. Len(file)
      /\ \A i \in 1 .. Len(file) : idx.chunks[i].compLength = Len(file[i])
  BY IndexOfFile
<1> HIDE DEF idx
<1>2. /\ off \in [1 .. Len(file) + 1 -> Nat] /\ off[1] = 0
      /\ \A i \in 1 .. Len(file) : off[i + 1] = off[i] + Len(file[i])
      /\ \A m \in 1 .. Len(file) + 1 : \A n \in m .. Len(file) + 1 : off[m] <= off[n]
      /\ Total(CompLengths(idx)) = off[Len(file) + 1]
  BY <1>1, IndexFacts
<1>3. \A i \in 1 .. Len(file) + 1 : off[i] <= off[Len(file) + 1]
  <2> SUFFICES ASSUME NEW i \in 1 .. Len(file) + 1 PROVE off[i] <= off[Len(file) + 1]
    OBVIOUS
  <2>1. Len(file) + 1 \in i .. Len(file) + 1
    BY <1>1
  <2> QED BY <1>2, <2>1
<1> HIDE DEF off
<1>4. /\ Body(file) \in Seq(Bytes) /\ Len(Body(file)) = off[Len(file) + 1]
      /\ \A i \in 1 .. Len(file) : SubSeq(Body(file), off[i] + 1, off[i + 1]) = file[i]
  BY <1>1, <1>2, BodyChunks DEF Body
<1> QED BY <1>2, <1>3, <1>4 DEF off, idx

(* Reading a chunk at its offset and at its length.                         *)
LEMMA ChunkReadBack ==
  ASSUME NEW file \in Seq(Blobs), NEW j \in 1 .. Len(file)
  PROVE  Slice(Body(file), Offsets(CompLengths(IndexOf(file)))[j], Len(file[j])) = file[j]
<1> DEFINE off == Offsets(CompLengths(IndexOf(file)))
           o   == off[j]
           l   == Len(file[j])
<1>1. Len(file) \in Nat /\ l \in Nat
  BY IndexOfFile
<1>2. /\ off \in [1 .. Len(file) + 1 -> Nat] /\ off[j + 1] = o + l
      /\ Body(file) \in Seq(Bytes)
      /\ \A i \in 1 .. Len(file) + 1 : off[i] <= Len(Body(file))
      /\ SubSeq(Body(file), o + 1, off[j + 1]) = file[j]
  BY BodyOfFile
<1>3. j \in 1 .. Len(file) + 1 /\ j + 1 \in 1 .. Len(file) + 1
  BY <1>1
<1>4. o \in Nat /\ o + l <= Len(Body(file))
  BY <1>2, <1>3
<1> HIDE DEF o, l, off
<1>5. Slice(Body(file), o, l) = SubSeq(Body(file), o + 1, o + l)
  BY <1>1, <1>2, <1>4, SliceInside
<1> QED BY <1>2, <1>5 DEF o, l, off

----------------------------------------------------------------------------
(* The plan of two files *)

(* A plan has a source of the right length for every chunk of the target.   *)
LEMMA PlanOfFiles ==
  ASSUME FilesAreChunks
  PROVE  /\ DOMAIN plan = 1 .. Len(target) /\ Len(plan) = Len(target) /\ Len(target) \in Nat
         /\ Lengths(plan) = CompLengths(IndexOf(target))
         /\ \A i \in 1 .. Len(target) :
              /\ plan[i] = Source(IndexOf(local), IndexOf(target), i)
              /\ plan[i].length = Len(target[i]) /\ Len(target[i]) \in Nat
<1>1. local \in Seq(Blobs) /\ target \in Seq(Blobs)
  BY DEF FilesAreChunks
<1> DEFINE from == IndexOf(local)
           to   == IndexOf(target)
<1>2. /\ ProperIndex(from) /\ ProperIndex(to) /\ Len(target) \in Nat
      /\ Len(to.chunks) = Len(target) /\ DOMAIN to.chunks = 1 .. Len(target)
      /\ \A i \in 1 .. Len(target) : /\ to.chunks[i].compLength = Len(target[i])
                                     /\ Len(target[i]) \in Nat
  BY <1>1, IndexOfFile
<1>3. plan = PlanDelta(from, to)
  BY DEF plan
<1> HIDE DEF from, to
<1>4. /\ DOMAIN PlanDelta(from, to) = 1 .. Len(to.chunks)
      /\ Len(PlanDelta(from, to)) = Len(to.chunks)
      /\ \A n \in DOMAIN to.chunks :
           /\ PlanDelta(from, to)[n] = Source(from, to, n)
           /\ PlanDelta(from, to)[n].length = to.chunks[n].compLength
      /\ Lengths(PlanDelta(from, to)) = CompLengths(to)
  BY <1>2, PlanTypes
<1>5. /\ DOMAIN plan = 1 .. Len(target) /\ Len(plan) = Len(target)
      /\ Lengths(plan) = CompLengths(to)
      /\ \A i \in 1 .. Len(target) : /\ plan[i] = Source(from, to, i)
                                     /\ plan[i].length = Len(target[i])
  BY <1>2, <1>3, <1>4
<1> QED BY <1>2, <1>5 DEF from, to

LEMMA ReuseReads ==
  ASSUME FilesAreChunks
  PROVE  ReuseReadsTheChunk
<1> DEFINE from == IndexOf(local)
           to   == IndexOf(target)
<1> SUFFICES ASSUME Fits(CompLengths(IndexOf(local))), NEW i \in DOMAIN plan, plan[i].local
             PROVE  Slice(Body(local), Int64(plan[i].offset), plan[i].length) = target[i]
  BY DEF ReuseReadsTheChunk
<1>1. local \in Seq(Blobs) /\ target \in Seq(Blobs)
  BY DEF FilesAreChunks
<1>2. /\ i \in 1 .. Len(target) /\ plan[i] = Source(from, to, i)
      /\ plan[i].length = Len(target[i]) /\ Len(target[i]) \in Nat
  BY PlanOfFiles
<1>3. /\ to.chunks[i].digest = target[i] /\ to.chunks[i].compLength = Len(target[i])
      /\ target[i] \in Seq(Bytes)
  BY <1>1, <1>2, IndexOfFile
<1>4. Body(local) \in Seq(Bytes) /\ Len(Body(local)) \in Nat
  BY <1>1, BodyOfFile, LenProperties
<1>5. CASE Len(target[i]) = 0
  <2>1. plan[i].offset = 0
    BY <1>2, <1>3, <1>5 DEF Source
  <2>2. Int64(0) = 0
    BY WordAssumption, Int64OfFitting
  <2>3. Slice(Body(local), 0, 0) = <<>>
    <3>1. 0 + 0 <= Len(Body(local)) /\ 0 \in Nat
      BY <1>4
    <3>2. Len(Slice(Body(local), 0, 0)) = 0 /\ Slice(Body(local), 0, 0) \in Seq(Bytes)
      BY <1>4, <3>1, SliceInside
    <3> QED BY <3>2, EmptySeq
  <2>4. target[i] = <<>>
    BY <1>3, <1>5, EmptySeq
  <2> QED BY <1>2, <1>5, <2>1, <2>2, <2>3, <2>4
<1>6. CASE Len(target[i]) # 0
  <2>1. /\ target[i] \in DOMAIN LocalOffsets(from)
        /\ plan[i].offset = LocalOffsets(from)[target[i]]
    <3> DEFINE e == to.chunks[i]
    <3>1. e.digest = target[i] /\ e.compLength # 0
      BY <1>3, <1>6
    <3> HIDE DEF from, to
    <3> DEFINE offsets == LocalOffsets(from)
               known   == e.digest \in DOMAIN offsets
               late    == ChunkOffset(to, i)
               length  == e.compLength
    <3>2. plan[i] = [local  |-> length = 0 \/ known,
                     offset |-> IF length = 0 THEN 0
                                ELSE IF known THEN offsets[e.digest] ELSE late,
                     length |-> length]
      BY <1>2, Zenon DEF Source
    <3> HIDE DEF offsets, known, late, length
    <3>3. length = 0 \/ known
      <4> DEFINE reused == length = 0 \/ known
      <4>1. plan[i].local = reused
        <5> DEFINE at == IF length = 0 THEN 0 ELSE IF known THEN offsets[e.digest] ELSE late
        <5>1. plan[i] = [local |-> reused, offset |-> at, length |-> length]
          BY <3>2
        <5> HIDE DEF reused, at
        <5> QED BY <5>1
      <4>2. reused
        <5> HIDE DEF reused
        <5> QED BY <4>1, Zenon
      <4> QED BY <4>2
    <3>4. plan[i].offset = IF length = 0 THEN 0 ELSE IF known THEN offsets[e.digest] ELSE late
      BY <3>2
    <3>5. known /\ length # 0
      BY <3>1, <3>3 DEF length
    <3>6. plan[i].offset = offsets[e.digest]
      BY <3>4, <3>5
    <3> QED BY <3>1, <3>5, <3>6 DEF known, offsets
  <2>2. ProperIndex(from) /\ DOMAIN from.chunks = 1 .. Len(local)
        /\ \A j \in 1 .. Len(local) : from.chunks[j].digest = local[j]
    BY <1>1, IndexOfFile
  <2> HIDE DEF from, to
  <2>3. PICK j \in NonEmpty(from) : /\ from.chunks[j].digest = target[i]
                                    /\ LocalOffsets(from)[target[i]] = ChunkOffset(from, j)
    BY <2>1, <2>2, LocalOffsetsFacts
  <2>4. j \in 1 .. Len(local) /\ j \in DOMAIN from.chunks /\ local[j] = target[i]
    BY <2>2, <2>3 DEF NonEmpty
  <2>5. Int64(plan[i].offset) = Offsets(CompLengths(from))[j]
    <3>1. Fits(CompLengths(from))
      BY DEF from
    <3> QED BY <2>1, <2>2, <2>3, <2>4, <3>1, OffsetFits
  <2>6. Slice(Body(local), Offsets(CompLengths(IndexOf(local)))[j], Len(local[j])) = local[j]
    BY <1>1, <2>4, ChunkReadBack
  <2> QED BY <1>2, <2>4, <2>5, <2>6 DEF from
<1> QED BY <1>5, <1>6

LEMMA RunsPartition ==
  ASSUME FilesAreChunks
  PROVE  RunsPartitionTheFetches
<1> DEFINE covered(s) == s .. RunEnd(plan, s) - 1
           Covering(i) == {s \in RunStarts(plan) : i \in covered(s)}
<1>1. DOMAIN plan = 1 .. Len(plan) /\ Len(plan) \in Nat
  BY PlanOfFiles
<1>2. ASSUME NEW i \in DOMAIN plan
      PROVE  Cardinality(Covering(i)) = IF Remote(plan, i) THEN 1 ELSE 0
  <2>1. CASE Remote(plan, i)
    <3>1. PICK s \in RunStarts(plan) : i \in RunChunks(plan, s)
      BY <1>1, <2>1, RunOfChunk
    <3>2. s \in Covering(i)
      BY <1>1, <3>1, RunChunksUpToEnd
    <3>3. \A t \in Covering(i) : t = s
      BY <1>1, <3>1, RunChunksUpToEnd, RunsAreDisjoint
    <3>4. Covering(i) = {s}
      <4> HIDE DEF Covering
      <4> QED BY <3>2, <3>3
    <3> QED BY <2>1, <3>4, FS_Singleton
  <2>2. CASE ~Remote(plan, i)
    <3>1. Covering(i) = {}
      BY <1>1, <2>2, RunEndProperties
    <3> QED BY <2>2, <3>1, FS_EmptySet
  <2> QED BY <2>1, <2>2
<1>3. ASSUME NEW s \in RunStarts(plan), NEW t \in RunStarts(plan)
      PROVE  RunEnd(plan, s) # t
  BY <1>1, RunEndProperties DEF RunStarts
<1> QED BY <1>2, <1>3 DEF RunsPartitionTheFetches

(* The chunks from s to before e are what lies between their offsets.       *)
LEMMA BytesOfChunks ==
  ASSUME NEW file \in Seq(Blobs), NEW s \in 1 .. Len(file), NEW e \in s + 1 .. Len(file) + 1
  PROVE  SubSeq(Body(file), Offsets(CompLengths(IndexOf(file)))[s] + 1,
                            Offsets(CompLengths(IndexOf(file)))[e])
           = Body(SubSeq(file, s, e - 1))
<1> DEFINE off  == Offsets(CompLengths(IndexOf(file)))
           body == Body(file)
           part == SubSeq(file, (s - 1) + 1, e - 1)
<1>1. Len(file) \in Nat /\ file \in Seq(Seq(Bytes)) /\ s \in Nat /\ e \in Nat
  BY IndexOfFile
<1>2. /\ off \in [1 .. Len(file) + 1 -> Nat]
      /\ \A i \in 1 .. Len(file) + 1 : off[i] <= Len(body)
      /\ \A i \in 1 .. Len(file) + 1 : \A j \in i .. Len(file) + 1 : off[i] <= off[j]
      /\ body \in Seq(Bytes) /\ Len(body) \in Nat
      /\ \A i \in 1 .. Len(file) : SubSeq(body, off[i] + 1, off[i + 1]) = file[i]
  BY BodyOfFile, LenProperties
<1> HIDE DEF off, body
<1>3. /\ part \in Seq(Seq(Bytes)) /\ Len(part) = e - s
      /\ \A k \in 1 .. e - s : part[k] = file[(s - 1) + k]
  <2>1. s - 1 \in 0 .. Len(file) /\ e - 1 \in s - 1 .. Len(file) /\ (e - 1) - (s - 1) = e - s
    BY <1>1
  <2>2. /\ part \in Seq(Seq(Bytes)) /\ Len(part) = (e - 1) - (s - 1)
        /\ \A k \in 1 .. (e - 1) - (s - 1) : part[k] = file[(s - 1) + k]
    <3> DEFINE a == s - 1
               b == e - 1
    <3>1. a \in 0 .. Len(file) /\ b \in a .. Len(file)
      BY <2>1
    <3>2. part = SubSeq(file, a + 1, b)
      OBVIOUS
    <3> HIDE DEF a, b, part
    <3>3. /\ SubSeq(file, a + 1, b) \in Seq(Seq(Bytes)) /\ Len(SubSeq(file, a + 1, b)) = b - a
          /\ \A k \in 1 .. b - a : SubSeq(file, a + 1, b)[k] = file[a + k]
      BY <1>1, <3>1, SubSeqFacts
    <3>4. /\ part \in Seq(Seq(Bytes)) /\ Len(part) = b - a
          /\ \A k \in 1 .. b - a : part[k] = file[a + k]
      BY <3>2, <3>3
    <3> QED BY <3>4 DEF a, b
  <2> HIDE DEF part
  <2> QED BY <2>1, <2>2
<1>4. Body(part) = Body(SubSeq(file, s, e - 1))
  <2>1. (s - 1) + 1 = s
    BY <1>1
  <2> QED BY <2>1
<1> HIDE DEF part
<1>5. part # <<>>
  BY <1>1, <1>3
<1>6. PICK g \in [1 .. Len(part) -> Seq(Bytes)] :
        /\ \A i \in 1 .. Len(part) : g[i] = IF i = 1 THEN part[i] ELSE g[i - 1] \o part[i]
        /\ FlattenSeq(part) = g[Len(part)]
  BY <1>3, <1>5, FlattenUnfold
<1> DEFINE Bad == {k \in 1 .. e - s : g[k] # SubSeq(body, off[s] + 1, off[s + k])}
<1>7. Bad = {}
  <2>1. SUFFICES ASSUME Bad # {} PROVE FALSE
    OBVIOUS
  <2>2. PICK k \in Bad : \A m \in Bad : k <= m
    <3>1. Bad \subseteq Nat
      BY <1>1
    <3> HIDE DEF Bad
    <3> QED BY <2>1, <3>1, NatMin
  <2>3. k \in 1 .. e - s /\ k \in Nat /\ g[k] # SubSeq(body, off[s] + 1, off[s + k])
    BY <1>1, <2>2
  <2>4. /\ s + k \in 1 .. Len(file) + 1 /\ (s - 1) + k \in 1 .. Len(file)
        /\ ((s - 1) + k) + 1 = s + k /\ s \in 1 .. Len(file) + 1
        /\ (s - 1) + k \in s .. Len(file) + 1 /\ s + k \in (s - 1) + k .. Len(file) + 1
    BY <1>1, <2>3
  <2>5. part[k] = SubSeq(body, off[(s - 1) + k] + 1, off[s + k])
    <3>1. SubSeq(body, off[(s - 1) + k] + 1, off[((s - 1) + k) + 1]) = file[(s - 1) + k]
      BY <1>2, <2>4
    <3> QED BY <1>3, <2>3, <2>4, <3>1
  <2>6. CASE k = 1
    <3>1. g[1] = part[1] /\ (s - 1) + k = s
      BY <1>1, <1>3, <1>6, <2>3, <2>6
    <3> QED BY <2>3, <2>5, <2>6, <3>1
  <2>7. CASE k # 1
    <3>1. k - 1 \in 1 .. e - s /\ ~(k <= k - 1) /\ s + (k - 1) = (s - 1) + k
      BY <1>1, <2>3, <2>7
    <3>2. g[k - 1] = SubSeq(body, off[s] + 1, off[(s - 1) + k])
      <4>1. k - 1 \notin Bad
        <5> HIDE DEF Bad
        <5> QED BY <2>2, <3>1
      <4>2. g[k - 1] = SubSeq(body, off[s] + 1, off[s + (k - 1)])
        BY <3>1, <4>1
      <4> QED BY <3>1, <4>2
    <3>3. g[k] = g[k - 1] \o part[k]
      BY <1>3, <1>6, <2>3, <2>7
    <3> DEFINE a == off[s]
               b == off[(s - 1) + k]
               c == off[s + k]
    <3>4. /\ a \in Nat /\ b \in Nat /\ c \in Nat
          /\ a <= b /\ b <= c /\ c <= Len(body) /\ b <= Len(body)
      <4>1. a \in Nat /\ b \in Nat /\ c \in Nat
        <5> DEFINE m == (s - 1) + k
                   n == s + k
        <5>1. m \in 1 .. Len(file) + 1 /\ n \in 1 .. Len(file) + 1 /\ s \in 1 .. Len(file) + 1
          BY <1>1, <2>4
        <5> HIDE DEF m, n
        <5>2. off[m] \in Nat /\ off[n] \in Nat /\ off[s] \in Nat
          BY <1>2, <5>1
        <5> QED BY <5>2 DEF m, n
      <4>2. a <= b /\ b <= c
        BY <1>2, <2>4
      <4>3. c <= Len(body)
        BY <1>2, <2>4
      <4> HIDE DEF a, b, c
      <4> QED BY <1>2, <4>1, <4>2, <4>3
    <3>5. SubSeq(body, a + 1, b) \o SubSeq(body, b + 1, c) = SubSeq(body, a + 1, c)
      <4> HIDE DEF a, b, c
      <4>1. a + 1 \in 1 .. Len(body) + 1 /\ b \in (a + 1) - 1 .. Len(body) /\ c \in b .. Len(body)
        BY <1>2, <3>4
      <4> QED BY <1>2, <4>1, ConcatAdjacentSubSeq
    <3> QED BY <2>3, <2>5, <3>2, <3>3, <3>5
  <2> QED BY <2>6, <2>7
<1>8. e - s \in 1 .. e - s /\ s + (e - s) = e
  BY <1>1
<1>9. g[e - s] = SubSeq(body, off[s] + 1, off[e])
  <2>1. g[e - s] = SubSeq(body, off[s] + 1, off[s + (e - s)])
    BY <1>7, <1>8
  <2> QED BY <1>8, <2>1
<1> QED BY <1>3, <1>4, <1>6, <1>9 DEF Body, off, body

LEMMA RunReads ==
  ASSUME FilesAreChunks
  PROVE  RunReadsItsChunks
<1> SUFFICES ASSUME Fits(Lengths(plan)), NEW s \in RunStarts(plan)
             PROVE  Slice(Body(target), RemoteRun(plan, s).offset, RemoteRun(plan, s).length)
                      = Body(SubSeq(target, s, s + RemoteRun(plan, s).count - 1))
  BY DEF RunReadsItsChunks
<1> DEFINE to  == IndexOf(target)
           off == Offsets(CompLengths(to))
           e   == RunEnd(plan, s)
<1>1. target \in Seq(Blobs) /\ ProperIndex(to) /\ DOMAIN to.chunks = 1 .. Len(target)
      /\ \A i \in 1 .. Len(target) : to.chunks[i].compLength = Len(target[i])
  BY IndexOfFile DEF FilesAreChunks
<1>2. /\ DOMAIN plan = 1 .. Len(target) /\ Len(plan) = Len(target) /\ Len(target) \in Nat
      /\ Lengths(plan) = CompLengths(to)
      /\ \A i \in 1 .. Len(target) :
           /\ plan[i] = Source(IndexOf(local), to, i)
           /\ plan[i].length = Len(target[i]) /\ plan[i].length \in Nat
  BY PlanOfFiles
<1>3. s \in 1 .. Len(target) /\ e \in s + 1 .. Len(target) + 1 /\ e \in 1 .. Len(target) + 1
      /\ s \in 1 .. Len(target) + 1 /\ e \in s .. Len(target) + 1
  <2>1. s \in 1 .. Len(plan) /\ e \in s + 1 .. Len(plan) + 1
    BY <1>2, RunEndProperties
  <2> QED BY <1>2, <2>1
<1>4. RemoteRun(plan, s).count = e - s /\ s + (e - s) - 1 = e - 1
  BY <1>2, <1>3 DEF RemoteRun
<1>5. RemoteRun(plan, s).length = off[e] - off[s]
  <2>1. RemoteRun(plan, s).length
          = Offsets(Lengths(plan))[RunEnd(plan, s)] - Offsets(Lengths(plan))[s]
    BY <1>2, RunLengthFits
  <2> QED BY <1>2, <2>1
<1>6. RemoteRun(plan, s).offset = off[s]
  <2>1. ~plan[s].local /\ plan[s].length > 0
    BY DEF RunStarts, Remote
  <2>2. plan[s].offset = ChunkOffset(to, s)
    <3>1. to.chunks[s].compLength # 0 /\ plan[s] = Source(IndexOf(local), to, s)
      BY <1>1, <1>2, <1>3, <2>1
    <3> DEFINE offsets == LocalOffsets(IndexOf(local))
               known   == to.chunks[s].digest \in DOMAIN offsets
               length  == to.chunks[s].compLength
               reused  == length = 0 \/ known
               at      == ChunkOffset(to, s)
               old     == offsets[to.chunks[s].digest]
    <3>2. plan[s] = [local  |-> reused,
                     offset |-> IF length = 0 THEN 0 ELSE IF known THEN old ELSE at,
                     length |-> length]
      BY <3>1, Zenon DEF Source
    <3> HIDE DEF offsets, known, length, at, old, to
    <3>3. plan[s].local = reused
      <4> DEFINE o == IF length = 0 THEN 0 ELSE IF known THEN old ELSE at
      <4>1. plan[s] = [local |-> reused, offset |-> o, length |-> length]
        BY <3>2
      <4> HIDE DEF reused, o
      <4> QED BY <4>1
    <3>4. ~reused
      <4> HIDE DEF reused
      <4> QED BY <2>1, <3>3, Zenon
    <3>5. plan[s].offset = IF length = 0 THEN 0 ELSE IF known THEN old ELSE at
      <4> HIDE DEF reused
      <4> QED BY <3>2
    <3>6. plan[s].offset = at
      BY <3>4, <3>5
    <3> QED BY <3>6 DEF at
  <2>3. Int64(ChunkOffset(to, s)) = off[s]
    <3>1. s \in DOMAIN to.chunks /\ Fits(CompLengths(to))
      BY <1>1, <1>2, <1>3
    <3> HIDE DEF to
    <3> QED BY <1>1, <3>1, OffsetFits
  <2>4. RemoteRun(plan, s).offset = Int64(plan[s].offset)
    BY DEF RemoteRun
  <2> QED BY <2>2, <2>3, <2>4
<1>7. SubSeq(Body(target), off[s] + 1, off[e]) = Body(SubSeq(target, s, e - 1))
  BY <1>1, <1>3, BytesOfChunks
<1>8. /\ off \in [1 .. Len(target) + 1 -> Nat] /\ off[s] <= off[e]
      /\ Body(target) \in Seq(Bytes) /\ off[e] <= Len(Body(target))
  BY <1>1, <1>3, BodyOfFile
<1>9. off[s] \in Nat /\ off[e] \in Nat
  BY <1>3, <1>8
<1> DEFINE a == off[s]
           b == off[e]
<1>10. Slice(Body(target), a, b - a) = SubSeq(Body(target), a + 1, b)
  <2>1. a \in Nat /\ b \in Nat /\ a <= b /\ b <= Len(Body(target))
    BY <1>8, <1>9
  <2> HIDE DEF a, b
  <2>2. b - a \in Nat /\ a + (b - a) = b
    BY <2>1
  <2>3. Slice(Body(target), a, b - a) = SubSeq(Body(target), a + 1, a + (b - a))
    BY <1>8, <2>1, <2>2, SliceInside
  <2> QED BY <2>2, <2>3
<1> HIDE DEF off, e
<1> QED BY <1>4, <1>5, <1>6, <1>7, <1>10

----------------------------------------------------------------------------
(* What delta-size reports *)

(* A chunk is to be fetched when it is not empty and no chunk of the local  *)
(* file is the same.                                                        *)
LEMMA FetchesAreMissing ==
  ASSUME FilesAreChunks
  PROVE  Fetches(plan) = {i \in DOMAIN target : target[i] # <<>> /\ target[i] \notin Range(local)}
<1> DEFINE from == IndexOf(local)
           to   == IndexOf(target)
           Digests == {from.chunks[j].digest : j \in NonEmpty(from)}
           missing == {i \in DOMAIN target : target[i] # <<>> /\ target[i] \notin Range(local)}
<1>1. local \in Seq(Blobs) /\ target \in Seq(Blobs)
  BY DEF FilesAreChunks
<1>2. /\ DOMAIN local = 1 .. Len(local) /\ DOMAIN from.chunks = 1 .. Len(local)
      /\ \A j \in 1 .. Len(local) :
           /\ from.chunks[j].digest = local[j] /\ from.chunks[j].compLength = Len(local[j])
           /\ local[j] \in Seq(Bytes) /\ Len(local[j]) \in Nat
  BY <1>1, IndexOfFile, LenProperties
<1>3. /\ DOMAIN target = 1 .. Len(target)
      /\ \A i \in 1 .. Len(target) :
           /\ to.chunks[i].digest = target[i] /\ to.chunks[i].compLength = Len(target[i])
           /\ target[i] \in Seq(Bytes) /\ Len(target[i]) \in Nat
  BY <1>1, IndexOfFile, LenProperties
<1>4. DOMAIN plan = 1 .. Len(target) /\ \A i \in 1 .. Len(target) : plan[i] = Source(from, to, i)
  BY PlanOfFiles
<1>5. DOMAIN LocalOffsets(from) = Digests
  <2> HIDE DEF from
  <2> QED BY DEF LocalOffsets
<1> HIDE DEF from, to
<1>6. ASSUME NEW i \in 1 .. Len(target), target[i] # <<>>
      PROVE  target[i] \in Digests <=> target[i] \in Range(local)
  <2>1. \A s \in Seq(Bytes) : s # <<>> <=> Len(s) # 0
    BY EmptySeq
  <2>2. NonEmpty(from) = {j \in 1 .. Len(local) : Len(local[j]) > 0}
    BY <1>2 DEF NonEmpty
  <2>3. Range(local) = {local[j] : j \in 1 .. Len(local)}
    BY <1>2 DEF Range
  <2>4. ASSUME target[i] \in Digests PROVE target[i] \in Range(local)
    <3>1. PICK j \in NonEmpty(from) : target[i] = from.chunks[j].digest
      BY <2>4
    <3> QED BY <1>2, <2>2, <2>3, <3>1
  <2>5. ASSUME target[i] \in Range(local) PROVE target[i] \in Digests
    <3>1. PICK j \in 1 .. Len(local) : target[i] = local[j]
      BY <2>3, <2>5
    <3>2. Len(local[j]) # 0 /\ Len(local[j]) \in Nat
      BY <1>2, <1>6, <2>1, <3>1
    <3>3. j \in NonEmpty(from) /\ from.chunks[j].digest = target[i]
      BY <1>2, <2>2, <3>1, <3>2
    <3> QED BY <3>3
  <2> QED BY <2>4, <2>5
<1>7. ASSUME NEW i \in 1 .. Len(target)
      PROVE  plan[i].local <=> (target[i] = <<>> \/ target[i] \in Digests)
  <2> DEFINE known == to.chunks[i].digest \in DOMAIN LocalOffsets(from)
             empty == to.chunks[i].compLength = 0
  <2>1. Source(from, to, i).local = (empty \/ known)
    BY DEF Source
  <2>2. empty <=> target[i] = <<>>
    BY <1>3, EmptySeq
  <2>3. known <=> target[i] \in Digests
    <3> HIDE DEF Digests
    <3> QED BY <1>3, <1>5
  <2> HIDE DEF empty, known, Digests
  <2> QED BY <1>4, <2>1, <2>2, <2>3
<1> HIDE DEF Digests
<1>8. \A i \in 1 .. Len(target) :
        ~plan[i].local <=> (target[i] # <<>> /\ target[i] \notin Range(local))
  BY <1>6, <1>7
<1> QED BY <1>3, <1>4, <1>8 DEF Fetches

(* What is counted and added up is right, whatever the lengths.             *)
LEMMA BytesAccounted ==
  ASSUME FilesAreChunks
  PROVE  BytesAccountedFor
<1> DEFINE missing == {i \in DOMAIN target : target[i] # <<>> /\ target[i] \notin Range(local)}
           sizes   == [i \in DOMAIN target |-> Len(target[i])]
           report  == DeltaSize(plan)
<1>1. local \in Seq(Blobs) /\ target \in Seq(Blobs)
  BY DEF FilesAreChunks
<1>2. Len(plan) = Len(target) /\ Lengths(plan) = CompLengths(IndexOf(target))
  BY PlanOfFiles
<1>3. ProperPlan(plan)
  <2>1. ProperIndex(IndexOf(local)) /\ ProperIndex(IndexOf(target))
    BY <1>1, IndexOfFile
  <2> QED BY <2>1, PlanIsProper DEF plan
<1>4. Lengths(plan) = sizes
  <2>1. DOMAIN IndexOf(target).chunks = 1 .. Len(target) /\ DOMAIN target = 1 .. Len(target)
        /\ \A i \in 1 .. Len(target) : IndexOf(target).chunks[i].compLength = Len(target[i])
    BY <1>1, IndexOfFile, LenProperties
  <2> QED BY <1>2, <2>1 DEF CompLengths
<1>5. Total(Lengths(plan)) = Len(Body(target))
  BY <1>1, <1>2, BodyOfFile
<1>6. Fetches(plan) = missing
  BY FetchesAreMissing
<1>7. /\ report.fetchChunks = Cardinality(Fetches(plan))
      /\ report.fetchChunks + report.reuseChunks = Len(plan)
  BY <1>3, CountsOfPlan
<1>8. /\ FetchBytes(plan) = Uint64(SumFunctionOnSet(Lengths(plan), Fetches(plan)))
      /\ Uint64(ReuseBytes(plan) + FetchBytes(plan)) = Uint64(Total(Lengths(plan)))
  BY <1>3, SumOverFacts
<1>9. FetchBytes(plan) = Uint64(Requested(plan))
  BY <1>3, RequestedIsFetched
<1>10. report.fetch = FetchBytes(plan) /\ report.total = Uint64(ReuseBytes(plan) + FetchBytes(plan))
  BY DEF DeltaSize
<1> HIDE DEF missing, sizes, report
<1>11. /\ report.fetchChunks = Cardinality(missing)
       /\ report.fetchChunks + report.reuseChunks = Len(target)
       /\ report.fetch = Uint64(SumFunctionOnSet(sizes, missing))
       /\ report.fetch = Uint64(Requested(plan))
       /\ report.total = Uint64(Len(Body(target)))
  BY <1>2, <1>4, <1>5, <1>6, <1>7, <1>8, <1>9, <1>10
<1> QED BY <1>11, Zenon DEF BytesAccountedFor, missing, sizes, report

----------------------------------------------------------------------------
(* The results *)

LEMMA AlwaysChunks ==
  Spec => []FilesAreChunks
<1>1. Init => FilesAreChunks
  BY DEF Init, FilesAreChunks
<1>2. FilesAreChunks /\ [Next]_vars => FilesAreChunks'
  <2> SUFFICES ASSUME FilesAreChunks, [Next]_vars PROVE FilesAreChunks'
    OBVIOUS
  <2>1. local \in Seq(Blobs) /\ target \in Seq(Blobs)
    BY DEF FilesAreChunks
  <2>2. CASE AddLocal
    <3>1. PICK b \in Blobs : local' = Append(local, b)
      BY <2>2 DEF AddLocal
    <3>2. local' \in Seq(Blobs)
      BY <2>1, <3>1, AppendProperties
    <3> QED BY <2>1, <2>2, <3>2 DEF AddLocal, FilesAreChunks
  <2>3. CASE AddTarget
    <3>1. PICK b \in Blobs : target' = Append(target, b)
      BY <2>3 DEF AddTarget
    <3>2. target' \in Seq(Blobs)
      BY <2>1, <3>1, AppendProperties
    <3> QED BY <2>1, <2>3, <3>2 DEF AddTarget, FilesAreChunks
  <2>4. CASE UNCHANGED vars
    BY <2>1, <2>4 DEF vars, FilesAreChunks
  <2> QED BY <2>2, <2>3, <2>4 DEF Next, Complete
<1> QED BY <1>1, <1>2, PTL DEF Spec

(* What a plan marks local is read from the local body at the planned       *)
(* offset, for files of any chunks (delta.go:42-54).                        *)
THEOREM ReuseIsRight ==
  Spec => []ReuseReadsTheChunk
BY AlwaysChunks, ReuseReads, PTL

(* The range requested for a run is the chunks of the run, back to back     *)
(* (download.go:143-161).                                                   *)
THEOREM RunsAreRight ==
  Spec => []RunReadsItsChunks
BY AlwaysChunks, RunReads, PTL

(* The runs of any plan cover every chunk to fetch once, no other chunk,    *)
(* and are never adjacent (download.go:143-161).                            *)
THEOREM RunsAreAPartition ==
  Spec => []RunsPartitionTheFetches
BY AlwaysChunks, RunsPartition, PTL

(* What delta-size adds up is what the requests ask for and the whole body, *)
(* for files of any chunks; sums that do not fit an uint64 wrap and nothing *)
(* else (delta.go:78-100).                                                  *)
THEOREM EveryByteIsAccountedFor ==
  Spec => []BytesAccountedFor
BY AlwaysChunks, BytesAccounted, PTL
=============================================================================

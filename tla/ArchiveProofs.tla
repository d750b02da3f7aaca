---------------------------- MODULE ArchiveProofs ----------------------------
(***************************************************************************)
(* Theorems about create, extract and gen-zdict for every content, every   *)
(* dictionary and every chunk size.                                        *)
(***************************************************************************)
EXTENDS Archive, SequenceLemmas

----------------------------------------------------------------------------
(* The content and its chunks *)

LEMMA OptionsFacts ==
  ASSUME CommandTypes
  PROVE  /\ input \in Seq(Byte) /\ Len(input) \in Nat
         /\ options.ct \in {"none", "zstd"} /\ options.dict \in Seq(Byte)
         /\ options.chunkSize \in Nat /\ options.chunkSize > 0
<1>1. options \in [ct : Compressions, dict : Dicts, chunkSize : ChunkSizes] /\ input \in Inputs
  BY DEF CommandTypes
<1>2. options.ct \in Compressions /\ options.dict \in Dicts /\ options.chunkSize \in ChunkSizes
  BY <1>1
<1>3. input \in Seq(Byte) /\ options.dict \in Seq(Byte)
  BY <1>1, <1>2, ArchiveAssumption
<1>4. options.chunkSize \in Nat /\ options.chunkSize > 0
  <2>1. options.chunkSize \in Nat \ {0}
    BY <1>2, ArchiveAssumption
  <2> QED BY <2>1
<1> QED BY <1>2, <1>3, <1>4, LenProperties DEF Compressions

(* Where the chunks of the input end.                                       *)
LEMMA UpToFacts ==
  ASSUME CommandTypes
  PROVE  /\ UpTo(0) = 0
         /\ \A n \in Nat : /\ UpTo(n) \in 0 .. Len(input) /\ UpTo(n + 1) \in UpTo(n) .. Len(input)
                           /\ n * options.chunkSize < Len(input) =>
                                UpTo(n) = n * options.chunkSize /\ UpTo(n) < UpTo(n + 1)
<1> DEFINE c == options.chunkSize
           m == Len(input)
<1>1. c \in Nat /\ c > 0 /\ m \in Nat
  BY OptionsFacts
<1>2. \A n : UpTo(n) = IF n * c < m THEN n * c ELSE m
  BY DEF UpTo
<1> HIDE DEF c, m
<1>3. UpTo(0) = 0
  BY <1>1, <1>2
<1>4. ASSUME NEW n \in Nat
      PROVE  /\ UpTo(n) \in 0 .. m /\ UpTo(n + 1) \in UpTo(n) .. m
             /\ n * c < m => UpTo(n) = n * c /\ UpTo(n) < UpTo(n + 1)
  <2>1. (n + 1) * c = n * c + c /\ n * c \in Nat
    BY <1>1
  <2> DEFINE d == n * c
             e == (n + 1) * c
  <2>2. /\ d \in Nat /\ e = d + c
        /\ UpTo(n) = IF d < m THEN d ELSE m
        /\ UpTo(n + 1) = IF e < m THEN e ELSE m
    BY <1>2, <2>1
  <2>3. /\ UpTo(n) \in 0 .. m /\ UpTo(n + 1) \in UpTo(n) .. m
        /\ d < m => UpTo(n) = d /\ UpTo(n) < UpTo(n + 1)
    <3> HIDE DEF d, e
    <3> QED BY <1>1, <2>2
  <2> QED BY <2>3
<1> QED BY <1>3, <1>4 DEF c, m

(* The chunks are parts of the content, and none of the input is empty.     *)
LEMMA ChunkFacts ==
  ASSUME CommandTypes
  PROVE  /\ Chunk(1) = options.dict /\ Chunk(1) \in Seq(Byte)
         /\ \A k \in Nat \ {0, 1} :
              /\ Chunk(k) = SubSeq(input, UpTo(k - 2) + 1, UpTo(k - 1))
              /\ Chunk(k) \in Seq(Byte) /\ Len(Chunk(k)) = UpTo(k - 1) - UpTo(k - 2)
              /\ (k - 2) * options.chunkSize < Len(input) => Chunk(k) # <<>>
<1>1. input \in Seq(Byte) /\ Len(input) \in Nat /\ options.dict \in Seq(Byte)
  BY OptionsFacts
<1>2. Chunk(1) = options.dict
  BY DEF Chunk
<1>3. ASSUME NEW k \in Nat \ {0, 1}
      PROVE  /\ Chunk(k) = SubSeq(input, UpTo(k - 2) + 1, UpTo(k - 1))
             /\ Chunk(k) \in Seq(Byte) /\ Len(Chunk(k)) = UpTo(k - 1) - UpTo(k - 2)
             /\ (k - 2) * options.chunkSize < Len(input) => Chunk(k) # <<>>
  <2>1. k - 2 \in Nat /\ (k - 2) + 1 = k - 1 /\ k # 1
    OBVIOUS
  <2> DEFINE a == UpTo(k - 2)
             b == UpTo(k - 1)
             less == (k - 2) * options.chunkSize < Len(input)
  <2>2. a \in 0 .. Len(input) /\ b \in a .. Len(input) /\ (less => a < b)
    <3>1. /\ UpTo(k - 2) \in 0 .. Len(input) /\ UpTo((k - 2) + 1) \in UpTo(k - 2) .. Len(input)
          /\ less => UpTo(k - 2) < UpTo((k - 2) + 1)
      BY <2>1, UpToFacts
    <3> QED BY <2>1, <3>1
  <2>3. Chunk(k) = SubSeq(input, a + 1, b)
    BY <2>1 DEF Chunk
  <2> HIDE DEF a, b, less
  <2>4. SubSeq(input, a + 1, b) \in Seq(Byte) /\ Len(SubSeq(input, a + 1, b)) = b - a
    BY <1>1, <2>2, SubSeqFacts
  <2>5. less => Len(SubSeq(input, a + 1, b)) # 0
    BY <1>1, <2>2, <2>4
  <2>6. less => Chunk(k) # <<>>
    BY <2>3, <2>5, EmptySeq
  <2> QED BY <2>3, <2>4, <2>6 DEF a, b, less
<1> QED BY <1>1, <1>2, <1>3

(* The chunks of the input, one after the other, are the input.             *)
LEMMA ContentOfChunks ==
  ASSUME CommandTypes
  PROVE  \A n \in Nat :
           FlattenSeq([k \in 1 .. n |-> Chunk(k + 1)]) = SubSeq(input, 1, UpTo(n))
<1> DEFINE Chunks(n) == [k \in 1 .. n |-> Chunk(k + 1)]
           Bad == {n \in Nat : FlattenSeq(Chunks(n)) # SubSeq(input, 1, UpTo(n))}
<1>1. SUFFICES ASSUME Bad # {} PROVE FALSE
  OBVIOUS
<1>2. PICK n \in Bad : \A m \in Bad : n <= m
  <2>1. Bad \subseteq Nat
    OBVIOUS
  <2> HIDE DEF Bad
  <2> QED BY <1>1, <2>1, NatMin
<1>3. n \in Nat /\ FlattenSeq(Chunks(n)) # SubSeq(input, 1, UpTo(n))
  BY <1>2
<1>4. input \in Seq(Byte) /\ Len(input) \in Nat
  BY OptionsFacts
<1>5. n # 0
  <2>1. Chunks(0) = <<>>
    OBVIOUS
  <2>2. FlattenSeq(<<>>) = <<>>
    BY EmptySeq DEF FlattenSeq
  <2>3. SubSeq(input, 1, UpTo(0)) = <<>>
    <3>1. UpTo(0) = 0
      BY UpToFacts
    <3> QED BY <3>1, SubSeqEmpty
  <2> HIDE DEF Chunks
  <2> QED BY <1>3, <2>1, <2>2, <2>3
<1>6. n - 1 \in Nat /\ ~(n <= n - 1) /\ (n - 1) + 1 = n
  BY <1>3, <1>5
<1>7. FlattenSeq(Chunks(n - 1)) = SubSeq(input, 1, UpTo(n - 1))
  <2>1. n - 1 \notin Bad
    <3> HIDE DEF Bad
    <3> QED BY <1>2, <1>6
  <2> HIDE DEF Chunks
  <2> QED BY <1>6, <2>1
<1>8. /\ n + 1 \in Nat \ {0, 1} /\ (n + 1) - 2 = n - 1 /\ (n + 1) - 1 = n
  BY <1>3, <1>5
<1>9. /\ Chunk(n + 1) = SubSeq(input, UpTo(n - 1) + 1, UpTo(n))
      /\ Chunk(n + 1) \in Seq(Byte)
  <2>1. /\ Chunk(n + 1) = SubSeq(input, UpTo((n + 1) - 2) + 1, UpTo((n + 1) - 1))
        /\ Chunk(n + 1) \in Seq(Byte)
    BY <1>8, ChunkFacts
  <2> QED BY <1>8, <2>1
<1>10. Chunks(n - 1) \in Seq(Seq(Byte)) /\ Chunks(n) = Append(Chunks(n - 1), Chunk(n + 1))
  <2>1. \A k \in 1 .. n - 1 : Chunk(k + 1) \in Seq(Byte)
    <3> SUFFICES ASSUME NEW k \in 1 .. n - 1 PROVE Chunk(k + 1) \in Seq(Byte)
      OBVIOUS
    <3>1. k + 1 \in Nat \ {0, 1}
      BY <1>3
    <3> QED BY <3>1, ChunkFacts
  <2>2. Chunks(n - 1) \in Seq(Seq(Byte)) /\ Len(Chunks(n - 1)) = n - 1
    BY <1>6, <2>1, IsASeq
  <2>3. Chunks(n) \in Seq(Seq(Byte)) /\ Len(Chunks(n)) = n
    <3>1. \A k \in 1 .. n : Chunk(k + 1) \in Seq(Byte)
      <4>1. \A k \in 1 .. n : k \in 1 .. n - 1 \/ k = n
        BY <1>3
      <4> QED BY <1>9, <2>1, <4>1
    <3> QED BY <1>3, <3>1, IsASeq
  <2>4. \A k \in 1 .. n - 1 : Chunks(n)[k] = Chunks(n - 1)[k]
    BY <1>3
  <2>5. n \in 1 .. n /\ Chunks(n)[n] = Chunk(n + 1)
    BY <1>3, <1>5
  <2> DEFINE old == Chunks(n - 1)
             new == Chunks(n)
  <2> HIDE DEF Chunks, old, new
  <2>6. new = Append(old, new[Len(old) + 1])
    <3>1. Len(new) = Len(old) + 1 /\ \A k \in 1 .. Len(old) : new[k] = old[k]
      BY <1>6, <2>2, <2>3, <2>4 DEF old, new
    <3> QED BY <2>2, <2>3, <3>1, OneMore DEF old, new
  <2> QED BY <1>6, <2>2, <2>5, <2>6 DEF old, new
<1>11. FlattenSeq(Chunks(n)) = SubSeq(input, 1, UpTo(n - 1)) \o SubSeq(input, UpTo(n - 1) + 1, UpTo(n))
  <2>1. FlattenSeq(Append(Chunks(n - 1), Chunk(n + 1))) = FlattenSeq(Chunks(n - 1)) \o Chunk(n + 1)
    <3> HIDE DEF Chunks
    <3> QED BY <1>9, <1>10, FlattenAppend
  <2> HIDE DEF Chunks
  <2> QED BY <1>7, <1>9, <1>10, <2>1
<1>12. SubSeq(input, 1, UpTo(n - 1)) \o SubSeq(input, UpTo(n - 1) + 1, UpTo(n)) = SubSeq(input, 1, UpTo(n))
  <2>1. UpTo(n - 1) \in 0 .. Len(input) /\ UpTo((n - 1) + 1) \in UpTo(n - 1) .. Len(input)
    BY <1>6, UpToFacts
  <2> DEFINE a == UpTo(n - 1)
             b == UpTo(n)
  <2>2. a \in 0 .. Len(input) /\ b \in a .. Len(input)
    BY <1>6, <2>1
  <2> HIDE DEF a, b
  <2>3. 1 \in 1 .. Len(input) + 1 /\ a \in 1 - 1 .. Len(input)
    BY <1>4, <2>2
  <2>4. SubSeq(input, 1, a) \o SubSeq(input, a + 1, b) = SubSeq(input, 1, b)
    BY <1>4, <2>2, <2>3, ConcatAdjacentSubSeq
  <2> QED BY <2>4 DEF a, b
<1> QED BY <1>3, <1>11, <1>12

----------------------------------------------------------------------------
(* The codec, the index and the body *)

(* What was compressed under a dictionary is decoded under it.              *)
LEMMA CodecFacts ==
  ASSUME NEW ct \in {"none", "zstd"}, NEW dict \in Seq(Byte), NEW plain \in Seq(Byte)
  PROVE  /\ Compress(ct, dict, plain) \in Seq(Units)
         /\ Compress(ct, dict, plain) = <<>> <=> plain = <<>>
         /\ Decode(ct, dict, Compress(ct, dict, plain)) = {Outcome(plain)}
<1> DEFINE n == Len(plain)
<1>1. /\ n \in Nat /\ DOMAIN plain = 1 .. n /\ \A k \in 1 .. n : plain[k] \in Byte
      /\ plain = [k \in 1 .. n |-> plain[k]] /\ (plain = <<>> <=> n = 0)
  BY LenProperties, ElementOfSeq, EmptySeq
<1>2. CASE ct = "none"
  <2> DEFINE comp == Stored(plain)
  <2>1. comp = [k \in 1 .. n |-> [frame |-> <<>>, at |-> plain[k]]]
    BY <1>1 DEF Stored
  <2>2. comp \in Seq(Units) /\ Len(comp) = n
    <3>1. \A k \in 1 .. n : [frame |-> <<>>, at |-> plain[k]] \in Units
      <4> SUFFICES ASSUME NEW k \in 1 .. n PROVE [frame |-> <<>>, at |-> plain[k]] \in Units
        OBVIOUS
      <4>1. plain[k] \in Nat
        <5>1. plain[k] \in Byte
          BY <1>1
        <5>2. Byte \subseteq Nat
          BY DEF Byte
        <5> QED BY <5>1, <5>2, Zenon
      <4>2. <<>> \in {<<>>} \cup (Seq(Byte) \X Seq(Byte))
        BY Zenon
      <4> QED BY <4>1, <4>2, Zenon DEF Units
    <3> QED BY <1>1, <2>1, <3>1, IsASeq
  <2>3. DOMAIN comp = 1 .. n /\ \A k \in 1 .. n : comp[k].at = plain[k]
    BY <2>1
  <2> HIDE DEF comp
  <2>4. [k \in DOMAIN comp |-> comp[k].at] = plain
    BY <1>1, <2>3
  <2>5. comp = <<>> <=> plain = <<>>
    BY <1>1, <2>2, EmptySeq
  <2>6. Compress(ct, dict, plain) = comp
    BY <1>2 DEF Compress, comp
  <2>7. Decode(ct, dict, comp) = {Outcome(plain)}
    BY <1>2, <2>4 DEF Decode
  <2> QED BY <2>2, <2>5, <2>6, <2>7
<1>3. CASE ct = "zstd" /\ plain = <<>>
  <2>1. Compress(ct, dict, plain) = <<>>
    BY <1>3 DEF Compress
  <2>2. Decode(ct, dict, <<>>) = {Outcome(<<>>)}
    BY <1>3 DEF Decode
  <2>3. <<>> \in Seq(Units)
    BY EmptySeq
  <2>4. Decode(ct, dict, Compress(ct, dict, plain)) = {Outcome(plain)}
    BY <1>3, <2>1, <2>2, Zenon
  <2> QED BY <1>3, <2>1, <2>3, <2>4, Zenon
<1>4. CASE ct = "zstd" /\ plain # <<>>
  <2> DEFINE comp == Frame(dict, plain)
  <2>1. comp = [k \in 1 .. n + 1 |-> [frame |-> <<dict, plain>>, at |-> k]]
    BY DEF Frame
  <2>2. comp \in Seq(Units) /\ Len(comp) = n + 1
    <3>1. \A k \in 1 .. n + 1 : [frame |-> <<dict, plain>>, at |-> k] \in Units
      BY <1>1 DEF Units
    <3>2. n + 1 \in Nat
      BY <1>1
    <3> QED BY <2>1, <3>1, <3>2, IsASeq
  <2>3. comp[1].frame = <<dict, plain>>
    <3>1. 1 \in 1 .. n + 1
      BY <1>1
    <3> QED BY <2>1, <3>1
  <2>4. comp # <<>>
    BY <1>1, <2>2, EmptySeq
  <2>5. Compress(ct, dict, plain) = comp
    BY <1>4 DEF Compress
  <2> DEFINE f == comp[1].frame
  <2>6. f # <<>> /\ f[1] = dict /\ f[2] = plain
    BY <2>3
  <2>7. comp = Frame(f[1], f[2])
    <3> HIDE DEF f
    <3> QED BY <2>6
  <2>8. Decode(ct, dict, comp) = {Outcome(plain)}
    <3>1. Decode(ct, dict, comp) = IF f # <<>> /\ comp = Frame(f[1], f[2]) /\ f[1] \in {<<>>, dict}
                                   THEN {Outcome(f[2])}
                                   ELSE {Broken, Garbage(Len(comp) - 1)}
      <4>1. ct # "none"
        BY <1>4
      <4> HIDE DEF comp
      <4> QED BY <2>4, <4>1 DEF Decode
    <3> HIDE DEF comp, f
    <3> QED BY <2>6, <2>7, <3>1
  <2> HIDE DEF comp
  <2> QED BY <1>4, <2>2, <2>4, <2>5, <2>8
<1> QED BY <1>2, <1>3, <1>4

(* How a chunk is coded and recorded.                                       *)
LEMMA CodedFacts ==
  ASSUME CommandTypes, NEW k \in Nat \ {0}
  PROVE  /\ Chunk(k) \in Seq(Byte) /\ Coded(k) \in Seq(Units) /\ Len(Coded(k)) \in Nat
         /\ Coded(k) = <<>> <=> Chunk(k) = <<>>
         /\ Decode(options.ct, DictOf(k), Coded(k)) = {Outcome(Chunk(k))}
         /\ Recorded(k) = [digest |-> IF k = 1 /\ options.dict = <<>> THEN <<>> ELSE Sum(Coded(k)),
                           compLength |-> Len(Coded(k)), length |-> Len(Chunk(k)), uDigest |-> <<>>]
<1>1. options.ct \in {"none", "zstd"} /\ options.dict \in Seq(Byte)
  BY OptionsFacts
<1>2. Chunk(k) \in Seq(Byte) /\ DictOf(k) \in Seq(Byte)
  <2>1. CASE k = 1
    BY <2>1, ChunkFacts DEF DictOf
  <2>2. CASE k # 1
    BY <1>1, <2>2, ChunkFacts DEF DictOf
  <2> QED BY <2>1, <2>2
<1>3. /\ Coded(k) \in Seq(Units) /\ (Coded(k) = <<>> <=> Chunk(k) = <<>>)
      /\ Decode(options.ct, DictOf(k), Coded(k)) = {Outcome(Chunk(k))}
  <2> DEFINE c == options.ct
             d == DictOf(k)
             p == Chunk(k)
  <2>1. c \in {"none", "zstd"} /\ d \in Seq(Byte) /\ p \in Seq(Byte)
    BY <1>1, <1>2
  <2> HIDE DEF c, d, p
  <2>2. /\ Compress(c, d, p) \in Seq(Units) /\ (Compress(c, d, p) = <<>> <=> p = <<>>)
        /\ Decode(c, d, Compress(c, d, p)) = {Outcome(p)}
    BY <2>1, CodecFacts
  <2> QED BY <2>2, Zenon DEF Coded, c, d, p
<1>4. Len(Coded(k)) \in Nat
  BY <1>3, LenProperties
<1>5. CASE k = 1 /\ options.dict = <<>>
  <2>1. Chunk(k) = <<>> /\ Coded(k) = <<>>
    BY <1>3, <1>5, ChunkFacts
  <2>2. Recorded(k) = [Entry(<<>>, <<>>) EXCEPT !.digest = <<>>]
    BY <1>5 DEF Recorded, ZeroDigest
  <2>3. Recorded(k) = [digest |-> <<>>, compLength |-> Len(<<>>), length |-> Len(<<>>),
                       uDigest |-> <<>>]
    BY <2>2 DEF Entry
  <2> QED BY <1>2, <1>3, <1>4, <1>5, <2>1, <2>3
<1>6. CASE ~(k = 1 /\ options.dict = <<>>)
  BY <1>2, <1>3, <1>4, <1>6 DEF Recorded, Entry
<1> QED BY <1>5, <1>6

(* The builder's index describes its body.                                  *)
LEMMA BodyFacts ==
  ASSUME CommandTypes, BuilderHoldsTheChunks
  PROVE  LET n == Len(builder.idx)
             at(k) == Begins(builder.idx, k)
         IN  /\ n \in Nat /\ DOMAIN builder.idx = 1 .. n
             /\ \A k \in 1 .. n : builder.idx[k] = Recorded(k)
             /\ builder.body \in Seq(Units) /\ Len(builder.body) = at(n + 1)
             /\ at(1) = 0 /\ \A k \in 1 .. n + 1 : at(k) \in Nat
             /\ \A k \in 1 .. n :
                  /\ at(k + 1) = at(k) + Len(Coded(k)) /\ at(k + 1) <= Len(builder.body)
                  /\ SubSeq(builder.body, at(k) + 1, at(k + 1)) = Coded(k)
<1> DEFINE n == Len(builder.idx)
           at(k) == Begins(builder.idx, k)
           lens == [j \in 1 .. n |-> Len(Coded(j))]
           parts == [j \in 1 .. n |-> Coded(j)]
<1>1. /\ n \in Nat /\ builder.idx = [k \in 1 .. n |-> Recorded(k)]
      /\ builder.body = FlattenSeq(parts)
  BY DEF BuilderHoldsTheChunks
<1>2. DOMAIN builder.idx = 1 .. n /\ \A k \in 1 .. n : builder.idx[k] = Recorded(k)
  <2> DEFINE idx == builder.idx
  <2>1. idx = [k \in 1 .. n |-> Recorded(k)]
    BY <1>1
  <2> HIDE DEF idx, n
  <2>2. DOMAIN idx = 1 .. n /\ \A k \in 1 .. n : idx[k] = Recorded(k)
    BY <2>1
  <2> QED BY <2>2 DEF idx
<1>3. \A k \in 1 .. n : Coded(k) \in Seq(Units) /\ Len(Coded(k)) \in Nat
                        /\ Recorded(k).compLength = Len(Coded(k))
  <2> SUFFICES ASSUME NEW k \in 1 .. n
               PROVE  Coded(k) \in Seq(Units) /\ Len(Coded(k)) \in Nat
                      /\ Recorded(k).compLength = Len(Coded(k))
    OBVIOUS
  <2>1. k \in Nat \ {0}
    BY <1>1
  <2> QED BY <2>1, CodedFacts
<1>4. [j \in DOMAIN builder.idx |-> builder.idx[j].compLength] = lens
  <2>1. \A j \in 1 .. n : builder.idx[j].compLength = Len(Coded(j))
    BY <1>2, <1>3
  <2> HIDE DEF n
  <2> QED BY <1>2, <2>1
<1> HIDE DEF n
<1>5. Len(lens) = n /\ \A k \in 1 .. n : lens[k] = Len(Coded(k)) /\ lens[k] \in Nat
  BY <1>1, <1>3, IsASeq
<1>6. parts \in Seq(Seq(Units)) /\ Len(parts) = n /\ \A k \in 1 .. n : parts[k] = Coded(k)
  <2>1. parts \in Seq(Seq(Units)) /\ Len(parts) = n
    BY <1>1, <1>3, IsASeq
  <2> QED BY <2>1
<1> HIDE DEF lens, parts
<1> DEFINE off == Offsets(lens)
<1>7. /\ off \in [1 .. n + 1 -> Nat]
      /\ \A k \in 1 .. n + 1 : off[k] = IF k = 1 THEN 0 ELSE off[k - 1] + lens[k - 1]
  BY <1>1, <1>5, OffsetsUnfold
<1>8. \A k : at(k) = off[k]
  BY <1>4 DEF Begins
<1> HIDE DEF off
<1>9. off[1] = 0 /\ \A k \in 1 .. n : off[k + 1] = off[k] + Len(Coded(k))
  <2>1. off[1] = 0
    <3>1. 1 \in 1 .. n + 1
      BY <1>1
    <3> QED BY <1>7, <3>1
  <2>2. ASSUME NEW k \in 1 .. n PROVE off[k + 1] = off[k] + Len(Coded(k))
    <3>1. k + 1 \in 1 .. n + 1 /\ k + 1 # 1 /\ (k + 1) - 1 = k
      BY <1>1
    <3> QED BY <1>5, <1>7, <3>1
  <2> QED BY <2>1, <2>2
<1>10. /\ FlattenSeq(parts) \in Seq(Units) /\ Len(FlattenSeq(parts)) = off[n + 1]
       /\ \A j \in 1 .. n : /\ SubSeq(FlattenSeq(parts), off[j] + 1, off[j + 1]) = parts[j]
                            /\ off[j + 1] <= off[n + 1]
  <2>1. off \in [1 .. Len(parts) + 1 -> Nat] /\ \A j \in 1 .. Len(parts) : off[j + 1] = off[j] + Len(parts[j])
    BY <1>6, <1>7, <1>9
  <2>2. /\ FlattenSeq(parts) \in Seq(Units) /\ Len(FlattenSeq(parts)) = off[Len(parts) + 1]
        /\ \A j \in 1 .. Len(parts) : /\ SubSeq(FlattenSeq(parts), off[j] + 1, off[j + 1]) = parts[j]
                                      /\ off[j + 1] <= off[Len(parts) + 1]
    BY <1>6, <1>9, <2>1, BodyChunks
  <2> QED BY <1>6, <2>2
<1>11. \A k \in 1 .. n + 1 : off[k] \in Nat
  BY <1>7
<1> HIDE DEF at
<1>12. /\ builder.body \in Seq(Units) /\ Len(builder.body) = at(n + 1)
       /\ \A k \in 1 .. n :
            /\ at(k + 1) = at(k) + Len(Coded(k)) /\ at(k + 1) <= Len(builder.body)
            /\ SubSeq(builder.body, at(k) + 1, at(k + 1)) = Coded(k)
  BY <1>1, <1>6, <1>8, <1>9, <1>10
<1>13. at(1) = 0 /\ \A k \in 1 .. n + 1 : at(k) \in Nat
  BY <1>8, <1>9, <1>11
<1> QED BY <1>1, <1>2, <1>12, <1>13 DEF at, n

----------------------------------------------------------------------------
(* What a step leaves alone *)

LEMMA ContentIsKept ==
  ASSUME UNCHANGED <<input, options>>
  PROVE  \A k : /\ UpTo(k)' = UpTo(k) /\ Chunk(k)' = Chunk(k) /\ DictOf(k)' = DictOf(k)
                /\ Coded(k)' = Coded(k) /\ Recorded(k)' = Recorded(k)
<1>1. \A k : UpTo(k)' = UpTo(k)
  BY DEF UpTo
<1>2. \A k : Chunk(k)' = Chunk(k)
  BY <1>1 DEF Chunk
<1>3. \A k : DictOf(k)' = DictOf(k)
  BY DEF DictOf
<1>4. \A k : Coded(k)' = Coded(k)
  BY <1>2, <1>3 DEF Coded
<1>5. \A k : Recorded(k)' = Recorded(k)
  BY <1>2, <1>4 DEF Recorded
<1> QED BY <1>1, <1>2, <1>3, <1>4, <1>5

(* After create, nothing changes the builder.                               *)
LEMMA BuilderIsKept ==
  ASSUME BuilderHoldsTheChunks, UNCHANGED <<input, options, taken, builder>>,
         pc' = pc \/ pc' \notin {"builder", "add", "write"}
  PROVE  BuilderHoldsTheChunks'
<1> DEFINE n == Len(builder.idx)
           entries == [k \in 1 .. n |-> Recorded(k)]
           parts == [k \in 1 .. n |-> Coded(k)]
<1>1. \A k : UpTo(k)' = UpTo(k) /\ Coded(k)' = Coded(k) /\ Recorded(k)' = Recorded(k)
  BY ContentIsKept
<1>2. n' = n /\ options' = options /\ input' = input /\ taken' = taken /\ builder' = builder
  OBVIOUS
<1>3. entries' = entries
  <2>1. entries' = [k \in 1 .. n |-> Recorded(k)']
    BY <1>2
  <2> QED BY <1>1, <2>1
<1>4. parts' = parts
  <2>1. parts' = [k \in 1 .. n |-> Coded(k)']
    BY <1>2
  <2> QED BY <1>1, <2>1
<1>5. /\ n \in Nat /\ builder.idx = entries /\ builder.body = FlattenSeq(parts)
      /\ \A k \in 2 .. n : (k - 2) * options.chunkSize < Len(input)
      /\ IF n = 0 THEN taken = 0 /\ pc # "add" /\ pc # "write"
         ELSE taken = UpTo(n - 1) /\ EncoderLoads(options.ct, options.dict) /\ pc # "builder"
      /\ pc = "add" => taken = (n - 1) * options.chunkSize
      /\ pc = "write" => taken = Len(input)
  BY DEF BuilderHoldsTheChunks
<1> HIDE DEF n, entries, parts
<1>6. /\ n' \in Nat /\ builder'.idx = entries' /\ builder'.body = FlattenSeq(parts')
      /\ \A k \in 2 .. n' : (k - 2) * options'.chunkSize < Len(input')
      /\ IF n' = 0 THEN taken' = 0 /\ pc' # "add" /\ pc' # "write"
         ELSE taken' = UpTo(n - 1)' /\ EncoderLoads(options'.ct, options'.dict) /\ pc' # "builder"
      /\ pc' = "add" => taken' = (n' - 1) * options'.chunkSize
      /\ pc' = "write" => taken' = Len(input')
  BY <1>1, <1>2, <1>3, <1>4, <1>5
<1> QED BY <1>6 DEF BuilderHoldsTheChunks, n, entries, parts

(* Nor the file, once it is read.                                           *)
LEMMA FileIsKept ==
  ASSUME FileIsTheBuilders, UNCHANGED <<input, options, taken, builder, file, damaged>>,
         pc' = pc \/ (pc' \notin {"builder", "add", "write"} /\ file.header) \/ pc' = "exited",
         command' # "create" \/ UNCHANGED <<command, pos, samples, out>>
  PROVE  FileIsTheBuilders'
<1>1. \A k : Chunk(k)' = Chunk(k) /\ Recorded(k)' = Recorded(k)
  BY ContentIsKept
<1>2. /\ DOMAIN file' = {"header", "idx", "body"}
      /\ pc' \in {"builder", "add", "write"} => ~file'.header
      /\ pc' \in {"chunk", "loaded"} => file'.header
      /\ command' = "create" => out' = Old /\ samples' = <<>> /\ pos' = 0
  BY DEF FileIsTheBuilders
<1>3. ASSUME file'.header
      PROVE  /\ taken' = Len(input') /\ builder'.idx # <<>>
             /\ Len(file'.idx) = Len(builder'.idx) /\ DOMAIN file'.idx = DOMAIN builder'.idx
             /\ file'.body \in Seq(Units)
             /\ damaged' = {} =>
                  \E n \in 0 .. Len(builder'.body) : file'.body = SubSeq(builder'.body, 1, n)
  BY <1>3 DEF FileIsTheBuilders
<1>4. ASSUME file'.header, "index" \notin damaged'
      PROVE  \A k \in DOMAIN file'.idx :
               \E u \in {<<>>, Sum(Chunk(k)')} : file'.idx[k] = [Recorded(k)' EXCEPT !.uDigest = u]
  <2>1. \A k \in DOMAIN file.idx :
          \E u \in {<<>>, Sum(Chunk(k))} : file.idx[k] = [Recorded(k) EXCEPT !.uDigest = u]
    BY <1>4 DEF FileIsTheBuilders
  <2> SUFFICES ASSUME NEW k \in DOMAIN file.idx
               PROVE  \E u \in {<<>>, Sum(Chunk(k)')} : file'.idx[k] = [Recorded(k)' EXCEPT !.uDigest = u]
    OBVIOUS
  <2>2. PICK u \in {<<>>, Sum(Chunk(k))} : file.idx[k] = [Recorded(k) EXCEPT !.uDigest = u]
    BY <2>1
  <2>3. Chunk(k)' = Chunk(k) /\ Recorded(k)' = Recorded(k) /\ file'.idx[k] = file.idx[k]
    BY <1>1
  <2> QED BY <2>2, <2>3
<1> QED BY <1>2, <1>3, <1>4 DEF FileIsTheBuilders

(* The conjuncts that say nothing of create.                                *)
LEMMA NothingIsReadYet ==
  ASSUME command' = "create", pc' \notin {"chunk", "loaded"}
  PROVE  /\ ChunksAreRead' /\ ChunksAreUsed' /\ ExtractedIsAPrefix' /\ ExtractedIsAll'
         /\ IntactFilesAreRead' /\ DictionaryIsOfTheContent'
<1>1. ChunksAreRead' /\ ChunksAreUsed'
  BY Zenon DEF ChunksAreRead, ChunksAreUsed
<1>2. ExtractedIsAPrefix' /\ ExtractedIsAll' /\ IntactFilesAreRead' /\ DictionaryIsOfTheContent'
  BY DEF ExtractedIsAPrefix, ExtractedIsAll, IntactFilesAreRead, DictionaryIsOfTheContent, Ended
<1> QED BY <1>1, <1>2

----------------------------------------------------------------------------
(* create *)

LEMMA InitIInv == Init => IInv
<1> SUFFICES ASSUME Init PROVE IInv
  OBVIOUS
<1>1. /\ input \in Inputs /\ options \in [ct : Compressions, dict : Dicts, chunkSize : ChunkSizes]
      /\ pc = "builder" /\ command = "create" /\ status = "none" /\ taken = 0
      /\ builder = [idx |-> <<>>, body |-> <<>>] /\ file = Nothing /\ damaged = {}
      /\ pos = 0 /\ samples = <<>> /\ out = Old
  BY DEF Init
<1>2. CommandTypes
  BY <1>1 DEF CommandTypes
<1>3. BuilderHoldsTheChunks
  <2> DEFINE n == Len(builder.idx)
  <2>1. n = 0 /\ builder.idx = <<>> /\ builder.body = <<>>
    BY <1>1
  <2>2. [k \in 1 .. 0 |-> Recorded(k)] = <<>> /\ [k \in 1 .. 0 |-> Coded(k)] = <<>>
    OBVIOUS
  <2>3. FlattenSeq(<<>>) = <<>>
    BY EmptySeq DEF FlattenSeq
  <2> HIDE DEF n
  <2>4. /\ n \in Nat /\ builder.idx = [k \in 1 .. n |-> Recorded(k)]
        /\ builder.body = FlattenSeq([k \in 1 .. n |-> Coded(k)])
        /\ \A k \in 2 .. n : (k - 2) * options.chunkSize < Len(input)
    BY <2>1, <2>2, <2>3
  <2> QED BY <1>1, <2>1, <2>4 DEF BuilderHoldsTheChunks, n
<1>4. FileIsTheBuilders
  <2>1. ~file.header /\ DOMAIN file = {"header", "idx", "body"}
    BY <1>1 DEF Nothing
  <2> QED BY <1>1, <2>1 DEF FileIsTheBuilders
<1>5. ChunksAreRead /\ ChunksAreUsed
  BY <1>1 DEF ChunksAreRead, ChunksAreUsed
<1>6. ExtractedIsAPrefix /\ ExtractedIsAll /\ IntactFilesAreRead /\ DictionaryIsOfTheContent
  BY <1>1 DEF ExtractedIsAPrefix, ExtractedIsAll, IntactFilesAreRead, DictionaryIsOfTheContent, Ended
<1> QED BY <1>2, <1>3, <1>4, <1>5, <1>6 DEF IInv

LEMMA NewBuilderIInv ==
  ASSUME IInv, NewBuilder
  PROVE  IInv'
<1>1. /\ pc = "builder" /\ UNCHANGED <<input, options, command, taken, file, damaged>>
      /\ UNCHANGED <<chunk, pos, bufs, data, samples, out>>
  BY DEF NewBuilder, reading
<1>2. CommandTypes /\ BuilderHoldsTheChunks /\ FileIsTheBuilders /\ command = "create"
  BY <1>1 DEF IInv, CommandTypes
<1>3. \/ pc' = "exited" /\ status' = "refused" /\ UNCHANGED builder
      \/ /\ pc' = "add" /\ UNCHANGED status /\ EncoderLoads(options.ct, options.dict)
         /\ builder' = IF options.dict = <<>>
                       THEN [idx |-> <<[Entry(<<>>, <<>>) EXCEPT !.digest = ZeroDigest]>>, body |-> <<>>]
                       ELSE [idx |-> <<Entry(Compress(options.ct, <<>>, options.dict), options.dict)>>,
                             body |-> Compress(options.ct, <<>>, options.dict)]
  BY DEF NewBuilder, Exit
<1>4. CommandTypes'
  BY <1>1, <1>2, <1>3 DEF CommandTypes
<1>5. FileIsTheBuilders'
  <2>1. ~file.header /\ DOMAIN file = {"header", "idx", "body"}
        /\ out = Old /\ samples = <<>> /\ pos = 0
    BY <1>1, <1>2 DEF FileIsTheBuilders
  <2> QED BY <1>1, <1>3, <2>1 DEF FileIsTheBuilders
<1>6. BuilderHoldsTheChunks'
  <2>1. CASE pc' = "exited" /\ UNCHANGED builder
    BY <1>1, <1>2, <2>1, BuilderIsKept
  <2>2. CASE pc' = "add"
    <3>1. /\ Coded(1) = Compress(options.ct, <<>>, options.dict) /\ Chunk(1) = options.dict
          /\ Coded(1) \in Seq(Units) /\ (Coded(1) = <<>> <=> Chunk(1) = <<>>)
      BY <1>2, CodedFacts, ChunkFacts DEF Coded, DictOf
    <3>2. builder'.idx = <<Recorded(1)>>
      BY <1>3, <2>2, <3>1 DEF Recorded
    <3>3. builder'.body = Coded(1)
      BY <1>3, <2>2, <3>1
    <3> DEFINE n == Len(builder.idx)
    <3>4. n' = 1
      BY <3>2
    <3>5. Recorded(1)' = Recorded(1) /\ Coded(1)' = Coded(1)
      BY <1>1, ContentIsKept
    <3>6. <<Recorded(1)>> = [k \in 1 .. 1 |-> Recorded(k)']
      BY <3>5
    <3>7. FlattenSeq([k \in 1 .. 1 |-> Coded(k)']) = Coded(1)
      <4>1. FlattenSeq(Append(<<>>, Coded(1))) = FlattenSeq(<<>>) \o Coded(1)
        BY <3>1, EmptySeq, FlattenAppend
      <4>2. Append(<<>>, Coded(1)) = [k \in 1 .. 1 |-> Coded(k)']
        <5>1. Append(<<>>, Coded(1)) = <<Coded(1)>>
          OBVIOUS
        <5> QED BY <3>5, <5>1
      <4>3. FlattenSeq(<<>>) = <<>>
        BY EmptySeq DEF FlattenSeq
      <4>4. <<>> \o Coded(1) = Coded(1)
        BY <3>1, ConcatEmptySeq
      <4> QED BY <4>1, <4>2, <4>3, <4>4
    <3>8. /\ taken' = 0 /\ UpTo(0)' = 0 /\ EncoderLoads(options'.ct, options'.dict)
      <4>1. taken = 0
        BY <1>1, <1>2 DEF BuilderHoldsTheChunks
      <4> QED BY <1>1, <1>2, <1>3, <2>2, <4>1, UpToFacts, ContentIsKept
    <3>9. (n' - 1) * options'.chunkSize = 0 /\ n' - 1 = 0 /\ n' # 0 /\ n' \in Nat
      <4>1. options'.chunkSize \in Nat
        BY <1>1, <1>2, OptionsFacts
      <4> HIDE DEF n
      <4> QED BY <3>4, <4>1
    <3>10. \A k \in 2 .. n' : (k - 2) * options'.chunkSize < Len(input')
      <4> HIDE DEF n
      <4> QED BY <3>4
    <3>11. builder'.idx = [k \in 1 .. n' |-> Recorded(k)'] /\ builder'.body = FlattenSeq([k \in 1 .. n' |-> Coded(k)'])
      <4> HIDE DEF n
      <4> QED BY <3>2, <3>3, <3>4, <3>6, <3>7
    <3>12. UpTo(n - 1)' = 0
      <4>1. UpTo(n - 1)' = IF (n' - 1) * options'.chunkSize < Len(input')
                           THEN (n' - 1) * options'.chunkSize ELSE Len(input')
        BY DEF UpTo
      <4>2. 0 < Len(input') \/ Len(input') = 0
        BY <1>1, <1>2, OptionsFacts
      <4> HIDE DEF n
      <4> QED BY <3>9, <4>1, <4>2
    <3> HIDE DEF n
    <3>13. /\ IF n' = 0 THEN taken' = 0 /\ pc' # "add" /\ pc' # "write"
              ELSE taken' = UpTo(n - 1)' /\ EncoderLoads(options'.ct, options'.dict) /\ pc' # "builder"
           /\ pc' = "add" => taken' = (n' - 1) * options'.chunkSize
           /\ pc' = "write" => taken' = Len(input')
      BY <2>2, <3>8, <3>9, <3>12
    <3> QED BY <3>9, <3>10, <3>11, <3>13 DEF BuilderHoldsTheChunks, n
  <2> QED BY <1>3, <2>1, <2>2
<1>7. command' = "create" /\ pc' \notin {"chunk", "loaded"}
  BY <1>1, <1>2, <1>3
<1> QED BY <1>4, <1>5, <1>6, <1>7, NothingIsReadYet DEF IInv

(* A pass of create's loop adds the next chunk of the input, or none.       *)
LEMMA AddChunkBuilds ==
  ASSUME CommandTypes, BuilderHoldsTheChunks, AddChunk
  PROVE  BuilderHoldsTheChunks'
<1> DEFINE n == Len(builder.idx)
           c == options.chunkSize
           len == Len(input)
           d == (n - 1) * c
           r == ReadFull
           plain == SubSeq(input, taken + 1, taken + r)
           comp == Compress(options.ct, options.dict, plain)
           entries(m) == [k \in 1 .. m |-> Recorded(k)]
           parts(m) == [k \in 1 .. m |-> Coded(k)]
<1>1. /\ n \in Nat /\ builder.idx = entries(n) /\ builder.body = FlattenSeq(parts(n))
      /\ \A k \in 2 .. n : (k - 2) * c < len
      /\ n # 0 /\ taken = UpTo(n - 1) /\ EncoderLoads(options.ct, options.dict) /\ taken = d
  <2>1. pc = "add"
    BY DEF AddChunk
  <2> QED BY <2>1 DEF BuilderHoldsTheChunks
<1>2. /\ taken' = taken + r /\ UNCHANGED <<input, options>>
      /\ builder' = IF r > 0 THEN [idx  |-> Append(builder.idx, Entry(comp, plain)),
                                   body |-> builder.body \o comp]
                    ELSE builder
      /\ pc' = IF r < c THEN "write" ELSE "add"
  BY DEF AddChunk, IsChunk, AtEnd
<1>3. c \in Nat /\ c > 0 /\ len \in Nat /\ r = IF len - taken < c THEN len - taken ELSE c
  BY OptionsFacts DEF ReadFull
<1>4. n * c = d + c /\ d \in Nat
  <2>1. n - 1 \in Nat
    BY <1>1
  <2> HIDE DEF n, c
  <2> QED BY <1>1, <1>3, <2>1
<1>5. UpTo(n) = IF d + c < len THEN d + c ELSE len
  BY <1>4 DEF UpTo
<1>6. d <= len
  <2>1. UpTo(n - 1) = IF d < len THEN d ELSE len
    BY DEF UpTo
  <2> HIDE DEF d, len
  <2> QED BY <1>1, <1>3, <1>4, <2>1
<1> HIDE DEF n, c, len, d, r, entries, parts
<1>7. /\ r \in Nat /\ taken + r = UpTo(n) /\ taken \in Nat
      /\ r > 0 => d < len
      /\ r < c => taken + r = len
      /\ ~(r < c) => taken + r = d + c /\ r > 0
      /\ ~(r > 0) => taken + r = taken
  BY <1>1, <1>3, <1>4, <1>5, <1>6
<1>8. \A k : UpTo(k)' = UpTo(k) /\ Coded(k)' = Coded(k) /\ Recorded(k)' = Recorded(k)
  BY <1>2, ContentIsKept
<1>9. CASE ~(r > 0)
  <2>1. builder' = builder /\ taken' = taken /\ taken' = len /\ pc' = "write"
    BY <1>2, <1>3, <1>7, <1>9
  <2>2. /\ [k \in 1 .. n |-> Recorded(k)'] = entries(n) /\ [k \in 1 .. n |-> Coded(k)'] = parts(n)
    BY <1>8 DEF entries, parts
  <2>3. Len(builder'.idx) = n /\ options' = options /\ input' = input
    BY <1>2, <2>1 DEF n
  <2>4. UpTo(Len(builder.idx) - 1)' = UpTo(n - 1)
    BY <1>2, <2>3 DEF UpTo
  <2>5. \A k \in 2 .. n : (k - 2) * options'.chunkSize < Len(input')
    BY <1>1, <2>3 DEF c, len
  <2>6. builder'.idx = [k \in 1 .. n |-> Recorded(k)'] /\ builder'.body = FlattenSeq([k \in 1 .. n |-> Coded(k)'])
    BY <1>1, <2>1, <2>2
  <2>7. /\ taken' = UpTo(Len(builder.idx) - 1)' /\ EncoderLoads(options'.ct, options'.dict)
        /\ taken' = Len(input')
    BY <1>1, <2>1, <2>3, <2>4 DEF len
  <2> QED BY <1>1, <2>1, <2>3, <2>5, <2>6, <2>7 DEF BuilderHoldsTheChunks
<1>10. CASE r > 0
  <2>1. n + 1 \in Nat \ {0, 1} /\ n + 1 # 1 /\ (n + 1) - 2 = n - 1 /\ (n + 1) - 1 = n
    BY <1>1
  <2>2. plain = Chunk(n + 1) /\ comp = Coded(n + 1) /\ Entry(comp, plain) = Recorded(n + 1)
    <3>1. Chunk(n + 1) = SubSeq(input, UpTo((n + 1) - 2) + 1, UpTo((n + 1) - 1))
      BY <2>1, ChunkFacts
    <3>2. plain = Chunk(n + 1)
      BY <1>1, <1>7, <2>1, <3>1
    <3> HIDE DEF plain
    <3>3. comp = Coded(n + 1)
      BY <2>1, <3>2 DEF Coded, DictOf
    <3> HIDE DEF comp
    <3> QED BY <2>1, <3>2, <3>3 DEF Recorded
  <2>3. /\ builder'.idx = Append(entries(n), Recorded(n + 1))
        /\ builder'.body = FlattenSeq(parts(n)) \o Coded(n + 1)
    <3> HIDE DEF plain, comp
    <3> QED BY <1>1, <1>2, <1>10, <2>2
  <2>4. entries(n + 1) = Append(entries(n), Recorded(n + 1)) /\ Len(entries(n + 1)) = n + 1
    <3> DEFINE S == {Recorded(k) : k \in Nat}
               s == entries(n)
               t == entries(n + 1)
    <3>1. n + 1 \in Nat /\ (\A k \in 1 .. n : Recorded(k) \in S)
          /\ (\A k \in 1 .. n + 1 : Recorded(k) \in S)
      BY <1>1
    <3> HIDE DEF S
    <3>2. s \in Seq(S) /\ Len(s) = n
      BY <1>1, <3>1, IsASeq DEF entries
    <3>3. t \in Seq(S) /\ Len(t) = n + 1
      BY <3>1, IsASeq DEF entries
    <3>4. t[n + 1] = Recorded(n + 1) /\ \A k \in 1 .. n : t[k] = s[k]
      <4>1. n + 1 \in 1 .. n + 1 /\ \A k \in 1 .. n : k \in 1 .. n + 1
        BY <1>1
      <4> QED BY <4>1 DEF entries
    <3> HIDE DEF s, t
    <3>5. t = Append(s, t[Len(s) + 1])
      BY <3>2, <3>3, <3>4, OneMore
    <3> QED BY <3>2, <3>3, <3>4, <3>5 DEF s, t
  <2>5. FlattenSeq(parts(n + 1)) = FlattenSeq(parts(n)) \o Coded(n + 1)
    <3> DEFINE s == parts(n)
               t == parts(n + 1)
    <3>1. \A k \in 1 .. n + 1 : Coded(k) \in Seq(Units)
      <4> SUFFICES ASSUME NEW k \in 1 .. n + 1 PROVE Coded(k) \in Seq(Units)
        OBVIOUS
      <4>1. k \in Nat \ {0}
        BY <1>1
      <4> QED BY <4>1, CodedFacts
    <3>2. n + 1 \in Nat /\ \A k \in 1 .. n : Coded(k) \in Seq(Units)
      <4>1. n + 1 \in Nat /\ \A k \in 1 .. n : k \in 1 .. n + 1
        BY <1>1
      <4> QED BY <3>1, <4>1
    <3>3. s \in Seq(Seq(Units)) /\ Len(s) = n
      BY <1>1, <3>2, IsASeq DEF parts
    <3>4. t \in Seq(Seq(Units)) /\ Len(t) = n + 1
      BY <3>1, <3>2, IsASeq DEF parts
    <3>5. t[n + 1] = Coded(n + 1) /\ \A k \in 1 .. n : t[k] = s[k]
      <4>1. n + 1 \in 1 .. n + 1 /\ \A k \in 1 .. n : k \in 1 .. n + 1
        BY <1>1
      <4> QED BY <4>1 DEF parts
    <3>6. Coded(n + 1) \in Seq(Units)
      <4>1. n + 1 \in 1 .. n + 1
        BY <1>1
      <4> QED BY <3>1, <4>1
    <3> HIDE DEF s, t
    <3>7. t = Append(s, Coded(n + 1))
      <4>1. t = Append(s, t[Len(s) + 1])
        BY <3>3, <3>4, <3>5, OneMore
      <4> QED BY <3>3, <3>5, <4>1
    <3>8. FlattenSeq(Append(s, Coded(n + 1))) = FlattenSeq(s) \o Coded(n + 1)
      BY <3>3, <3>6, FlattenAppend
    <3> QED BY <3>7, <3>8 DEF s, t
  <2>6. Len(builder'.idx) = n + 1 /\ options' = options /\ input' = input /\ n + 1 # 0
    BY <1>2, <2>1, <2>3, <2>4
  <2>7. /\ [k \in 1 .. n + 1 |-> Recorded(k)'] = entries(n + 1)
        /\ [k \in 1 .. n + 1 |-> Coded(k)'] = parts(n + 1)
    BY <1>8 DEF entries, parts
  <2>8. /\ builder'.idx = [k \in 1 .. n + 1 |-> Recorded(k)']
        /\ builder'.body = FlattenSeq([k \in 1 .. n + 1 |-> Coded(k)'])
    BY <2>3, <2>4, <2>5, <2>7
  <2>9. \A k \in 2 .. n + 1 : (k - 2) * options'.chunkSize < Len(input')
    <3>1. d < len
      BY <1>7, <1>10
    <3>2. (n + 1 - 2) * c < len
      BY <2>1, <3>1 DEF d
    <3>3. \A k \in 2 .. n + 1 : k \in 2 .. n \/ k = n + 1
      BY <1>1
    <3>4. \A k \in 2 .. n + 1 : (k - 2) * c < len
      BY <1>1, <3>2, <3>3
    <3> QED BY <2>6, <3>4 DEF c, len
  <2>10. /\ taken' = UpTo(Len(builder.idx) - 1)' /\ EncoderLoads(options'.ct, options'.dict)
    <3>1. UpTo(Len(builder.idx) - 1)' = UpTo(n)
      BY <2>1, <2>6 DEF UpTo
    <3> QED BY <1>1, <1>2, <1>7, <2>6, <3>1
  <2>11. pc' = "add" => taken' = (n + 1 - 1) * options'.chunkSize
    <3>1. pc' = "add" => taken' = d + c
      BY <1>2, <1>7
    <3> QED BY <1>4, <2>1, <2>6, <3>1 DEF c
  <2>12. pc' = "write" => taken' = Len(input')
    <3>1. pc' = "write" => taken' = len
      BY <1>2, <1>7
    <3> QED BY <2>6, <3>1 DEF len
  <2>13. pc' # "builder" /\ n + 1 \in Nat
    BY <1>2, <2>1
  <2> DEFINE m == Len(builder.idx)
  <2>14. m' = n + 1 /\ taken' = UpTo(m - 1)'
    BY <2>6, <2>10
  <2> HIDE DEF m
  <2>15. /\ m' \in Nat /\ builder'.idx = [k \in 1 .. m' |-> Recorded(k)']
         /\ builder'.body = FlattenSeq([k \in 1 .. m' |-> Coded(k)'])
         /\ \A k \in 2 .. m' : (k - 2) * options'.chunkSize < Len(input')
    BY <2>8, <2>9, <2>13, <2>14
  <2>16. /\ IF m' = 0 THEN taken' = 0 /\ pc' # "add" /\ pc' # "write"
            ELSE taken' = UpTo(m - 1)' /\ EncoderLoads(options'.ct, options'.dict) /\ pc' # "builder"
         /\ pc' = "add" => taken' = (m' - 1) * options'.chunkSize
         /\ pc' = "write" => taken' = Len(input')
    <3>1. m' # 0
      BY <2>6, <2>14
    <3>2. taken' = UpTo(m - 1)' /\ EncoderLoads(options'.ct, options'.dict) /\ pc' # "builder"
      BY <2>10, <2>13, <2>14, Zenon
    <3>3. pc' = "add" => taken' = (m' - 1) * options'.chunkSize
      <4>1. m' - 1 = n + 1 - 1
        BY <1>1, <2>14
      <4> QED BY <2>11, <4>1, Zenon
    <3> QED BY <2>12, <3>1, <3>2, <3>3, Zenon
  <2> QED BY <2>15, <2>16 DEF BuilderHoldsTheChunks, m
<1> QED BY <1>9, <1>10

LEMMA AddChunkIInv ==
  ASSUME IInv, AddChunk
  PROVE  IInv'
<1>1. /\ pc = "add" /\ pc' \in {"write", "add"}
      /\ UNCHANGED <<input, options, command, status, file, damaged>>
      /\ UNCHANGED <<chunk, pos, bufs, data, samples, out>>
  BY DEF AddChunk, reading
<1>2. CommandTypes /\ BuilderHoldsTheChunks /\ FileIsTheBuilders /\ command = "create"
  BY <1>1 DEF IInv, CommandTypes
<1>3. CommandTypes'
  BY <1>1, <1>2 DEF CommandTypes
<1>4. FileIsTheBuilders'
  BY <1>1, <1>2 DEF FileIsTheBuilders
<1>5. BuilderHoldsTheChunks'
  BY <1>2, AddChunkBuilds
<1>6. command' = "create" /\ pc' \notin {"chunk", "loaded"}
  BY <1>1, <1>2
<1> QED BY <1>3, <1>4, <1>5, <1>6, NothingIsReadYet DEF IInv

LEMMA ReadInputFailsIInv ==
  ASSUME IInv, ReadInputFails
  PROVE  IInv'
<1>1. /\ pc = "add" /\ pc' = "exited" /\ status' = "failed"
      /\ UNCHANGED <<input, options, command, file, damaged, taken, builder>>
      /\ UNCHANGED <<chunk, pos, bufs, data, samples, out>>
  BY DEF ReadInputFails, Exit, creating, reading
<1>2. CommandTypes /\ BuilderHoldsTheChunks /\ FileIsTheBuilders /\ command = "create"
  BY <1>1 DEF IInv, CommandTypes
<1>3. CommandTypes'
  BY <1>1, <1>2 DEF CommandTypes
<1>4. FileIsTheBuilders'
  BY <1>1, <1>2, FileIsKept
<1>5. BuilderHoldsTheChunks'
  BY <1>1, <1>2, BuilderIsKept
<1>6. command' = "create" /\ pc' \notin {"chunk", "loaded"}
  BY <1>1, <1>2
<1> QED BY <1>3, <1>4, <1>5, <1>6, NothingIsReadYet DEF IInv

(* What create wrote, all of it or a part, is what the builder holds.       *)
LEMMA WriteFileIInv ==
  ASSUME IInv, WriteFile
  PROVE  IInv'
<1>1. /\ pc = "write" /\ pc' = "exited" /\ status' \in {"ok", "failed"}
      /\ UNCHANGED <<input, options, command, damaged, taken, builder>>
      /\ UNCHANGED <<chunk, pos, bufs, data, samples, out>>
  BY DEF WriteFile, Exit, creating, reading
<1>2. CommandTypes /\ BuilderHoldsTheChunks /\ FileIsTheBuilders /\ command = "create"
  BY <1>1 DEF IInv, CommandTypes
<1>3. CommandTypes'
  BY <1>1, <1>2 DEF CommandTypes
<1>4. BuilderHoldsTheChunks'
  BY <1>1, <1>2, BuilderIsKept
<1> DEFINE n == Len(builder.idx)
<1>5. /\ n \in Nat /\ DOMAIN builder.idx = 1 .. n /\ builder.body \in Seq(Units)
      /\ \A k \in 1 .. n : builder.idx[k] = Recorded(k)
  BY <1>2, BodyFacts
<1>6. builder.idx # <<>> /\ taken = Len(input)
  <2>1. n # 0 /\ taken = Len(input)
    BY <1>1, <1>2 DEF BuilderHoldsTheChunks
  <2> QED BY <2>1
<1>7. file'.header =>
        /\ file'.idx = builder.idx
        /\ \E m \in 0 .. Len(builder.body) : file'.body = SubSeq(builder.body, 1, m)
  <2>1. \/ file' = [header |-> TRUE, idx |-> builder.idx, body |-> builder.body]
        \/ \E m \in 0 .. Len(builder.body) :
             \/ file' = Nothing
             \/ file' = [header |-> TRUE, idx |-> builder.idx, body |-> SubSeq(builder.body, 1, m)]
    BY DEF WriteFile
  <2>2. builder.body = SubSeq(builder.body, 1, Len(builder.body))
        /\ Len(builder.body) \in 0 .. Len(builder.body)
    BY <1>5, SubSeqFull, LenProperties
  <2> QED BY <2>1, <2>2 DEF Nothing
<1>8. ASSUME file'.header
      PROVE  /\ file'.body \in Seq(Units)
             /\ \A k \in DOMAIN file'.idx :
                  \E u \in {<<>>, Sum(Chunk(k)')} : file'.idx[k] = [Recorded(k)' EXCEPT !.uDigest = u]
  <2>1. file'.body \in Seq(Units)
    BY <1>5, <1>7, <1>8, PrefixFacts
  <2>2. \A k : Chunk(k)' = Chunk(k) /\ Recorded(k)' = Recorded(k)
    BY <1>1, ContentIsKept
  <2>3. ASSUME NEW k \in 1 .. n PROVE builder.idx[k] = [Recorded(k) EXCEPT !.uDigest = <<>>]
    <3>1. k \in Nat \ {0}
      BY <1>5
    <3>2. Recorded(k) = [digest |-> IF k = 1 /\ options.dict = <<>> THEN <<>> ELSE Sum(Coded(k)),
                         compLength |-> Len(Coded(k)), length |-> Len(Chunk(k)), uDigest |-> <<>>]
      BY <1>2, <3>1, CodedFacts
    <3> QED BY <1>5, <3>2
  <2>4. DOMAIN file'.idx = 1 .. n /\ file'.idx = builder.idx
    BY <1>5, <1>7, <1>8
  <2> HIDE DEF n
  <2> QED BY <2>1, <2>2, <2>3, <2>4
<1>9. FileIsTheBuilders'
  <2>0. DOMAIN file' = {"header", "idx", "body"}
    BY DEF WriteFile, Nothing
  <2>1. out = Old /\ samples = <<>> /\ pos = 0
    BY <1>2 DEF FileIsTheBuilders
  <2> HIDE DEF n
  <2>2. file'.header => taken' = Len(input') /\ builder'.idx # <<>> /\ file'.idx = builder'.idx
    BY <1>1, <1>6, <1>7
  <2>3. file'.header => \E m \in 0 .. Len(builder'.body) : file'.body = SubSeq(builder'.body, 1, m)
    BY <1>1, <1>7
  <2> QED BY <1>1, <1>8, <2>0, <2>1, <2>2, <2>3 DEF FileIsTheBuilders
<1>10. command' = "create" /\ pc' \notin {"chunk", "loaded"}
  BY <1>1, <1>2
<1> QED BY <1>3, <1>4, <1>9, <1>10, NothingIsReadYet DEF IInv

----------------------------------------------------------------------------
(* The file on its way *)

LEMMA OnItsWayIInv ==
  ASSUME IInv, OnItsWay,
         UNCHANGED <<input, options, pc, command, status, taken, builder,
                     chunk, pos, bufs, data, samples, out>>,
         damaged' \subseteq {"body", "index"}, DOMAIN file' = DOMAIN file,
         Len(file'.idx) = Len(builder.idx), DOMAIN file'.idx = DOMAIN builder.idx,
         file'.body \in Seq(Units),
         "index" \notin damaged' =>
           \A k \in DOMAIN file'.idx :
             \E u \in {<<>>, Sum(Chunk(k))} : file'.idx[k] = [Recorded(k) EXCEPT !.uDigest = u],
         damaged' = {} => damaged = {} /\ file'.body = file.body
  PROVE  IInv'
<1>1. /\ CommandTypes /\ BuilderHoldsTheChunks /\ FileIsTheBuilders
      /\ pc = "exited" /\ command = "create" /\ file.header
  BY DEF IInv, OnItsWay
<1>2. CommandTypes'
  BY <1>1 DEF CommandTypes
<1>3. BuilderHoldsTheChunks'
  BY <1>1, BuilderIsKept
<1>4. FileIsTheBuilders'
  <2>1. /\ out = Old /\ samples = <<>> /\ pos = 0 /\ taken = Len(input) /\ builder.idx # <<>>
        /\ DOMAIN file = {"header", "idx", "body"}
        /\ damaged = {} => \E n \in 0 .. Len(builder.body) : file.body = SubSeq(builder.body, 1, n)
    BY <1>1 DEF FileIsTheBuilders
  <2>2. \A k : Chunk(k)' = Chunk(k) /\ Recorded(k)' = Recorded(k)
    BY ContentIsKept
  <2>3. "index" \notin damaged' =>
          \A k \in DOMAIN file'.idx :
            \E u \in {<<>>, Sum(Chunk(k)')} : file'.idx[k] = [Recorded(k)' EXCEPT !.uDigest = u]
    BY <2>2
  <2>4. damaged' = {} =>
          \E n \in 0 .. Len(builder'.body) : file'.body = SubSeq(builder'.body, 1, n)
    BY <2>1
  <2> QED BY <1>1, <2>1, <2>3, <2>4 DEF FileIsTheBuilders
<1>5. command' = "create" /\ pc' \notin {"chunk", "loaded"}
  BY <1>1
<1> QED BY <1>2, <1>3, <1>4, <1>5, NothingIsReadYet DEF IInv

LEMMA DamageBodyIInv ==
  ASSUME IInv, DamageBody
  PROVE  IInv'
<1>1. /\ OnItsWay /\ damaged' = damaged \cup {"body"}
      /\ UNCHANGED <<input, options, pc, command, status, taken, builder,
                     chunk, pos, bufs, data, samples, out>>
  BY DEF DamageBody, creating, reading
<1>2. PICK k \in DOMAIN file.body :
        file' \in {[file EXCEPT !.body = SubSeq(@, 1, k - 1)],
                   [file EXCEPT !.body[k] = [frame |-> <<>>, at |-> 0]]}
  BY DEF DamageBody
<1>3. damaged \subseteq {"body", "index"} /\ file.header /\ FileIsTheBuilders
  BY <1>1 DEF IInv, CommandTypes, OnItsWay
<1>4. /\ DOMAIN file = {"header", "idx", "body"}
      /\ Len(file.idx) = Len(builder.idx) /\ DOMAIN file.idx = DOMAIN builder.idx
      /\ file.body \in Seq(Units)
      /\ "index" \notin damaged =>
           \A j \in DOMAIN file.idx :
             \E u \in {<<>>, Sum(Chunk(j))} : file.idx[j] = [Recorded(j) EXCEPT !.uDigest = u]
  BY <1>3 DEF FileIsTheBuilders
<1>5. file'.idx = file.idx /\ DOMAIN file' = DOMAIN file
  BY <1>2, <1>4
<1>6. file'.body \in Seq(Units)
  <2>1. k \in 1 .. Len(file.body) /\ Len(file.body) \in Nat
    BY <1>2, <1>4, LenProperties
  <2>2. SubSeq(file.body, 1, k - 1) \in Seq(Units)
    <3>1. k - 1 \in 0 .. Len(file.body)
      BY <2>1
    <3> QED BY <1>4, <3>1, PrefixFacts
  <2>3. [file.body EXCEPT ![k] = [frame |-> <<>>, at |-> 0]] \in Seq(Units)
    <3>1. [frame |-> <<>>, at |-> 0] \in Units
      <4>1. <<>> \in {<<>>} \cup (Seq(Byte) \X Seq(Byte)) /\ 0 \in Nat
        BY Zenon
      <4> QED BY <4>1, Zenon DEF Units
    <3> QED BY <1>4, <2>1, <3>1, ExceptSeq
  <2>4. \/ file'.body = SubSeq(file.body, 1, k - 1) \/ file'.body = file.body
        \/ file'.body = [file.body EXCEPT ![k] = [frame |-> <<>>, at |-> 0]]
    BY <1>2, <1>4
  <2> QED BY <1>4, <2>2, <2>3, <2>4
<1>7. damaged' \subseteq {"body", "index"} /\ damaged' # {} /\ ("index" \notin damaged' => "index" \notin damaged)
  BY <1>1, <1>3
<1> QED BY <1>1, <1>4, <1>5, <1>6, <1>7, OnItsWayIInv

LEMMA DamageIndexIInv ==
  ASSUME IInv, DamageIndex
  PROVE  IInv'
<1>1. /\ OnItsWay /\ damaged' = damaged \cup {"index"}
      /\ UNCHANGED <<input, options, pc, command, status, taken, builder,
                     chunk, pos, bufs, data, samples, out>>
  BY DEF DamageIndex, creating, reading
<1>2. PICK k \in DOMAIN file.idx, n \in 0 .. 2 :
        file' \in {[file EXCEPT !.idx[k].compLength = n], [file EXCEPT !.idx[k].length = n],
                   [file EXCEPT !.idx[k].digest = ZeroDigest]}
  BY DEF DamageIndex
<1>3. damaged \subseteq {"body", "index"} /\ file.header /\ FileIsTheBuilders
  BY <1>1 DEF IInv, CommandTypes, OnItsWay
<1>4. /\ DOMAIN file = {"header", "idx", "body"}
      /\ Len(file.idx) = Len(builder.idx) /\ DOMAIN file.idx = DOMAIN builder.idx
      /\ file.body \in Seq(Units)
  BY <1>3 DEF FileIsTheBuilders
<1>5. file'.body = file.body /\ DOMAIN file' = DOMAIN file
  BY <1>2, <1>4
<1>6. Len(file'.idx) = Len(builder.idx) /\ DOMAIN file'.idx = DOMAIN builder.idx
  <2>1. Len(builder.idx) \in Nat /\ DOMAIN builder.idx = 1 .. Len(builder.idx)
    BY BodyFacts DEF IInv
  <2>2. \E e : file'.idx = [file.idx EXCEPT ![k] = e]
    BY <1>2, <1>4
  <2>3. PICK e : file'.idx = [file.idx EXCEPT ![k] = e]
    BY <2>2
  <2> DEFINE m == Len(builder.idx)
             idx == file'.idx
  <2>4. idx = [j \in 1 .. m |-> IF j = k THEN e ELSE file.idx[j]]
    BY <1>4, <2>1, <2>3
  <2>5. m \in Nat
    BY <2>1
  <2> DEFINE S == {IF j = k THEN e ELSE file.idx[j] : j \in 1 .. m}
  <2> HIDE DEF m, idx
  <2>6. \A j \in 1 .. m : (IF j = k THEN e ELSE file.idx[j]) \in S
    OBVIOUS
  <2> HIDE DEF S
  <2>7. Len(idx) = m /\ DOMAIN idx = 1 .. m
    BY <2>4, <2>5, <2>6, IsASeq
  <2> QED BY <2>1, <2>7 DEF idx, m
<1>7. damaged' \subseteq {"body", "index"} /\ damaged' # {} /\ "index" \in damaged'
  BY <1>1, <1>3
<1> QED BY <1>1, <1>4, <1>5, <1>6, <1>7, OnItsWayIInv

LEMMA OtherWriterIInv ==
  ASSUME IInv, OtherWriter
  PROVE  IInv'
<1>1. /\ OnItsWay /\ damaged' = damaged /\ damaged = {}
      /\ UNCHANGED <<input, options, pc, command, status, taken, builder,
                     chunk, pos, bufs, data, samples, out>>
      /\ file' = [file EXCEPT !.idx = [k \in DOMAIN @ |-> [@[k] EXCEPT !.uDigest = Sum(Chunk(k))]]]
  BY DEF OtherWriter, creating, reading
<1>2. file.header /\ FileIsTheBuilders /\ CommandTypes /\ BuilderHoldsTheChunks
  BY <1>1 DEF IInv, OnItsWay
<1>3. /\ DOMAIN file = {"header", "idx", "body"}
      /\ Len(file.idx) = Len(builder.idx) /\ DOMAIN file.idx = DOMAIN builder.idx
      /\ file.body \in Seq(Units)
      /\ \A k \in DOMAIN file.idx :
           \E u \in {<<>>, Sum(Chunk(k))} : file.idx[k] = [Recorded(k) EXCEPT !.uDigest = u]
  BY <1>1, <1>2 DEF FileIsTheBuilders
<1> DEFINE m == Len(builder.idx)
           idx == file'.idx
<1>4. m \in Nat /\ DOMAIN file.idx = 1 .. m
  BY <1>2, <1>3, BodyFacts
<1>5. file'.body = file.body
      /\ idx = [k \in 1 .. m |-> [file.idx[k] EXCEPT !.uDigest = Sum(Chunk(k))]]
  <2>1. file'.body = file.body
    BY <1>1, <1>3
  <2>2. idx = [k \in DOMAIN file.idx |-> [file.idx[k] EXCEPT !.uDigest = Sum(Chunk(k))]]
    BY <1>1, <1>3
  <2> QED BY <1>4, <2>1, <2>2
<1> HIDE DEF idx, m
<1>6. Len(idx) = m /\ DOMAIN idx = 1 .. m
  <2> DEFINE S == {[file.idx[k] EXCEPT !.uDigest = Sum(Chunk(k))] : k \in 1 .. m}
  <2>1. \A k \in 1 .. m : [file.idx[k] EXCEPT !.uDigest = Sum(Chunk(k))] \in S
    OBVIOUS
  <2> HIDE DEF S
  <2> QED BY <1>4, <1>5, <2>1, IsASeq
<1>7. ASSUME NEW k \in DOMAIN idx
      PROVE  \E u \in {<<>>, Sum(Chunk(k))} : idx[k] = [Recorded(k) EXCEPT !.uDigest = u]
  <2>1. k \in 1 .. m /\ k \in Nat \ {0}
    BY <1>4, <1>6, <1>7
  <2>2. idx[k] = [file.idx[k] EXCEPT !.uDigest = Sum(Chunk(k))]
    BY <1>5, <2>1
  <2>3. PICK u \in {<<>>, Sum(Chunk(k))} : file.idx[k] = [Recorded(k) EXCEPT !.uDigest = u]
    BY <1>3, <1>4, <2>1
  <2>4. Recorded(k) = [digest |-> IF k = 1 /\ options.dict = <<>> THEN <<>> ELSE Sum(Coded(k)),
                       compLength |-> Len(Coded(k)), length |-> Len(Chunk(k)), uDigest |-> <<>>]
    BY <1>2, <2>1, CodedFacts
  <2>5. idx[k] = [Recorded(k) EXCEPT !.uDigest = Sum(Chunk(k))]
    BY <2>2, <2>3, <2>4
  <2> QED BY <2>5
<1>8. damaged' \subseteq {"body", "index"} /\ DOMAIN file' = DOMAIN file /\ (damaged' = {} => damaged = {} /\ file'.body = file.body)
  BY <1>1, <1>3, <1>5
<1>9. Len(file'.idx) = Len(builder.idx) /\ DOMAIN file'.idx = DOMAIN builder.idx
  BY <1>3, <1>4, <1>6 DEF idx, m
<1>10. \A k \in DOMAIN file'.idx :
         \E u \in {<<>>, Sum(Chunk(k))} : file'.idx[k] = [Recorded(k) EXCEPT !.uDigest = u]
  BY <1>7 DEF idx
<1>11. file'.body \in Seq(Units)
  BY <1>3, <1>5
<1> QED BY <1>1, <1>8, <1>9, <1>10, <1>11, OnItsWayIInv

----------------------------------------------------------------------------
(* extract and gen-zdict *)

LEMMA OpenFileIInv ==
  ASSUME IInv, OpenFile
  PROVE  IInv'
<1>1. /\ pc = "exited" /\ command = "create" /\ command' \in {"extract", "gen-zdict"}
      /\ out' = (IF command' = "extract" THEN <<>> ELSE out)
      /\ UNCHANGED <<input, options, file, damaged, pos, data, samples, taken, builder>>
      /\ \/ ~file.header /\ pc' = "exited" /\ status' = "refused"
         \/ /\ file.header /\ pc' = "chunk" /\ status' = "none" /\ chunk' = 1
            /\ bufs' = [k \in 1 .. Len(file.idx) + 1 |-> <<>>]
  BY DEF OpenFile, creating
<1>2. CommandTypes /\ BuilderHoldsTheChunks /\ FileIsTheBuilders
  BY DEF IInv
<1>3. out = Old /\ samples = <<>> /\ pos = 0
  BY <1>1, <1>2 DEF FileIsTheBuilders
<1>4. CommandTypes'
  BY <1>1, <1>2 DEF CommandTypes
<1>5. BuilderHoldsTheChunks'
  BY <1>1, <1>2, BuilderIsKept
<1>6. FileIsTheBuilders'
  BY <1>1, <1>2, FileIsKept
<1>7. out' = IF command' = "extract" THEN <<>> ELSE Old
  BY <1>1, <1>3
<1>8. ChunksAreRead'
  <2> SUFFICES ASSUME pc' = "chunk" PROVE ChunksAreRead'
    BY <1>1 DEF ChunksAreRead
  <2>1. Len(file.idx) = Len(builder.idx) /\ Len(builder.idx) \in Nat /\ Len(file.body) \in Nat
    <3>1. Len(file.idx) = Len(builder.idx) /\ file.body \in Seq(Units)
      BY <1>1, <1>2 DEF FileIsTheBuilders
    <3> QED BY <1>2, <3>1, LenProperties DEF BuilderHoldsTheChunks
  <2> DEFINE m == Len(file.idx)
  <2>2. chunk' \in 1 .. m' + 1 /\ DOMAIN bufs' = 1 .. m' + 1 /\ bufs'[DictBuffer] = <<>>
    <3>1. m \in Nat /\ m' = m /\ bufs' = [k \in 1 .. m + 1 |-> <<>>] /\ chunk' = 1
      BY <1>1, <2>1
    <3> HIDE DEF m
    <3> QED BY <3>1 DEF DictBuffer
  <2>3. pos' = Begins(builder'.idx, 1) /\ pos' <= Len(file'.body)
    <3>1. Begins(builder.idx, 1) = 0
      BY <1>2, BodyFacts
    <3> QED BY <1>1, <1>3, <2>1, <3>1
  <2>4. pc' # "loaded" /\ chunk' = 1 /\ pc' = "chunk"
    BY <1>1
  <2> HIDE DEF m
  <2>5. pos' = Begins(builder'.idx, IF pc' = "chunk" THEN chunk' ELSE chunk' + 1)
    BY <2>3, <2>4
  <2> QED BY <2>2, <2>3, <2>4, <2>5 DEF ChunksAreRead, m
<1>9. ChunksAreUsed'
  <2> SUFFICES ASSUME pc' = "chunk" PROVE ChunksAreUsed'
    BY <1>1 DEF ChunksAreUsed
  <2>1. chunk' = 1 /\ pc' = "chunk"
    BY <1>1
  <2>2. samples' = [k \in 1 .. chunk' - 2 |-> [buffer |-> k + 1, length |-> Len(Chunk(k + 1)')]]
    <3>1. 1 .. chunk' - 2 = {}
      BY <2>1
    <3>2. samples' = <<>>
      BY <1>1, <1>3
    <3> QED BY <3>1, <3>2
  <2>3. \A k \in 2 .. chunk' - 1 : bufs'[k] = Chunk(k)'
    BY <2>1
  <2> QED BY <1>1, <1>7, <2>1, <2>2, <2>3 DEF ChunksAreUsed
<1>10. ExtractedIsAPrefix'
  <2>1. IsPrefix(<<>>, input')
    <3>1. input \in Seq(Byte) /\ Len(input) \in Nat
      BY <1>2, OptionsFacts
    <3>2. SubSeq(input, 1, 0) = <<>> /\ SubSeq(<<>>, 1, 0) = <<>> /\ Len(<<>>) = 0
      BY SubSeqEmpty
    <3> QED BY <1>1, <3>1, <3>2 DEF IsPrefix
  <2> QED BY <1>7, <2>1 DEF ExtractedIsAPrefix
<1>11. ExtractedIsAll' /\ IntactFilesAreRead' /\ DictionaryIsOfTheContent'
  BY <1>1, <1>7 DEF ExtractedIsAll, IntactFilesAreRead, DictionaryIsOfTheContent, Ended
<1> QED BY <1>4, <1>5, <1>6, <1>8, <1>9, <1>10, <1>11 DEF IInv

(* What an index that did not change says of a chunk.                       *)
LEMMA EntryFacts ==
  ASSUME CommandTypes, BuilderHoldsTheChunks, FileIsTheBuilders, file.header,
         "index" \notin damaged, NEW k \in 1 .. Len(file.idx)
  PROVE  /\ k \in Nat \ {0} /\ Len(file.idx) = Len(builder.idx) /\ Len(file.idx) \in Nat
         /\ file.idx[k].compLength = Len(Coded(k)) /\ file.idx[k].length = Len(Chunk(k))
         /\ file.idx[k].digest = IF k = 1 /\ options.dict = <<>> THEN <<>> ELSE Sum(Coded(k))
         /\ file.idx[k].uDigest \in {<<>>, Sum(Chunk(k))}
         /\ k # 1 => Chunk(k) # <<>>
<1>1. /\ Len(file.idx) = Len(builder.idx) /\ DOMAIN file.idx = DOMAIN builder.idx
      /\ \A j \in DOMAIN file.idx :
           \E u \in {<<>>, Sum(Chunk(j))} : file.idx[j] = [Recorded(j) EXCEPT !.uDigest = u]
  BY DEF FileIsTheBuilders
<1>2. Len(builder.idx) \in Nat /\ DOMAIN builder.idx = 1 .. Len(builder.idx)
  BY BodyFacts
<1>3. k \in Nat \ {0} /\ k \in DOMAIN file.idx
  BY <1>1, <1>2
<1>4. Recorded(k) = [digest |-> IF k = 1 /\ options.dict = <<>> THEN <<>> ELSE Sum(Coded(k)),
                     compLength |-> Len(Coded(k)), length |-> Len(Chunk(k)), uDigest |-> <<>>]
  BY <1>3, CodedFacts
<1>5. PICK u \in {<<>>, Sum(Chunk(k))} : file.idx[k] = [Recorded(k) EXCEPT !.uDigest = u]
  BY <1>1, <1>3
<1>6. /\ file.idx[k].compLength = Len(Coded(k)) /\ file.idx[k].length = Len(Chunk(k))
      /\ file.idx[k].digest = (IF k = 1 /\ options.dict = <<>> THEN <<>> ELSE Sum(Coded(k)))
      /\ file.idx[k].uDigest = u
  BY <1>4, <1>5
<1>7. k # 1 => Chunk(k) # <<>>
  <2> SUFFICES ASSUME k # 1 PROVE Chunk(k) # <<>>
    OBVIOUS
  <2>1. k \in 2 .. Len(builder.idx) /\ k \in Nat \ {0, 1}
    BY <1>1, <1>2, <1>3
  <2>2. (k - 2) * options.chunkSize < Len(input)
    BY <2>1 DEF BuilderHoldsTheChunks
  <2> QED BY <2>1, <2>2, ChunkFacts
<1> QED BY <1>1, <1>2, <1>3, <1>5, <1>6, <1>7

(* The compressed bytes of the chunk that is read next.                     *)
Left == Len(file.body) - pos
Comp == SubSeq(file.body, pos + 1,
               pos + (IF Left < file.idx[chunk].compLength THEN Left
                      ELSE file.idx[chunk].compLength))

LEMMA CompFacts ==
  ASSUME IInv, pc = "chunk", ChunksLeft, Reliable
  PROVE  LET len == Len(Coded(chunk))
         IN  /\ chunk \in 1 .. Len(file.idx)
             /\ pos \in Nat /\ Len(Comp) \in Nat /\ pos + Len(Comp) <= Len(file.body)
             /\ Len(Comp) = len => pos + Len(Comp) = Begins(builder.idx, chunk + 1)
             /\ damaged = {} /\ Len(Comp) = len => Comp = Coded(chunk)
             /\ damaged = {} /\ file.body = builder.body => Len(Comp) = len
             /\ len = 0 => Len(Comp) = len
<1>1. /\ CommandTypes /\ BuilderHoldsTheChunks /\ FileIsTheBuilders /\ ChunksAreRead
      /\ "index" \notin damaged
  BY DEF IInv, Reliable
<1>2. file.header /\ file.body \in Seq(Units) /\ Len(file.body) \in Nat
  <2>1. file.header
    BY <1>1 DEF FileIsTheBuilders
  <2> QED BY <1>1, <2>1, LenProperties DEF FileIsTheBuilders
<1>3. /\ chunk \in 1 .. Len(file.idx) + 1 /\ chunk <= Len(file.idx)
      /\ pos = Begins(builder.idx, chunk) /\ pos <= Len(file.body)
  BY <1>1 DEF ChunksAreRead, ChunksLeft
<1> DEFINE m == Len(builder.idx)
           at(k) == Begins(builder.idx, k)
           body == builder.body
<1>4. Len(file.idx) = m /\ m \in Nat
  BY <1>1, <1>2, BodyFacts DEF FileIsTheBuilders
<1>5. chunk \in 1 .. Len(file.idx) /\ chunk \in 1 .. m /\ chunk \in 1 .. m + 1 /\ chunk \in Nat \ {0}
  <2> HIDE DEF m
  <2> QED BY <1>3, <1>4
<1>6. /\ body \in Seq(Units) /\ Len(body) \in Nat /\ at(chunk) \in Nat
      /\ at(chunk + 1) = at(chunk) + Len(Coded(chunk)) /\ at(chunk + 1) <= Len(body)
      /\ SubSeq(body, at(chunk) + 1, at(chunk + 1)) = Coded(chunk)
  <2>1. /\ \A k \in 1 .. m + 1 : at(k) \in Nat
        /\ \A k \in 1 .. m : /\ at(k + 1) = at(k) + Len(Coded(k)) /\ at(k + 1) <= Len(body)
                             /\ SubSeq(body, at(k) + 1, at(k + 1)) = Coded(k)
        /\ body \in Seq(Units)
    BY <1>1, BodyFacts
  <2> HIDE DEF at, m, body
  <2> QED BY <1>5, <2>1, LenProperties
<1>7. file.idx[chunk].compLength = Len(Coded(chunk)) /\ Len(Coded(chunk)) \in Nat
  BY <1>1, <1>2, <1>5, EntryFacts, CodedFacts
<1> DEFINE len == Len(Coded(chunk))
           a == pos
           b == pos + (IF Left < len THEN Left ELSE len)
           end == Len(file.body)
<1>8. Comp = SubSeq(file.body, a + 1, b) /\ Left = end - a
  BY <1>7 DEF Comp, Left
<1>9. len \in Nat /\ a \in Nat /\ end \in Nat /\ a <= end /\ a = at(chunk)
  BY <1>2, <1>3, <1>6, <1>7
<1>10. b = IF end - a < len THEN end ELSE a + len
  <2>1. b = a + (IF end - a < len THEN end - a ELSE len)
    BY <1>8
  <2> HIDE DEF a, b, end, len
  <2> QED BY <1>9, <2>1
<1> HIDE DEF len, a, b, end, at
<1>11. a \in 0 .. end /\ b \in a .. end
  BY <1>9, <1>10
<1>12. Len(Comp) = b - a
  <2> QED BY <1>2, <1>8, <1>11, SubSeqFacts DEF end
<1>13. Len(Comp) \in Nat /\ a + Len(Comp) <= end /\ (Len(Comp) = len => b = a + len)
  BY <1>9, <1>11, <1>12
<1>14. Len(Comp) = len => a + Len(Comp) = at(chunk + 1)
  BY <1>6, <1>9, <1>13 DEF len
<1>15. len = 0 => Len(Comp) = len
  BY <1>9, <1>10, <1>12
<1>16. ASSUME damaged = {}, Len(Comp) = len PROVE Comp = Coded(chunk)
  <2>1. PICK n \in 0 .. Len(body) : file.body = SubSeq(body, 1, n)
    BY <1>1, <1>2, <1>16 DEF FileIsTheBuilders
  <2>2. end = n
    BY <1>6, <2>1, PrefixFacts DEF end
  <2>3. SubSeq(SubSeq(body, 1, n), a + 1, b) = SubSeq(body, a + 1, b)
    BY <1>6, <1>11, <2>1, <2>2, PartOfPrefix
  <2>4. b = at(chunk + 1)
    BY <1>6, <1>9, <1>13, <1>16 DEF len
  <2> QED BY <1>6, <1>8, <1>9, <2>1, <2>3, <2>4
<1>17. ASSUME damaged = {}, file.body = body PROVE Len(Comp) = len
  <2>1. a + len <= end
    BY <1>6, <1>9, <1>17 DEF len, end
  <2> QED BY <1>9, <1>10, <1>12, <2>1
<1> QED BY <1>5, <1>9, <1>13, <1>14, <1>15, <1>16, <1>17 DEF len, at, a, end

(* A chunk that passes the checks is decoded to what was archived.          *)
LEMMA ChunkIsRight ==
  ASSUME IInv, pc = "chunk", ChunksLeft, Reliable,
         ~(file.idx[chunk].compLength = 0 /\ command = "extract"),
         Len(Comp) = file.idx[chunk].compLength, Verified(file.idx[chunk], Comp)
  PROVE  LET dict == IF chunk = 1 THEN <<>> ELSE bufs[DictBuffer]
         IN  /\ Decode(options.ct, dict, Comp) = {Outcome(Chunk(chunk))}
             /\ Len(Chunk(chunk)) = file.idx[chunk].length
             /\ VerifiedPlain(file.idx[chunk], Chunk(chunk))
<1>1. /\ CommandTypes /\ BuilderHoldsTheChunks /\ FileIsTheBuilders /\ ChunksAreRead
      /\ "index" \notin damaged
  BY DEF IInv, Reliable
<1>2. file.header /\ command \in {"extract", "gen-zdict"}
  BY <1>1 DEF FileIsTheBuilders, CommandTypes
<1>3. chunk \in 1 .. Len(file.idx) /\ (damaged = {} /\ Len(Comp) = Len(Coded(chunk)) => Comp = Coded(chunk))
  BY CompFacts
<1> DEFINE e == file.idx[chunk]
<1>4. /\ chunk \in Nat \ {0} /\ e.compLength = Len(Coded(chunk)) /\ e.length = Len(Chunk(chunk))
      /\ e.digest = (IF chunk = 1 /\ options.dict = <<>> THEN <<>> ELSE Sum(Coded(chunk)))
      /\ e.uDigest \in {<<>>, Sum(Chunk(chunk))}
  BY <1>1, <1>2, <1>3, EntryFacts
<1>5. Coded(chunk) = <<>> <=> Chunk(chunk) = <<>>
  BY <1>1, <1>4, CodedFacts
<1>6. Comp = Coded(chunk)
  <2>1. CASE command = "extract"
    <3>1. Sum(Comp) = e.digest
      BY <2>1 DEF Verified
    <3>2. ~(chunk = 1 /\ options.dict = <<>>)
      <4> SUFFICES ASSUME chunk = 1, options.dict = <<>> PROVE FALSE
        OBVIOUS
      <4>1. Coded(chunk) = <<>>
        BY <1>1, <1>5, ChunkFacts
      <4>2. e.compLength = 0
        BY <1>4, <4>1
      <4> QED BY <2>1, <4>2
    <3>3. Sum(Comp) = Sum(Coded(chunk))
      BY <1>4, <3>1, <3>2
    <3> QED BY <3>3 DEF Sum
  <2>2. CASE command = "gen-zdict"
    <3>1. damaged = {}
      BY <2>2 DEF Reliable
    <3> QED BY <1>3, <1>4, <3>1
  <2> QED BY <1>2, <2>1, <2>2
<1>7. (IF chunk = 1 THEN <<>> ELSE bufs[DictBuffer]) = DictOf(chunk)
  <2>1. chunk > 1 => bufs[DictBuffer] = options.dict
    BY <1>1 DEF ChunksAreRead
  <2>2. chunk # 1 => chunk > 1
    BY <1>4
  <2> QED BY <2>1, <2>2 DEF DictOf
<1>8. Decode(options.ct, DictOf(chunk), Coded(chunk)) = {Outcome(Chunk(chunk))}
  BY <1>1, <1>4, CodedFacts
<1>9. VerifiedPlain(e, Chunk(chunk))
  BY <1>4 DEF VerifiedPlain
<1> QED BY <1>4, <1>6, <1>7, <1>8, <1>9

LEMMA ReadChunkIInv ==
  ASSUME IInv, ReadChunk
  PROVE  IInv'
<1> DEFINE e == file.idx[chunk]
           dict == IF chunk = 1 THEN <<>> ELSE bufs[DictBuffer]
           b == Buffer(chunk)
           empty == e.compLength = 0 /\ command = "extract"
           whole == Len(Comp) = e.compLength
           Empty == /\ empty /\ pc' = "loaded" /\ data' = [buffer |-> b, length |-> 0]
                    /\ UNCHANGED <<status, bufs>>
           Fine(o) == o.ok /\ Len(o.plain) = e.length /\ VerifiedPlain(e, o.plain)
           Refused == pc' = "exited" /\ status' = "refused"
           Bad == ~empty /\ ~(whole /\ Verified(e, Comp)) /\ Refused
           Read(o) == /\ bufs' = [bufs EXCEPT ![b] = o.plain]
                      /\ IF Fine(o) THEN /\ pc' = "loaded" /\ UNCHANGED status
                                         /\ data' = [buffer |-> b, length |-> Len(bufs'[b])]
                         ELSE Refused
           Whole == /\ ~empty /\ whole /\ Verified(e, Comp)
                    /\ \E o \in Decode(options.ct, dict, Comp) : Read(o)
<1>1. /\ pc = "chunk" /\ ChunksLeft /\ pos' = pos + Len(Comp) /\ (Empty \/ Bad \/ Whole)
      /\ UNCHANGED <<input, options, command, file, damaged, chunk, samples, out, taken, builder>>
  BY Zenon DEF ReadChunk, Comp, Left, Exit, creating, Decoded
<1>2. /\ CommandTypes /\ BuilderHoldsTheChunks /\ FileIsTheBuilders /\ ChunksAreRead /\ ChunksAreUsed
      /\ command \in {"extract", "gen-zdict"} /\ file.header
  <2>1. CommandTypes /\ BuilderHoldsTheChunks /\ FileIsTheBuilders /\ ChunksAreRead /\ ChunksAreUsed
    BY DEF IInv
  <2> QED BY <1>1, <2>1 DEF CommandTypes, FileIsTheBuilders
<1>3. \/ pc' = "loaded" /\ UNCHANGED status
      \/ Refused
  <2>1. CASE Empty
    BY <2>1
  <2>2. CASE Bad
    BY <2>2
  <2>3. CASE Whole
    <3>1. PICK o \in Decode(options.ct, dict, Comp) : Read(o)
      BY <2>3
    <3> HIDE DEF Fine
    <3> QED BY <3>1
  <2> QED BY <1>1, <2>1, <2>2, <2>3
<1>4. CommandTypes'
  BY <1>1, <1>2, <1>3 DEF CommandTypes
<1>5. BuilderHoldsTheChunks'
  BY <1>1, <1>2, <1>3, BuilderIsKept
<1>6. FileIsTheBuilders'
  <2>1. command' # "create"
    BY <1>1, <1>2
  <2> QED BY <1>1, <1>2, <1>3, <2>1, FileIsKept
(* What the buffers hold after a chunk was loaded.                          *)
<1>7. ASSUME Reliable, pc' = "loaded"
      PROVE  /\ Len(Comp) = Len(Coded(chunk))
             /\ data' = [buffer |-> b, length |-> Len(Chunk(chunk))]
             /\ DOMAIN bufs' = 1 .. Len(file.idx) + 1 /\ bufs'[b] = Chunk(chunk)
             /\ \A k : k # b => bufs'[k] = bufs[k]
  <2>1. "index" \notin damaged /\ chunk \in 1 .. Len(file.idx)
    BY <1>1, <1>7, CompFacts DEF Reliable
  <2>2. /\ chunk \in Nat \ {0} /\ Len(file.idx) \in Nat /\ e.compLength = Len(Coded(chunk))
        /\ (chunk # 1 => Chunk(chunk) # <<>>)
    BY <1>2, <2>1, EntryFacts
  <2>3. /\ DOMAIN bufs = 1 .. Len(file.idx) + 1
        /\ (chunk = 1 => bufs[DictBuffer] = <<>>)
    BY <1>1, <1>2, <1>7 DEF ChunksAreRead
  <2>4. /\ (Coded(chunk) = <<>> <=> Chunk(chunk) = <<>>) /\ Coded(chunk) \in Seq(Units)
        /\ Chunk(chunk) \in Seq(Byte)
    BY <1>2, <2>2, CodedFacts
  <2>5. CASE Empty
    <3>1. Len(Coded(chunk)) = 0
      BY <2>2, <2>5
    <3>2. Coded(chunk) = <<>> /\ Chunk(chunk) = <<>> /\ chunk = 1
      BY <2>2, <2>4, <3>1, EmptySeq
    <3>3. b = DictBuffer /\ bufs[b] = Chunk(chunk) /\ Len(Chunk(chunk)) = 0
      BY <2>3, <3>2, EmptySeq DEF Buffer
    <3>4. Len(Comp) = Len(Coded(chunk))
      BY <1>1, <1>7, <3>1, CompFacts
    <3>5. data' = [buffer |-> b, length |-> 0] /\ bufs' = bufs
      BY <2>5
    <3> HIDE DEF b
    <3> QED BY <2>3, <3>3, <3>4, <3>5
  <2>6. CASE Whole
    <3>1. /\ Decode(options.ct, dict, Comp) = {Outcome(Chunk(chunk))}
          /\ Len(Comp) = e.compLength
      BY <1>1, <1>7, <2>6, ChunkIsRight
    <3>2. PICK o \in Decode(options.ct, dict, Comp) : Read(o)
      BY <2>6
    <3>3. o.plain = Chunk(chunk)
      BY <3>1, <3>2 DEF Outcome
    <3>4. /\ bufs' = [bufs EXCEPT ![b] = o.plain]
          /\ data' = [buffer |-> b, length |-> Len(bufs'[b])]
      <4>1. pc' # "exited"
        BY <1>7
      <4> HIDE DEF Fine
      <4> QED BY <3>2, <4>1
    <3>5. b \in 1 .. Len(file.idx) + 1
      <4> DEFINE m == Len(file.idx)
      <4>1. chunk \in 1 .. m /\ m \in Nat
        BY <2>1, <2>2
      <4> HIDE DEF m
      <4>2. b \in 1 .. m + 1
        BY <4>1 DEF Buffer, DictBuffer
      <4> QED BY <4>2 DEF m
    <3> HIDE DEF b
    <3>6. DOMAIN bufs' = 1 .. Len(file.idx) + 1 /\ bufs'[b] = Chunk(chunk)
      BY <2>3, <3>3, <3>4, <3>5
    <3>7. \A k : k # b => bufs'[k] = bufs[k]
      <4> SUFFICES ASSUME NEW k, k # b PROVE bufs'[k] = bufs[k]
        OBVIOUS
      <4> QED BY <3>4
    <3> QED BY <2>2, <3>1, <3>4, <3>6, <3>7
  <2> QED BY <1>1, <1>7, <2>5, <2>6
<1>8. chunk # 1 => b # DictBuffer
  BY DEF Buffer, DictBuffer
<1> HIDE DEF b
<1>9. ChunksAreRead'
  <2> SUFFICES ASSUME pc' = "loaded" PROVE ChunksAreRead'
    BY <1>3 DEF ChunksAreRead
  <2>1. chunk' \in 1 .. Len(file'.idx) + 1 /\ chunk' <= Len(file'.idx)
    BY <1>1, <1>2 DEF ChunksAreRead, ChunksLeft
  <2>2. ASSUME Reliable'
        PROVE  /\ DOMAIN bufs' = 1 .. Len(file'.idx) + 1
               /\ pos' = Begins(builder'.idx, chunk' + 1)
               /\ pos' <= Len(file'.body)
               /\ chunk' > 1 => bufs'[DictBuffer] = options'.dict
               /\ data' = [buffer |-> Buffer(chunk)', length |-> Len(Chunk(chunk)')]
               /\ bufs'[Buffer(chunk)'] = Chunk(chunk)'
    <3>1. Reliable
      BY <1>1, <2>2 DEF Reliable
    <3>2. Buffer(chunk)' = b /\ Chunk(chunk)' = Chunk(chunk)
      BY <1>1, ContentIsKept DEF Buffer, b, Chunk, UpTo
    <3>3. pos' = Begins(builder'.idx, chunk' + 1) /\ pos' <= Len(file'.body) /\ chunk \in 1 .. Len(file.idx)
      BY <1>1, <1>7, <3>1, CompFacts
    <3>4. chunk > 1 => bufs[DictBuffer] = options.dict
      BY <1>1, <1>2, <3>1 DEF ChunksAreRead
    <3>5. chunk > 1 => DictBuffer # b
      BY <1>8
    <3> QED BY <1>1, <1>7, <3>1, <3>2, <3>3, <3>4, <3>5
  <2> QED BY <2>1, <2>2 DEF ChunksAreRead
<1>10. ChunksAreUsed'
  <2> SUFFICES ASSUME pc' = "loaded" PROVE ChunksAreUsed'
    BY <1>3 DEF ChunksAreUsed
  <2>1. \A k : UpTo(k)' = UpTo(k) /\ Chunk(k)' = Chunk(k)
    BY <1>1, ContentIsKept
  <2>2. Reliable' <=> Reliable
    BY <1>1 DEF Reliable
  <2>3. command' = "extract" /\ Reliable' =>
          out' = IF chunk' = 1 THEN <<>> ELSE SubSeq(input', 1, UpTo(chunk - 2)')
    <3>1. command = "extract" /\ Reliable =>
            out = IF chunk = 1 THEN <<>> ELSE SubSeq(input, 1, UpTo(chunk - 2))
      BY <1>1, <1>2 DEF ChunksAreUsed
    <3>2. UpTo(chunk - 2)' = UpTo(chunk - 2)
      BY <1>1 DEF UpTo
    <3> QED BY <1>1, <2>2, <3>1, <3>2
  <2>4. ASSUME command' = "gen-zdict", Reliable'
        PROVE  /\ \A k \in 2 .. chunk' - 1 : bufs'[k] = Chunk(k)'
               /\ samples' = [k \in 1 .. chunk' - 2 |->
                               [buffer |-> k + 1, length |-> Len(Chunk(k + 1)')]]
    <3>1. /\ \A k \in 2 .. chunk - 1 : bufs[k] = Chunk(k)
          /\ samples = [k \in 1 .. chunk - 2 |-> [buffer |-> k + 1, length |-> Len(Chunk(k + 1))]]
      BY <1>1, <1>2, <2>2, <2>4 DEF ChunksAreUsed
    <3>2. \A k \in 2 .. chunk - 1 : k # b
      <4>1. chunk \in 1 .. Len(file.idx) /\ Len(file.idx) \in Nat
        BY <1>1, <1>2, <2>2, <2>4, CompFacts, EntryFacts DEF Reliable
      <4>2. b = chunk \/ b = 1
        BY <1>1, <2>4 DEF b, Buffer, DictBuffer
      <4> DEFINE m == Len(file.idx)
      <4> HIDE DEF m
      <4>3. chunk \in Nat
        BY <4>1 DEF m
      <4> QED BY <4>2, <4>3
    <3>3. \A k \in 2 .. chunk - 1 : bufs'[k] = Chunk(k)
      BY <1>7, <2>2, <2>4, <3>1, <3>2
    <3>4. samples' = [k \in 1 .. chunk - 2 |-> [buffer |-> k + 1, length |-> Len(Chunk(k + 1)')]]
      BY <1>1, <2>1, <3>1
    <3> QED BY <1>1, <2>1, <3>3, <3>4
  <2>5. command' = "gen-zdict" => out' = Old
    BY <1>1, <1>2 DEF ChunksAreUsed
  <2> QED BY <2>3, <2>4, <2>5 DEF ChunksAreUsed
<1>11. ExtractedIsAPrefix' /\ ExtractedIsAll'
  BY <1>1, <1>3 DEF IInv, ExtractedIsAPrefix, ExtractedIsAll, Ended
<1>12. DictionaryIsOfTheContent'
  <2>1. command' = "gen-zdict" => out' = Old
    BY <1>1, <1>2 DEF ChunksAreUsed
  <2> QED BY <1>3, <2>1 DEF DictionaryIsOfTheContent, Ended
(* What arrived as it was is not refused.                                   *)
<1>13. IntactFilesAreRead'
  <2> SUFFICES ASSUME pc' = "exited", file.body = builder.body, damaged = {}
               PROVE  FALSE
    BY <1>1, <1>3 DEF IntactFilesAreRead
  <2>1. Reliable /\ "index" \notin damaged
    BY DEF Reliable
  <2>2. Len(Comp) = Len(Coded(chunk)) /\ chunk \in 1 .. Len(file.idx)
        /\ (Len(Comp) = Len(Coded(chunk)) => Comp = Coded(chunk))
    BY <1>1, <2>1, CompFacts
  <2>3. /\ chunk \in Nat \ {0} /\ e.compLength = Len(Coded(chunk))
        /\ e.digest = (IF chunk = 1 /\ options.dict = <<>> THEN <<>> ELSE Sum(Coded(chunk)))
    BY <1>2, <2>1, <2>2, EntryFacts
  <2>4. ASSUME ~empty PROVE whole /\ Verified(e, Comp)
    <3>1. whole /\ Comp = Coded(chunk)
      BY <2>2, <2>3
    <3>2. Verified(e, Comp)
      <4> SUFFICES ASSUME command = "extract" PROVE Sum(Comp) = e.digest
        BY DEF Verified
      <4>1. ~(chunk = 1 /\ options.dict = <<>>)
        <5> SUFFICES ASSUME chunk = 1, options.dict = <<>> PROVE FALSE
          OBVIOUS
        <5>1. Coded(chunk) = <<>>
          BY <1>2, <2>3, CodedFacts, ChunkFacts
        <5>2. e.compLength = 0
          BY <2>3, <5>1
        <5> QED BY <2>4, <5>2
      <4> QED BY <2>3, <3>1, <4>1
    <3> QED BY <3>1, <3>2
  <2>5. CASE Empty
    BY <2>5
  <2>6. CASE Bad
    BY <2>4, <2>6
  <2>7. CASE Whole
    <3>1. /\ Decode(options.ct, dict, Comp) = {Outcome(Chunk(chunk))}
          /\ Len(Chunk(chunk)) = e.length /\ VerifiedPlain(e, Chunk(chunk))
      BY <1>1, <2>1, <2>7, ChunkIsRight
    <3>2. PICK o \in Decode(options.ct, dict, Comp) : Read(o)
      BY <2>7
    <3>3. o = Outcome(Chunk(chunk))
      BY <3>1, <3>2
    <3>4. Fine(o)
      <4>1. o.ok /\ o.plain = Chunk(chunk)
        BY <3>3 DEF Outcome
      <4> QED BY <3>1, <4>1
    <3> HIDE DEF Fine
    <3> QED BY <3>2, <3>4
  <2> QED BY <1>1, <2>5, <2>6, <2>7
<1> QED BY <1>4, <1>5, <1>6, <1>9, <1>10, <1>11, <1>12, <1>13 DEF IInv

(* The chunk that was loaded, as the next step sees it.                     *)
LEMMA LoadedFacts ==
  ASSUME IInv, pc = "loaded"
  PROVE  /\ file.header /\ chunk \in 1 .. Len(file.idx) /\ Len(file.idx) \in Nat
         /\ Reliable =>
              /\ data = [buffer |-> Buffer(chunk), length |-> Len(Chunk(chunk))]
              /\ bufs[Buffer(chunk)] = Chunk(chunk)
              /\ SubSeq(bufs[data.buffer], 1, data.length) = Chunk(chunk)
<1>1. CommandTypes /\ BuilderHoldsTheChunks /\ FileIsTheBuilders /\ ChunksAreRead
  BY DEF IInv
<1>2. file.header /\ chunk \in 1 .. Len(file.idx) + 1 /\ chunk <= Len(file.idx)
  BY <1>1 DEF FileIsTheBuilders, ChunksAreRead
<1>3. Len(file.idx) \in Nat
  BY <1>1, <1>2, BodyFacts DEF FileIsTheBuilders
<1>4. chunk \in 1 .. Len(file.idx) /\ chunk \in Nat \ {0}
  BY <1>2, <1>3
<1>5. ASSUME Reliable
      PROVE  /\ data = [buffer |-> Buffer(chunk), length |-> Len(Chunk(chunk))]
             /\ bufs[Buffer(chunk)] = Chunk(chunk)
             /\ SubSeq(bufs[data.buffer], 1, data.length) = Chunk(chunk)
  <2>1. /\ data = [buffer |-> Buffer(chunk), length |-> Len(Chunk(chunk))]
        /\ bufs[Buffer(chunk)] = Chunk(chunk)
    BY <1>1, <1>5 DEF ChunksAreRead
  <2>2. Chunk(chunk) \in Seq(Byte)
    BY <1>1, <1>4, CodedFacts
  <2>3. SubSeq(Chunk(chunk), 1, Len(Chunk(chunk))) = Chunk(chunk)
    BY <2>2, SubSeqFull
  <2> QED BY <2>1, <2>3
<1> QED BY <1>2, <1>3, <1>4, <1>5

LEMMA BindDictIInv ==
  ASSUME IInv, BindDict
  PROVE  IInv'
<1> DEFINE dict == SubSeq(bufs[data.buffer], 1, data.length)
           loads == DecoderLoads(options.ct, dict) \/ (command = "gen-zdict" /\ Len(file.idx) = 1)
<1>1. /\ pc = "loaded" /\ chunk = 1
      /\ \/ loads /\ pc' = "chunk" /\ chunk' = 2 /\ UNCHANGED status
         \/ ~loads /\ pc' = "exited" /\ status' = "refused" /\ UNCHANGED chunk
      /\ UNCHANGED <<input, options, command, file, damaged, pos, bufs, data, samples, out, taken, builder>>
  BY DEF BindDict, Exit, creating
<1>2. /\ CommandTypes /\ BuilderHoldsTheChunks /\ FileIsTheBuilders /\ ChunksAreRead /\ ChunksAreUsed
      /\ command \in {"extract", "gen-zdict"} /\ file.header
  <2>1. CommandTypes /\ BuilderHoldsTheChunks /\ FileIsTheBuilders /\ ChunksAreRead /\ ChunksAreUsed
    BY DEF IInv
  <2> QED BY <1>1, <2>1 DEF CommandTypes, FileIsTheBuilders
<1>3. chunk \in 1 .. Len(file.idx) /\ Len(file.idx) \in Nat
  BY <1>1, LoadedFacts
<1>4. Reliable => dict = options.dict /\ bufs[DictBuffer] = options.dict
  BY <1>1, <1>2, LoadedFacts, ChunkFacts DEF Buffer
<1> HIDE DEF dict
<1>5. CommandTypes' /\ BuilderHoldsTheChunks' /\ FileIsTheBuilders'
  <2>1. CommandTypes'
    BY <1>1, <1>2 DEF CommandTypes
  <2>2. pc' \notin {"builder", "add", "write"} /\ command' # "create"
    BY <1>1, <1>2
  <2> QED BY <1>1, <1>2, <2>1, <2>2, BuilderIsKept, FileIsKept
<1>6. ChunksAreRead'
  <2> SUFFICES ASSUME pc' = "chunk" PROVE ChunksAreRead'
    BY <1>1 DEF ChunksAreRead
  <2>1. chunk' = 2
    BY <1>1
  <2>2. chunk' \in 1 .. Len(file'.idx) + 1
    <3> DEFINE m == Len(file.idx)
    <3>1. m' = m /\ m \in Nat /\ 1 \in 1 .. m
      BY <1>1, <1>3
    <3> HIDE DEF m
    <3>2. 2 \in 1 .. m' + 1
      BY <3>1
    <3> QED BY <2>1, <3>2 DEF m
  <2>3. ASSUME Reliable'
        PROVE  /\ DOMAIN bufs' = 1 .. Len(file'.idx) + 1 /\ pos' <= Len(file'.body)
               /\ pos' = Begins(builder'.idx, chunk')
               /\ bufs'[DictBuffer] = options'.dict
    <3>1. Reliable
      BY <1>1, <2>3 DEF Reliable
    <3>2. /\ DOMAIN bufs = 1 .. Len(file.idx) + 1 /\ pos <= Len(file.body)
          /\ pos = Begins(builder.idx, chunk + 1)
      BY <1>1, <1>2, <3>1 DEF ChunksAreRead
    <3>3. chunk + 1 = chunk'
      BY <1>1
    <3> QED BY <1>1, <1>4, <3>1, <3>2, <3>3
  <2> QED BY <2>1, <2>2, <2>3 DEF ChunksAreRead
<1>7. ChunksAreUsed'
  <2> SUFFICES ASSUME pc' = "chunk" PROVE ChunksAreUsed'
    BY <1>1 DEF ChunksAreUsed
  <2>1. chunk' = 2 /\ (Reliable' <=> Reliable)
    BY <1>1 DEF Reliable
  <2>2. SubSeq(input', 1, UpTo(chunk - 2)') = <<>>
    <3>1. UpTo(chunk - 2)' = UpTo(0)
      BY <1>1, <2>1 DEF UpTo
    <3>2. UpTo(0) = 0
      BY <1>2, UpToFacts
    <3> QED BY <3>1, <3>2, SubSeqEmpty
  <2>3. command = "extract" /\ Reliable => out = <<>>
    BY <1>1, <1>2 DEF ChunksAreUsed
  <2>4. ASSUME command = "gen-zdict", Reliable
        PROVE  /\ \A k \in 2 .. chunk' - 1 : bufs'[k] = Chunk(k)'
               /\ samples' = [k \in 1 .. chunk' - 2 |->
                               [buffer |-> k + 1, length |-> Len(Chunk(k + 1)')]]
    <3>1. samples = [k \in 1 .. chunk - 2 |-> [buffer |-> k + 1, length |-> Len(Chunk(k + 1))]]
      BY <1>1, <1>2, <2>4 DEF ChunksAreUsed
    <3>2. 1 .. chunk - 2 = {} /\ 1 .. chunk' - 2 = {} /\ 2 .. chunk' - 1 = {}
      BY <1>1, <2>1
    <3> QED BY <1>1, <3>1, <3>2
  <2>5. command = "gen-zdict" => out = Old
    BY <1>1, <1>2 DEF ChunksAreUsed
  <2>6. chunk' # 1
    BY <2>1
  <2> QED BY <1>1, <2>1, <2>2, <2>3, <2>4, <2>5, <2>6 DEF ChunksAreUsed
<1>8. ExtractedIsAPrefix' /\ ExtractedIsAll' /\ DictionaryIsOfTheContent'
  <2>1. command' = "gen-zdict" => out' = Old
    BY <1>1, <1>2 DEF ChunksAreUsed
  <2> QED BY <1>1, <2>1 DEF IInv, ExtractedIsAPrefix, ExtractedIsAll, DictionaryIsOfTheContent, Ended
<1>9. IntactFilesAreRead'
  <2> SUFFICES ASSUME damaged = {} PROVE loads
    BY <1>1 DEF IntactFilesAreRead
  <2>1. dict = options.dict
    BY <1>4 DEF Reliable
  <2>2. EncoderLoads(options.ct, options.dict)
    <3>1. Len(builder.idx) # 0
      <4>1. Len(file.idx) = Len(builder.idx)
        BY <1>2 DEF FileIsTheBuilders
      <4> QED BY <1>3, <4>1
    <3> QED BY <1>2, <3>1 DEF BuilderHoldsTheChunks
  <2> QED BY <2>1, <2>2 DEF EncoderLoads, DecoderLoads
<1> QED BY <1>5, <1>6, <1>7, <1>8, <1>9 DEF IInv

(* A chunk of the content is put behind those before it, or a part of it.   *)
LEMMA WriteChunkIInv ==
  ASSUME IInv, WriteChunk
  PROVE  IInv'
<1> DEFINE plain == SubSeq(bufs[data.buffer], 1, data.length)
<1>1. /\ pc = "loaded" /\ chunk > 1 /\ command = "extract"
      /\ \/ out' = out \o plain /\ pc' = "chunk" /\ chunk' = chunk + 1 /\ UNCHANGED status
         \/ /\ \E n \in 0 .. Len(plain) : out' = out \o SubSeq(plain, 1, n)
            /\ pc' = "exited" /\ status' = "failed"
      /\ UNCHANGED <<input, options, command, file, damaged, pos, bufs, data, samples, taken, builder>>
  BY DEF WriteChunk, Exit, creating
<1>2. /\ CommandTypes /\ BuilderHoldsTheChunks /\ FileIsTheBuilders /\ ChunksAreRead /\ ChunksAreUsed
      /\ file.header
  <2>1. CommandTypes /\ BuilderHoldsTheChunks /\ FileIsTheBuilders /\ ChunksAreRead /\ ChunksAreUsed
    BY DEF IInv
  <2> QED BY <1>1, <2>1 DEF FileIsTheBuilders
<1>3. chunk \in 1 .. Len(file.idx) /\ Len(file.idx) \in Nat /\ chunk \in Nat \ {0, 1}
  <2>1. chunk \in 1 .. Len(file.idx) /\ Len(file.idx) \in Nat
    BY <1>1, LoadedFacts
  <2> QED BY <1>1, <2>1
<1>4. CommandTypes' /\ BuilderHoldsTheChunks' /\ FileIsTheBuilders'
  <2>1. CommandTypes'
    BY <1>1, <1>2 DEF CommandTypes
  <2>2. pc' \notin {"builder", "add", "write"} /\ command' # "create"
    BY <1>1
  <2> QED BY <1>1, <1>2, <2>1, <2>2, BuilderIsKept, FileIsKept
<1> DEFINE a == UpTo(chunk - 2)
           b == UpTo(chunk - 1)
<1>5. /\ input \in Seq(Byte) /\ Len(input) \in Nat /\ a \in 0 .. Len(input) /\ b \in a .. Len(input)
      /\ Chunk(chunk) = SubSeq(input, a + 1, b)
  <2>1. chunk - 2 \in Nat /\ (chunk - 2) + 1 = chunk - 1
    BY <1>3
  <2>2. UpTo(chunk - 2) \in 0 .. Len(input) /\ UpTo((chunk - 2) + 1) \in UpTo(chunk - 2) .. Len(input)
    BY <1>2, <2>1, UpToFacts
  <2>3. Chunk(chunk) = SubSeq(input, a + 1, b)
    BY <1>2, <1>3, ChunkFacts
  <2> QED BY <1>2, <2>1, <2>2, <2>3, OptionsFacts
<1>6. ASSUME Reliable
      PROVE  out = SubSeq(input, 1, a) /\ plain = SubSeq(input, a + 1, b)
  <2>1. chunk # 1
    BY <1>3
  <2> QED BY <1>1, <1>2, <1>5, <1>6, <2>1, LoadedFacts DEF ChunksAreUsed
<1> HIDE DEF plain, a, b
<1>7. ChunksAreRead'
  <2> SUFFICES ASSUME pc' = "chunk" PROVE ChunksAreRead'
    BY <1>1 DEF ChunksAreRead
  <2>1. chunk' = chunk + 1
    BY <1>1
  <2>2. chunk' \in 1 .. Len(file'.idx) + 1 /\ chunk' > 1
    BY <1>1, <1>3, <2>1
  <2>3. ASSUME Reliable'
        PROVE  /\ DOMAIN bufs' = 1 .. Len(file'.idx) + 1 /\ pos' <= Len(file'.body)
               /\ pos' = Begins(builder'.idx, chunk')
               /\ bufs'[DictBuffer] = options'.dict
    <3>1. Reliable
      BY <1>1, <2>3 DEF Reliable
    <3>2. /\ DOMAIN bufs = 1 .. Len(file.idx) + 1 /\ pos <= Len(file.body)
          /\ pos = Begins(builder.idx, chunk + 1) /\ bufs[DictBuffer] = options.dict
      BY <1>1, <1>2, <3>1 DEF ChunksAreRead
    <3> QED BY <1>1, <2>1, <3>2
  <2>4. chunk' # 1
    BY <2>2
  <2> QED BY <2>2, <2>3, <2>4 DEF ChunksAreRead
<1>8. ChunksAreUsed'
  <2> SUFFICES ASSUME pc' = "chunk", Reliable'
               PROVE  out' = IF chunk' = 1 THEN <<>> ELSE SubSeq(input', 1, UpTo(chunk - 2)')
    BY <1>1 DEF ChunksAreUsed
  <2>1. Reliable /\ chunk' = chunk + 1 /\ out' = out \o plain
    BY <1>1 DEF Reliable
  <2>2. chunk' # 1 /\ UpTo(chunk - 2)' = b
    <3>1. chunk' - 2 = chunk - 1 /\ chunk' # 1
      BY <1>3, <2>1
    <3> QED BY <1>1, <3>1 DEF UpTo, b
  <2>3. SubSeq(input, 1, a) \o SubSeq(input, a + 1, b) = SubSeq(input, 1, b)
    <3>1. 1 \in 1 .. Len(input) + 1 /\ a \in 1 - 1 .. Len(input)
      BY <1>5
    <3> QED BY <1>5, <3>1, ConcatAdjacentSubSeq
  <2> QED BY <1>1, <1>6, <2>1, <2>2, <2>3
<1>9. ExtractedIsAPrefix'
  <2> SUFFICES ASSUME Reliable PROVE IsPrefix(out', input)
    BY <1>1 DEF ExtractedIsAPrefix, Reliable
  <2>1. CASE out' = out \o plain
    <3>1. SubSeq(input, 1, a) \o SubSeq(input, a + 1, b) = SubSeq(input, 1, b)
      <4>1. 1 \in 1 .. Len(input) + 1 /\ a \in 1 - 1 .. Len(input)
        BY <1>5
      <4> QED BY <1>5, <4>1, ConcatAdjacentSubSeq
    <3>2. b \in 0 .. Len(input)
      BY <1>5
    <3>3. IsPrefix(SubSeq(input, 1, b), input)
      BY <1>5, <3>2, PrefixFacts
    <3> QED BY <1>6, <2>1, <3>1, <3>3
  <2>2. CASE \E n \in 0 .. Len(plain) : out' = out \o SubSeq(plain, 1, n)
    <3>1. PICK n \in 0 .. Len(plain) : out' = out \o SubSeq(plain, 1, n)
      BY <2>2
    <3>2. n \in 0 .. b - a
      BY <1>5, <1>6, <3>1, SubSeqFacts
    <3>3. SubSeq(input, 1, a) \o SubSeq(SubSeq(input, a + 1, b), 1, n) = SubSeq(input, 1, a + n)
      BY <1>5, <3>2, PrefixExtends
    <3>4. a + n \in 0 .. Len(input)
      BY <1>5, <3>2
    <3>5. IsPrefix(SubSeq(input, 1, a + n), input)
      BY <1>5, <3>4, PrefixFacts
    <3> QED BY <1>6, <3>1, <3>3, <3>5
  <2> QED BY <1>1, <2>1, <2>2
<1>10. ExtractedIsAll' /\ IntactFilesAreRead' /\ DictionaryIsOfTheContent'
  BY <1>1 DEF ExtractedIsAll, IntactFilesAreRead, DictionaryIsOfTheContent, Ended
<1> QED BY <1>4, <1>7, <1>8, <1>9, <1>10 DEF IInv

(* Behind the last entry of the index all of the input has been read.       *)
LEMMA EndOfIndex ==
  ASSUME IInv, pc = "chunk", ~ChunksLeft
  PROVE  /\ chunk \in Nat \ {0, 1} /\ chunk > Len(file.idx)
         /\ UpTo(chunk - 2) = Len(input) /\ SubSeq(input, 1, Len(input)) = input
<1>1. /\ CommandTypes /\ BuilderHoldsTheChunks /\ FileIsTheBuilders /\ ChunksAreRead
  BY DEF IInv
<1>2. /\ file.header /\ Len(file.idx) = Len(builder.idx) /\ builder.idx # <<>> /\ taken = Len(input)
  BY <1>1 DEF FileIsTheBuilders
<1> DEFINE n == Len(builder.idx)
<1>3. n \in Nat /\ DOMAIN builder.idx = 1 .. n /\ builder.idx = [k \in 1 .. n |-> Recorded(k)]
  BY <1>1, BodyFacts DEF BuilderHoldsTheChunks
<1>4. n # 0
  <2> SUFFICES ASSUME n = 0 PROVE FALSE
    OBVIOUS
  <2> DEFINE idx == builder.idx
  <2>1. idx = [k \in 1 .. 0 |-> Recorded(k)]
    BY <1>3
  <2> HIDE DEF idx
  <2>2. idx = <<>>
    BY <2>1
  <2> QED BY <1>2, <2>2 DEF idx
<1>5. chunk \in 1 .. n + 1 /\ ~(chunk <= n)
  BY <1>1, <1>2 DEF ChunksAreRead, ChunksLeft
<1>6. taken = UpTo(n - 1)
  BY <1>1, <1>4 DEF BuilderHoldsTheChunks
<1> HIDE DEF n
<1>7. chunk = n + 1 /\ chunk \in Nat \ {0, 1} /\ chunk - 2 = n - 1 /\ chunk > n
  BY <1>3, <1>4, <1>5
<1>8. SubSeq(input, 1, Len(input)) = input
  BY <1>1, OptionsFacts, SubSeqFull
<1> QED BY <1>2, <1>6, <1>7, <1>8 DEF n

LEMMA LastWrittenIInv ==
  ASSUME IInv, LastWritten
  PROVE  IInv'
<1>1. /\ pc = "chunk" /\ ~ChunksLeft /\ command = "extract" /\ pc' = "exited" /\ status' = "ok"
      /\ UNCHANGED <<input, options, command, file, damaged, taken, builder,
                     chunk, pos, bufs, data, samples, out>>
  BY DEF LastWritten, Exit, creating, reading
<1>2. /\ CommandTypes /\ BuilderHoldsTheChunks /\ FileIsTheBuilders /\ ChunksAreRead /\ ChunksAreUsed
      /\ file.header
  <2>1. CommandTypes /\ BuilderHoldsTheChunks /\ FileIsTheBuilders /\ ChunksAreRead /\ ChunksAreUsed
    BY DEF IInv
  <2> QED BY <1>1, <2>1 DEF FileIsTheBuilders
<1>3. CommandTypes' /\ BuilderHoldsTheChunks' /\ FileIsTheBuilders'
  <2>1. CommandTypes'
    BY <1>1, <1>2 DEF CommandTypes
  <2>2. pc' \notin {"builder", "add", "write"} /\ command' # "create"
    BY <1>1
  <2> QED BY <1>1, <1>2, <2>1, <2>2, BuilderIsKept, FileIsKept
<1>4. ChunksAreRead' /\ ChunksAreUsed'
  BY <1>1 DEF ChunksAreRead, ChunksAreUsed
<1>5. Reliable => out = input
  <2> SUFFICES ASSUME Reliable PROVE out = input
    OBVIOUS
  <2>1. chunk # 1 /\ UpTo(chunk - 2) = Len(input) /\ SubSeq(input, 1, Len(input)) = input
    BY <1>1, EndOfIndex
  <2> QED BY <1>1, <1>2, <2>1 DEF ChunksAreUsed
<1>6. ExtractedIsAPrefix' /\ ExtractedIsAll'
  BY <1>1, <1>5 DEF IInv, ExtractedIsAPrefix, ExtractedIsAll, Ended, Reliable
<1>7. IntactFilesAreRead' /\ DictionaryIsOfTheContent'
  BY <1>1 DEF IntactFilesAreRead, DictionaryIsOfTheContent, Ended
<1> QED BY <1>3, <1>4, <1>6, <1>7 DEF IInv

LEMMA KeepSampleIInv ==
  ASSUME IInv, KeepSample
  PROVE  IInv'
<1>1. /\ pc = "loaded" /\ chunk > 1 /\ command = "gen-zdict" /\ pc' = "chunk" /\ chunk' = chunk + 1
      /\ samples' = Append(samples, data)
      /\ UNCHANGED <<input, options, command, status, file, damaged, pos, bufs, data, out, taken, builder>>
  BY DEF KeepSample, creating
<1>2. /\ CommandTypes /\ BuilderHoldsTheChunks /\ FileIsTheBuilders /\ ChunksAreRead /\ ChunksAreUsed
      /\ file.header
  <2>1. CommandTypes /\ BuilderHoldsTheChunks /\ FileIsTheBuilders /\ ChunksAreRead /\ ChunksAreUsed
    BY DEF IInv
  <2> QED BY <1>1, <2>1 DEF FileIsTheBuilders
<1>3. chunk \in 1 .. Len(file.idx) /\ Len(file.idx) \in Nat /\ chunk \in Nat \ {0, 1}
  <2>1. chunk \in 1 .. Len(file.idx) /\ Len(file.idx) \in Nat
    BY <1>1, LoadedFacts
  <2> QED BY <1>1, <2>1
<1>4. CommandTypes' /\ BuilderHoldsTheChunks' /\ FileIsTheBuilders'
  <2>1. CommandTypes'
    BY <1>1, <1>2 DEF CommandTypes
  <2>2. pc' \notin {"builder", "add", "write"} /\ command' # "create"
    BY <1>1
  <2> QED BY <1>1, <1>2, <2>1, <2>2, BuilderIsKept, FileIsKept
<1>5. ChunksAreRead'
  <2>1. chunk' \in 1 .. Len(file'.idx) + 1 /\ chunk' > 1
    BY <1>1, <1>3
  <2>2. ASSUME Reliable'
        PROVE  /\ DOMAIN bufs' = 1 .. Len(file'.idx) + 1 /\ pos' <= Len(file'.body)
               /\ pos' = Begins(builder'.idx, chunk')
               /\ bufs'[DictBuffer] = options'.dict
    <3>1. Reliable
      BY <1>1, <2>2 DEF Reliable
    <3>2. /\ DOMAIN bufs = 1 .. Len(file.idx) + 1 /\ pos <= Len(file.body)
          /\ pos = Begins(builder.idx, chunk + 1) /\ bufs[DictBuffer] = options.dict
      BY <1>1, <1>2, <3>1 DEF ChunksAreRead
    <3> QED BY <1>1, <3>2
  <2>3. chunk' # 1
    BY <2>1
  <2> QED BY <1>1, <2>1, <2>2, <2>3 DEF ChunksAreRead
<1>6. ChunksAreUsed'
  <2>1. out' = Old
    BY <1>1, <1>2 DEF ChunksAreUsed
  <2>2. ASSUME Reliable'
        PROVE  /\ \A k \in 2 .. chunk' - 1 : bufs'[k] = Chunk(k)'
               /\ samples' = [k \in 1 .. chunk' - 2 |->
                               [buffer |-> k + 1, length |-> Len(Chunk(k + 1)')]]
    <3>1. Reliable
      BY <1>1, <2>2 DEF Reliable
    <3>2. /\ \A k \in 2 .. chunk - 1 : bufs[k] = Chunk(k)
          /\ samples = [k \in 1 .. chunk - 2 |-> [buffer |-> k + 1, length |-> Len(Chunk(k + 1))]]
      BY <1>1, <1>2, <3>1 DEF ChunksAreUsed
    <3>3. data = [buffer |-> chunk, length |-> Len(Chunk(chunk))] /\ bufs[chunk] = Chunk(chunk)
      <4>1. Buffer(chunk) = chunk
        BY <1>1, <1>3 DEF Buffer
      <4> QED BY <1>1, <3>1, <4>1, LoadedFacts
    <3>4. \A k : Chunk(k)' = Chunk(k)
      BY <1>1, ContentIsKept
    <3>5. \A k \in 2 .. chunk' - 1 : bufs'[k] = Chunk(k)'
      <4>1. \A k \in 2 .. chunk' - 1 : k \in 2 .. chunk - 1 \/ k = chunk
        BY <1>1, <1>3
      <4> QED BY <1>1, <3>2, <3>3, <3>4, <4>1
    <3> DEFINE all(m) == [k \in 1 .. m |-> [buffer |-> k + 1, length |-> Len(Chunk(k + 1))]]
               S == {[buffer |-> k + 1, length |-> Len(Chunk(k + 1))] : k \in Nat}
               s == all(chunk - 2)
               t == all(chunk - 1)
    <3>6. /\ chunk - 2 \in Nat /\ chunk - 1 \in Nat /\ (chunk - 2) + 1 = chunk - 1
          /\ chunk - 1 \in 1 .. chunk - 1 /\ (chunk - 1) + 1 = chunk /\ chunk' - 2 = chunk - 1
      BY <1>1, <1>3
    <3>7. \A k \in Nat : [buffer |-> k + 1, length |-> Len(Chunk(k + 1))] \in S
      OBVIOUS
    <3> HIDE DEF S
    <3>8. s \in Seq(S) /\ Len(s) = chunk - 2 /\ t \in Seq(S) /\ Len(t) = chunk - 1
      <4>1. ASSUME NEW m \in Nat
            PROVE  all(m) \in Seq(S) /\ Len(all(m)) = m
        <5>1. \A k \in 1 .. m : [buffer |-> k + 1, length |-> Len(Chunk(k + 1))] \in S
          <6>1. \A k \in 1 .. m : k \in Nat
            BY <4>1
          <6> QED BY <3>7, <6>1
        <5> QED BY <4>1, <5>1, IsASeq
      <4> HIDE DEF all
      <4>2. all(chunk - 2) \in Seq(S) /\ Len(all(chunk - 2)) = chunk - 2
        BY <3>6, <4>1
      <4>3. all(chunk - 1) \in Seq(S) /\ Len(all(chunk - 1)) = chunk - 1
        BY <3>6, <4>1
      <4> QED BY <4>2, <4>3
    <3>9. \A k \in 1 .. chunk - 2 : t[k] = s[k]
      BY <3>6
    <3>10. t[chunk - 1] = data
      BY <3>3, <3>6
    <3>11. samples = s
      BY <3>2
    <3>12. t = [k \in 1 .. chunk' - 2 |-> [buffer |-> k + 1, length |-> Len(Chunk(k + 1)')]]
      BY <3>4, <3>6
    <3> HIDE DEF s, t
    <3>13. t = Append(s, t[Len(s) + 1])
      <4>1. Len(t) = Len(s) + 1 /\ \A k \in 1 .. Len(s) : t[k] = s[k]
        BY <3>6, <3>8, <3>9
      <4> QED BY <3>8, <4>1, OneMore
    <3>14. t = samples'
      BY <1>1, <3>6, <3>8, <3>10, <3>11, <3>13
    <3> QED BY <3>5, <3>12, <3>14
  <2> QED BY <1>1, <2>1, <2>2 DEF ChunksAreUsed
<1>7. ExtractedIsAPrefix' /\ ExtractedIsAll' /\ IntactFilesAreRead' /\ DictionaryIsOfTheContent'
  BY <1>1 DEF ExtractedIsAPrefix, ExtractedIsAll, IntactFilesAreRead, DictionaryIsOfTheContent, Ended
<1> QED BY <1>4, <1>5, <1>6, <1>7 DEF IInv

(* gen-zdict trains from the content, as nothing was decoded over it.       *)
LEMMA SampledIsTheContent ==
  ASSUME IInv, pc = "chunk", ~ChunksLeft, command = "gen-zdict", damaged = {}
  PROVE  Sampled = input
<1>1. CommandTypes /\ ChunksAreUsed /\ Reliable
  BY DEF IInv, Reliable
<1>2. /\ chunk \in Nat \ {0, 1} /\ UpTo(chunk - 2) = Len(input)
      /\ SubSeq(input, 1, Len(input)) = input
  BY EndOfIndex
<1>3. /\ \A k \in 2 .. chunk - 1 : bufs[k] = Chunk(k)
      /\ samples = [k \in 1 .. chunk - 2 |-> [buffer |-> k + 1, length |-> Len(Chunk(k + 1))]]
  BY <1>1 DEF ChunksAreUsed
<1> DEFINE n == chunk - 2
<1>4. n \in Nat /\ \A k \in 1 .. n : k + 1 \in 2 .. chunk - 1 /\ k + 1 \in Nat \ {0}
  BY <1>2
<1>5. DOMAIN samples = 1 .. n
  BY <1>3
<1>6. \A k \in 1 .. n : Sample(samples[k]) = Chunk(k + 1)
  <2> SUFFICES ASSUME NEW k \in 1 .. n PROVE Sample(samples[k]) = Chunk(k + 1)
    OBVIOUS
  <2>1. samples[k] = [buffer |-> k + 1, length |-> Len(Chunk(k + 1))]
    BY <1>3
  <2>2. bufs[k + 1] = Chunk(k + 1) /\ k + 1 \in Nat \ {0}
    <3> HIDE DEF n
    <3> QED BY <1>3, <1>4
  <2>3. Chunk(k + 1) \in Seq(Byte)
    BY <1>1, <2>2, CodedFacts
  <2>4. SubSeq(Chunk(k + 1), 1, Len(Chunk(k + 1))) = Chunk(k + 1)
    BY <2>3, SubSeqFull
  <2>5. Sample(samples[k]) = SubSeq(Chunk(k + 1), 1, IF Len(Chunk(k + 1)) < Len(Chunk(k + 1))
                                                     THEN Len(Chunk(k + 1)) ELSE Len(Chunk(k + 1)))
    BY <2>1, <2>2 DEF Sample
  <2> QED BY <2>4, <2>5
<1>7. Sampled = FlattenSeq([k \in 1 .. n |-> Chunk(k + 1)])
  <2>1. [k \in DOMAIN samples |-> Sample(samples[k])] = [k \in 1 .. n |-> Chunk(k + 1)]
    <3> HIDE DEF n
    <3> QED BY <1>5, <1>6
  <2> QED BY <2>1 DEF Sampled
<1>8. FlattenSeq([k \in 1 .. n |-> Chunk(k + 1)]) = SubSeq(input, 1, UpTo(n))
  BY <1>1, <1>4, ContentOfChunks
<1> QED BY <1>2, <1>7, <1>8

LEMMA TrainIInv ==
  ASSUME IInv, Train
  PROVE  IInv'
<1> DEFINE dict == Dictionary(Sampled)
<1>1. /\ pc = "chunk" /\ ~ChunksLeft /\ command = "gen-zdict" /\ pc' = "exited"
      /\ \/ status' = "refused" /\ out' = out
         \/ status' = "ok" /\ out' = dict
         \/ status' = "failed" /\ out' \in {out} \cup {SubSeq(dict, 1, n) : n \in 0 .. Len(dict)}
      /\ UNCHANGED <<input, options, command, file, damaged, chunk, pos, bufs, data, samples,
                     taken, builder>>
  BY DEF Train, Exit, creating
<1>2. /\ CommandTypes /\ BuilderHoldsTheChunks /\ FileIsTheBuilders /\ ChunksAreUsed /\ file.header
  <2>1. CommandTypes /\ BuilderHoldsTheChunks /\ FileIsTheBuilders /\ ChunksAreUsed
    BY DEF IInv
  <2> QED BY <1>1, <2>1 DEF FileIsTheBuilders
<1>3. CommandTypes' /\ BuilderHoldsTheChunks' /\ FileIsTheBuilders'
  <2>1. CommandTypes'
    BY <1>1, <1>2 DEF CommandTypes
  <2>2. pc' \notin {"builder", "add", "write"} /\ command' # "create"
    BY <1>1
  <2> QED BY <1>1, <1>2, <2>1, <2>2, BuilderIsKept, FileIsKept
<1>4. ChunksAreRead' /\ ChunksAreUsed'
  BY <1>1 DEF ChunksAreRead, ChunksAreUsed
<1>5. ExtractedIsAPrefix' /\ ExtractedIsAll'
  BY <1>1 DEF ExtractedIsAPrefix, ExtractedIsAll, Ended
<1>6. IntactFilesAreRead'
  BY <1>1, EndOfIndex DEF IntactFilesAreRead
<1>7. out = Old
  BY <1>1, <1>2 DEF ChunksAreUsed
<1>8. damaged = {} => dict = Dictionary(input)
  BY <1>1, SampledIsTheContent
<1>9. \A n \in 0 .. Len(Dictionary(input)) :
        IsPrefix(SubSeq(Dictionary(input), 1, n), Dictionary(input))
  <2>1. input \in Seq(Byte) /\ <<0, 0>> \in Seq(Byte)
    <3>1. 0 \in Byte
      BY DEF Byte
    <3> QED BY <1>2, <3>1, OptionsFacts
  <2>2. Dictionary(input) \in Seq(Byte)
    BY <2>1, ConcatProperties DEF Dictionary
  <2> QED BY <2>2, PrefixFacts
<1> HIDE DEF dict
<1>10. DictionaryIsOfTheContent'
  BY <1>1, <1>7, <1>8, <1>9 DEF DictionaryIsOfTheContent, Ended
<1> QED BY <1>3, <1>4, <1>5, <1>6, <1>10 DEF IInv

LEMMA StutterIInv ==
  ASSUME IInv, UNCHANGED vars
  PROVE  IInv'
<1>1. UNCHANGED <<input, options, pc, command, status, taken, builder, file, damaged, chunk, pos,
                  bufs, data, samples, out>>
  BY DEF vars
<1>2. /\ CommandTypes /\ BuilderHoldsTheChunks /\ FileIsTheBuilders /\ ChunksAreRead /\ ChunksAreUsed
      /\ ExtractedIsAPrefix /\ ExtractedIsAll /\ IntactFilesAreRead /\ DictionaryIsOfTheContent
  BY DEF IInv
<1>3. CommandTypes' /\ BuilderHoldsTheChunks' /\ FileIsTheBuilders'
  BY <1>1, <1>2, BuilderIsKept, FileIsKept DEF CommandTypes
<1>4. \A k : Chunk(k)' = Chunk(k) /\ Buffer(k)' = Buffer(k)
  BY <1>1, ContentIsKept DEF Buffer
<1>5. Chunk(chunk)' = Chunk(chunk) /\ Buffer(chunk)' = Buffer(chunk) /\ UpTo(chunk - 2)' = UpTo(chunk - 2)
  BY <1>1 DEF Chunk, Buffer, UpTo
<1>6. Reliable' <=> Reliable
  BY <1>1 DEF Reliable
<1>7. ChunksAreRead'
  BY <1>1, <1>2, <1>5, <1>6 DEF ChunksAreRead
<1>8. ChunksAreUsed'
  <2>1. [k \in 1 .. chunk' - 2 |-> [buffer |-> k + 1, length |-> Len(Chunk(k + 1)')]]
          = [k \in 1 .. chunk - 2 |-> [buffer |-> k + 1, length |-> Len(Chunk(k + 1))]]
    BY <1>1, <1>4
  <2> QED BY <1>1, <1>2, <1>4, <1>5, <1>6, <2>1 DEF ChunksAreUsed
<1>9. ExtractedIsAPrefix' /\ ExtractedIsAll' /\ IntactFilesAreRead' /\ DictionaryIsOfTheContent'
  BY <1>1, <1>2 DEF ExtractedIsAPrefix, ExtractedIsAll, IntactFilesAreRead, DictionaryIsOfTheContent, Ended
<1> QED BY <1>3, <1>7, <1>8, <1>9, <1>2 DEF IInv

----------------------------------------------------------------------------
(* Theorems *)

(* The invariant holds of every create and the command that reads its file, *)
(* with any content, dictionary and chunk size, whatever fails and whatever *)
(* happens to the file between the two.                                     *)
THEOREM InductiveInvariant == Spec => []IInv
<1>1. Init => IInv
  BY InitIInv
<1>2. IInv /\ [Next]_vars => IInv'
  <2> SUFFICES ASSUME IInv, [Next]_vars PROVE IInv'
    OBVIOUS
  <2>1. CASE NewBuilder
    BY <2>1, NewBuilderIInv
  <2>2. CASE AddChunk
    BY <2>2, AddChunkIInv
  <2>3. CASE ReadInputFails
    BY <2>3, ReadInputFailsIInv
  <2>4. CASE WriteFile
    BY <2>4, WriteFileIInv
  <2>5. CASE DamageBody
    BY <2>5, DamageBodyIInv
  <2>6. CASE DamageIndex
    BY <2>6, DamageIndexIInv
  <2>7. CASE OtherWriter
    BY <2>7, OtherWriterIInv
  <2>8. CASE OpenFile
    BY <2>8, OpenFileIInv
  <2>9. CASE ReadChunk
    BY <2>9, ReadChunkIInv
  <2>10. CASE BindDict
    BY <2>10, BindDictIInv
  <2>11. CASE WriteChunk
    BY <2>11, WriteChunkIInv
  <2>12. CASE LastWritten
    BY <2>12, LastWrittenIInv
  <2>13. CASE KeepSample
    BY <2>13, KeepSampleIInv
  <2>14. CASE Train
    BY <2>14, TrainIInv
  <2>15. CASE Finished
    BY <2>15, StutterIInv DEF Finished
  <2>16. CASE UNCHANGED vars
    BY <2>16, StutterIInv
  <2> QED
    BY <2>1, <2>2, <2>3, <2>4, <2>5, <2>6, <2>7, <2>8, <2>9, <2>10, <2>11, <2>12, <2>13, <2>14,
       <2>15, <2>16 DEF Next
<1> QED BY <1>1, <1>2, PTL DEF Spec

(* extract never writes anything but the beginning of what was archived,    *)
(* whatever became of the file's body (extract.go:9-16).                    *)
THEOREM ExtractWritesAPrefix == Spec => []ExtractedIsAPrefix
<1>1. IInv => ExtractedIsAPrefix
  BY DEF IInv
<1> QED BY <1>1, InductiveInvariant, PTL

(* And exits 0 only when it has written all of it.                          *)
THEOREM ExtractWritesAll == Spec => []ExtractedIsAll
<1>1. IInv => ExtractedIsAll
  BY DEF IInv
<1> QED BY <1>1, InductiveInvariant, PTL

(* No file that arrived as it was written is refused, with a dictionary or  *)
(* without, with uncompressed digests or without (extract.go:67-107).       *)
THEOREM IntactFilesAreNotRefused == Spec => []IntactFilesAreRead
<1>1. IInv => IntactFilesAreRead
  BY DEF IInv
<1> QED BY <1>1, InductiveInvariant, PTL

(* gen-zdict writes the dictionary of the content, for every content        *)
(* (main.go:88-139).                                                        *)
THEOREM DictionaryIsRight == Spec => []DictionaryIsOfTheContent
<1>1. IInv => DictionaryIsOfTheContent
  BY DEF IInv
<1> QED BY <1>1, InductiveInvariant, PTL

(* The lengths in the index add up to what create read.                     *)
LEMMA LengthsAddUp ==
  ASSUME CommandTypes, BuilderHoldsTheChunks, builder.idx # <<>>, pc \in {"add", "write"}
  PROVE  taken = Total([j \in 1 .. Len(builder.idx) - 1 |-> builder.idx[j + 1].length])
<1> DEFINE n == Len(builder.idx)
           m == n - 1
           lens == [j \in 1 .. m |-> builder.idx[j + 1].length]
           at == [j \in 1 .. m + 1 |-> UpTo(j - 1)]
<1>1. /\ n \in Nat \ {0} /\ taken = UpTo(n - 1)
      /\ \A k \in 1 .. n : builder.idx[k] = Recorded(k)
  <2>1. n \in Nat /\ n # 0
    BY DEF BuilderHoldsTheChunks
  <2> QED BY <2>1, BodyFacts DEF BuilderHoldsTheChunks
<1> HIDE DEF n
<1>2. m \in Nat /\ taken = UpTo(m)
  BY <1>1
<1>3. \A j \in 1 .. m : lens[j] = UpTo(j) - UpTo(j - 1) /\ lens[j] \in Nat
  <2> SUFFICES ASSUME NEW j \in 1 .. m
               PROVE  lens[j] = UpTo(j) - UpTo(j - 1) /\ lens[j] \in Nat
    OBVIOUS
  <2>1. /\ j + 1 \in 1 .. n /\ j + 1 \in Nat \ {0} /\ j + 1 \in Nat \ {0, 1}
        /\ (j + 1) - 2 = j - 1 /\ (j + 1) - 1 = j
    BY <1>1, <1>2
  <2>2. lens[j] = Len(Chunk(j + 1))
    <3>1. lens[j] = Recorded(j + 1).length
      BY <1>1, <2>1
    <3> QED BY <2>1, <3>1, CodedFacts
  <2>3. Len(Chunk(j + 1)) = UpTo((j + 1) - 1) - UpTo((j + 1) - 2)
    BY <2>1, ChunkFacts
  <2>4. Len(Chunk(j + 1)) \in Nat
    <3>1. Chunk(j + 1) \in Seq(Byte)
      BY <2>1, CodedFacts
    <3> QED BY <3>1, LenProperties
  <2> HIDE DEF lens
  <2> QED BY <2>1, <2>2, <2>3, <2>4
<1>4. Len(lens) = m
  BY <1>2, <1>3, IsASeq
<1>5. at[1] = 0 /\ at[m + 1] = taken
  <2>1. 1 \in 1 .. m + 1 /\ m + 1 \in 1 .. m + 1 /\ 1 - 1 = 0 /\ (m + 1) - 1 = m
    BY <1>2
  <2> QED BY <1>2, <2>1, UpToFacts
<1>6. \A j \in 1 .. m : at[j + 1] = at[j] + lens[j]
  <2> SUFFICES ASSUME NEW j \in 1 .. m PROVE at[j + 1] = at[j] + lens[j]
    OBVIOUS
  <2>1. /\ j \in 1 .. m + 1 /\ j + 1 \in 1 .. m + 1 /\ (j + 1) - 1 = j
        /\ j \in Nat /\ j - 1 \in Nat
    BY <1>2
  <2>2. at[j + 1] = UpTo(j) /\ at[j] = UpTo(j - 1)
    BY <2>1
  <2>3. UpTo(j) \in Nat /\ UpTo(j - 1) \in Nat
    <3>1. UpTo(j) \in 0 .. Len(input) /\ UpTo(j - 1) \in 0 .. Len(input)
      BY <2>1, UpToFacts
    <3> QED BY <3>1
  <2> HIDE DEF at, lens
  <2> QED BY <1>3, <2>2, <2>3
<1> HIDE DEF m, lens, at
<1>7. Offsets(lens)[m + 1] = at[m + 1]
  <2>1. /\ Len(lens) \in Nat /\ (\A i \in 1 .. Len(lens) : lens[i] \in Nat)
        /\ \A i \in 1 .. Len(lens) : at[i + 1] = at[i] + lens[i]
    BY <1>2, <1>3, <1>4, <1>6
  <2>2. \A i \in 1 .. Len(lens) + 1 : Offsets(lens)[i] = at[i]
    BY <1>5, <2>1, OffsetsUnique
  <2>3. m + 1 \in 1 .. Len(lens) + 1
    BY <1>2, <1>4
  <2> QED BY <2>2, <2>3
<1>8. Total(lens) = taken
  BY <1>4, <1>5, <1>7 DEF Total
<1> QED BY <1>8 DEF lens, m, n

(* At every moment the builder's index describes the body, digest by digest *)
(* and without a gap, and accounts for every byte read (builder.go:64-76).  *)
THEOREM IndexIsRight == Spec => []IndexDescribesBody
<1>1. IInv => IndexDescribesBody
  <2> SUFFICES ASSUME IInv, pc \in {"add", "write"}
               PROVE  LET idx == builder.idx
                      IN  /\ Begins(idx, Len(idx) + 1) = Len(builder.body)
                          /\ \A k \in DOMAIN idx :
                               LET from == Begins(idx, k)
                                   comp == SubSeq(builder.body, from + 1, from + idx[k].compLength)
                               IN  idx[k].digest = (IF comp = <<>> THEN ZeroDigest ELSE Sum(comp))
                          /\ idx[1].length = Len(options.dict)
                          /\ taken = Total([j \in 1 .. Len(idx) - 1 |-> idx[j + 1].length])
    BY Zenon DEF IndexDescribesBody
  <2> DEFINE n == Len(builder.idx)
             at(k) == Begins(builder.idx, k)
             from(k) == at(k) + 1
             comp(k) == SubSeq(builder.body, at(k) + 1, at(k) + builder.idx[k].compLength)
  <2>1. CommandTypes /\ BuilderHoldsTheChunks
    BY DEF IInv
  <2>2. n \in Nat \ {0} /\ \A k \in 2 .. n : (k - 2) * options.chunkSize < Len(input)
    BY <2>1 DEF BuilderHoldsTheChunks
  <2>3. builder.idx # <<>>
    <3>1. Len(<<>>) = 0
      BY EmptySeq
    <3> QED BY <2>2, <3>1
  <2>4. taken = Total([j \in 1 .. Len(builder.idx) - 1 |-> builder.idx[j + 1].length])
    BY <2>1, <2>3, LengthsAddUp
  <2>5. /\ DOMAIN builder.idx = 1 .. n /\ Len(builder.body) = at(n + 1)
        /\ \A k \in 1 .. n :
             /\ builder.idx[k] = Recorded(k)
             /\ at(k + 1) = at(k) + Len(Coded(k))
             /\ SubSeq(builder.body, at(k) + 1, at(k + 1)) = Coded(k)
    BY <2>1, BodyFacts
  <2> HIDE DEF n, at
  <2>6. \A k \in 1 .. n : builder.idx[k].digest = IF comp(k) = <<>> THEN ZeroDigest ELSE Sum(comp(k))
    <3> SUFFICES ASSUME NEW k \in 1 .. n
                 PROVE  builder.idx[k].digest = IF comp(k) = <<>> THEN ZeroDigest ELSE Sum(comp(k))
      OBVIOUS
    <3>1. k \in Nat \ {0}
      BY <2>2
    <3>2. comp(k) = Coded(k)
      <4>1. builder.idx[k].compLength = Len(Coded(k))
        BY <2>1, <2>5, <3>1, CodedFacts
      <4> QED BY <2>5, <4>1
    <3> HIDE DEF comp
    <3>3. /\ builder.idx[k].digest = IF k = 1 /\ options.dict = <<>> THEN <<>> ELSE Sum(Coded(k))
          /\ Coded(k) = <<>> <=> Chunk(k) = <<>>
      BY <2>1, <2>5, <3>1, CodedFacts
    <3>4. Chunk(k) = <<>> <=> k = 1 /\ options.dict = <<>>
      <4>1. CASE k = 1
        BY <2>1, <4>1, ChunkFacts
      <4>2. CASE k # 1
        <5>1. k \in Nat \ {0, 1} /\ k \in 2 .. n
          BY <2>2, <3>1, <4>2
        <5> QED BY <2>1, <2>2, <4>2, <5>1, ChunkFacts
      <4> QED BY <4>1, <4>2
    <3> QED BY <3>2, <3>3, <3>4 DEF ZeroDigest
  <2>7. builder.idx[1].length = Len(options.dict)
    <3>1. 1 \in 1 .. n /\ 1 \in Nat \ {0}
      BY <2>2
    <3>2. Recorded(1).length = Len(Chunk(1))
      BY <2>1, <3>1, CodedFacts
    <3> QED BY <2>1, <2>5, <3>1, <3>2, ChunkFacts
  <2> QED BY <2>4, <2>5, <2>6, <2>7 DEF n, at
<1> QED BY <1>1, InductiveInvariant, PTL

----------------------------------------------------------------------------
(* When an entry of the index changed *)

(* Less of the second part is a beginning of the whole.                     *)
LEMMA PrefixOfConcat ==
  ASSUME NEW S, NEW s \in Seq(S), NEW p \in Seq(S), NEW n \in 0 .. Len(p)
  PROVE  IsPrefix(s \o SubSeq(p, 1, n), s \o p)
<1> DEFINE q == SubSeq(p, 1, n)
           u == s \o q
           v == s \o p
           m == Len(s) + n
<1>1. n \in Nat /\ Len(s) \in Nat /\ Len(p) \in Nat /\ n <= Len(p)
  BY LenProperties
<1>2. q \in Seq(S) /\ Len(q) = n /\ \A k \in 1 .. n : q[k] = p[k]
  <2>1. 0 \in 0 .. Len(p) /\ n \in 0 .. Len(p) /\ 0 + 1 = 1 /\ n - 0 = n /\ \A k \in 1 .. n : 0 + k = k
    BY <1>1
  <2>2. /\ SubSeq(p, 0 + 1, n) \in Seq(S) /\ Len(SubSeq(p, 0 + 1, n)) = n - 0
        /\ \A k \in 1 .. n - 0 : SubSeq(p, 0 + 1, n)[k] = p[0 + k]
    BY <2>1, SubSeqFacts
  <2> QED BY <2>1, <2>2
<1> HIDE DEF q
<1>3. /\ u \in Seq(S) /\ Len(u) = m
      /\ \A k \in 1 .. m : u[k] = IF k <= Len(s) THEN s[k] ELSE q[k - Len(s)]
  BY <1>1, <1>2, ConcatProperties
<1>4. /\ v \in Seq(S) /\ Len(v) = Len(s) + Len(p)
      /\ \A k \in 1 .. Len(s) + Len(p) : v[k] = IF k <= Len(s) THEN s[k] ELSE p[k - Len(s)]
  BY ConcatProperties
<1> HIDE DEF u, v
<1>5. m \in 0 .. Len(v)
  BY <1>1, <1>4
<1> DEFINE w == SubSeq(v, 1, m)
<1>6. w \in Seq(S) /\ Len(w) = m /\ \A k \in 1 .. m : w[k] = v[k]
  <2>1. 0 \in 0 .. Len(v) /\ 0 + 1 = 1 /\ m - 0 = m /\ \A k \in 1 .. m : 0 + k = k
    BY <1>1, <1>5
  <2>2. /\ SubSeq(v, 0 + 1, m) \in Seq(S) /\ Len(SubSeq(v, 0 + 1, m)) = m - 0
        /\ \A k \in 1 .. m - 0 : SubSeq(v, 0 + 1, m)[k] = v[0 + k]
    <3> HIDE DEF m
    <3> QED BY <1>4, <1>5, <2>1, SubSeqFacts
  <2> QED BY <2>1, <2>2
<1> HIDE DEF w
<1>7. \A k \in 1 .. m : u[k] = w[k]
  <2> SUFFICES ASSUME NEW k \in 1 .. m PROVE u[k] = w[k]
    OBVIOUS
  <2>1. k \in 1 .. Len(s) + Len(p) /\ (~(k <= Len(s)) => k - Len(s) \in 1 .. n)
    BY <1>1
  <2> QED BY <1>2, <1>3, <1>4, <1>6, <2>1
<1>8. u = w
  BY <1>3, <1>6, <1>7, SeqEqual
<1>9. SubSeq(v, 1, m) \in Seq(S) /\ Len(SubSeq(v, 1, m)) = m /\ IsPrefix(SubSeq(v, 1, m), v)
  <2> HIDE DEF m
  <2> QED BY <1>4, <1>5, PrefixFacts
<1> QED BY <1>8, <1>9 DEF u, v, w, q

(* One chunk more is picked, or not.                                        *)
LEMMA PickedFacts ==
  ASSUME CommandTypes, NEW S
  PROVE  /\ Picked(S, 0) = <<>>
         /\ \A n \in Nat :
              /\ Picked(S, n) \in Seq(Byte)
              /\ Picked(S, n + 1) = Picked(S, n) \o (IF n + 1 \in S THEN Chunk(n + 1) ELSE <<>>)
<1> DEFINE pick(k) == IF k \in S THEN Chunk(k) ELSE <<>>
           picks(n) == [k \in 1 .. n |-> pick(k)]
<1>1. \A k \in Nat \ {0} : pick(k) \in Seq(Byte)
  <2> SUFFICES ASSUME NEW k \in Nat \ {0} PROVE pick(k) \in Seq(Byte)
    OBVIOUS
  <2>1. Chunk(k) \in Seq(Byte)
    BY CodedFacts
  <2> QED BY <2>1, EmptySeq
<1>2. \A n : Picked(S, n) = FlattenSeq(picks(n))
  BY DEF Picked
<1>3. Picked(S, 0) = <<>>
  <2>1. picks(0) = <<>>
    OBVIOUS
  <2>2. FlattenSeq(<<>>) = <<>>
    BY EmptySeq DEF FlattenSeq
  <2> HIDE DEF picks
  <2> QED BY <1>2, <2>1, <2>2
<1> HIDE DEF pick
<1>4. ASSUME NEW n \in Nat
      PROVE  /\ picks(n) \in Seq(Seq(Byte)) /\ Len(picks(n)) = n
             /\ \A k \in 1 .. n : picks(n)[k] = pick(k)
  <2>1. \A k \in 1 .. n : pick(k) \in Seq(Byte)
    BY <1>1
  <2> QED BY <2>1, IsASeq
<1>5. ASSUME NEW n \in Nat
      PROVE  Picked(S, n + 1) = Picked(S, n) \o pick(n + 1)
  <2> DEFINE old == picks(n)
             new == picks(n + 1)
  <2>1. n + 1 \in Nat /\ n + 1 \in Nat \ {0} /\ n + 1 \in 1 .. n + 1 /\ \A k \in 1 .. n : k \in 1 .. n + 1
    OBVIOUS
  <2>2. /\ old \in Seq(Seq(Byte)) /\ Len(old) = n /\ \A k \in 1 .. n : old[k] = pick(k)
    BY <1>4
  <2>3. /\ new \in Seq(Seq(Byte)) /\ Len(new) = n + 1 /\ \A k \in 1 .. n + 1 : new[k] = pick(k)
    <3> HIDE DEF picks
    <3> QED BY <1>4, <2>1
  <2> HIDE DEF picks, old, new
  <2>4. new = Append(old, new[Len(old) + 1])
    BY <2>1, <2>2, <2>3, OneMore
  <2>5. new = Append(old, pick(n + 1))
    BY <2>1, <2>2, <2>3, <2>4
  <2>6. FlattenSeq(Append(old, pick(n + 1))) = FlattenSeq(old) \o pick(n + 1)
    BY <1>1, <2>1, <2>2, FlattenAppend
  <2> QED BY <1>2, <2>5, <2>6 DEF old, new
<1> DEFINE Bad == {n \in Nat : Picked(S, n) \notin Seq(Byte)}
<1>6. Bad = {}
  <2> SUFFICES ASSUME Bad # {} PROVE FALSE
    OBVIOUS
  <2>1. PICK n \in Bad : \A m \in Bad : n <= m
    <3>1. Bad \subseteq Nat
      OBVIOUS
    <3> HIDE DEF Bad
    <3> QED BY <3>1, NatMin
  <2>2. n \in Nat /\ Picked(S, n) \notin Seq(Byte)
    BY <2>1
  <2>3. n # 0
    BY <1>3, <2>2, EmptySeq
  <2>4. n - 1 \in Nat /\ ~(n <= n - 1) /\ (n - 1) + 1 = n /\ n \in Nat \ {0}
    BY <2>2, <2>3
  <2>5. Picked(S, n - 1) \in Seq(Byte)
    BY <2>1, <2>4
  <2>6. Picked(S, n) = Picked(S, n - 1) \o pick(n)
    BY <1>5, <2>4
  <2> QED BY <1>1, <2>2, <2>4, <2>5, <2>6, ConcatProperties
<1>7. \A n \in Nat : Picked(S, n) \in Seq(Byte)
  BY <1>6
<1> QED BY <1>3, <1>5, <1>7 DEF pick

(* What is picked of the first chunks is a beginning of what was picked     *)
(* when none is picked of the others.                                       *)
LEMMA PickedEarlier ==
  ASSUME CommandTypes, NEW m \in Nat, NEW S \in SUBSET (2 .. m), NEW n \in Nat, m <= n
  PROVE  Picked(S, n) = Picked(S, m)
<1> DEFINE Bad == {k \in Nat : m <= k /\ Picked(S, k) # Picked(S, m)}
<1>1. Bad = {}
  <2> SUFFICES ASSUME Bad # {} PROVE FALSE
    OBVIOUS
  <2>1. PICK k \in Bad : \A j \in Bad : k <= j
    <3>1. Bad \subseteq Nat
      OBVIOUS
    <3> HIDE DEF Bad
    <3> QED BY <3>1, NatMin
  <2>2. k \in Nat /\ m <= k /\ Picked(S, k) # Picked(S, m)
    BY <2>1
  <2>3. k # m
    BY <2>2
  <2>4. k - 1 \in Nat /\ m <= k - 1 /\ ~(k <= k - 1) /\ (k - 1) + 1 = k /\ k \notin S
    BY <2>2, <2>3
  <2>5. Picked(S, k - 1) = Picked(S, m)
    BY <2>1, <2>4
  <2>6. /\ Picked(S, k - 1) \in Seq(Byte)
        /\ Picked(S, k) = Picked(S, k - 1) \o <<>>
    BY <2>4, PickedFacts
  <2> QED BY <2>2, <2>5, <2>6, ConcatEmptySeq
<1> QED BY <1>1

LEMMA PickedIsKept ==
  ASSUME UNCHANGED <<input, options>>
  PROVE  \A S, n : Picked(S, n)' = Picked(S, n)
<1>1. \A k : Chunk(k)' = Chunk(k)
  BY ContentIsKept
<1> QED BY <1>1 DEF Picked

(* A reader that stops where it is has written a beginning of some chunks.  *)
LEMMA EndsPicked ==
  ASSUME IInv, ChunksArePicked, command = "extract", pc \in {"chunk", "loaded"},
         UNCHANGED <<input, options, builder, out>>
  PROVE  OnlyChunksAreWritten'
<1> DEFINE n == Len(builder.idx)
<1>1. /\ CommandTypes /\ BuilderHoldsTheChunks /\ FileIsTheBuilders /\ ChunksAreRead /\ file.header
  <2>1. CommandTypes /\ BuilderHoldsTheChunks /\ FileIsTheBuilders /\ ChunksAreRead
    BY DEF IInv
  <2> QED BY <2>1 DEF FileIsTheBuilders
<1>2. n \in Nat /\ Len(file.idx) = n /\ chunk \in 1 .. Len(file.idx) + 1
  BY <1>1, BodyFacts DEF FileIsTheBuilders, ChunksAreRead
<1>3. PICK S \in SUBSET (2 .. chunk - 1) : out = Picked(S, chunk - 1)
  BY DEF ChunksArePicked
<1> HIDE DEF n
<1>4. chunk - 1 \in Nat /\ chunk - 1 <= n /\ S \in SUBSET (2 .. n)
  BY <1>2
<1>5. Picked(S, n) = out
  BY <1>1, <1>2, <1>3, <1>4, PickedEarlier
<1>6. IsPrefix(out, out)
  <2>1. out \in Seq(Byte)
    BY <1>1, <1>3, <1>4, PickedFacts
  <2>2. Len(out) \in Nat
    BY <2>1, LenProperties
  <2> QED BY <2>2 DEF IsPrefix
<1>7. Picked(S, n)' = Picked(S, n) /\ n' = n
  BY PickedIsKept DEF n, Picked
<1>8. IsPrefix(out', Picked(S, n)')
  BY <1>5, <1>6, <1>7
<1> QED BY <1>4, <1>7, <1>8 DEF OnlyChunksAreWritten, n

(* As long as the index is as it was written, it is right in both fields.   *)
LEMMA IndexIsRightYet ==
  ASSUME CommandTypes, BuilderHoldsTheChunks, FileIsTheBuilders, file.header, "index" \notin damaged
  PROVE  /\ 1 \in DOMAIN file.idx /\ DOMAIN file.idx = 1 .. Len(file.idx)
         /\ \A k \in DOMAIN file.idx : /\ file.idx[k].digest = Recorded(k).digest
                                       /\ file.idx[k].compLength = Len(Coded(k))
<1>1. /\ Len(file.idx) = Len(builder.idx) /\ DOMAIN file.idx = DOMAIN builder.idx /\ builder.idx # <<>>
  BY DEF FileIsTheBuilders
<1>2. Len(builder.idx) \in Nat /\ DOMAIN builder.idx = 1 .. Len(builder.idx)
  BY BodyFacts
<1>3. Len(builder.idx) # 0
  <2>1. builder.idx = [k \in 1 .. Len(builder.idx) |-> Recorded(k)]
    BY DEF BuilderHoldsTheChunks
  <2> SUFFICES ASSUME Len(builder.idx) = 0 PROVE FALSE
    OBVIOUS
  <2>2. builder.idx = [k \in 1 .. 0 |-> Recorded(k)]
    BY <2>1
  <2>3. builder.idx = <<>>
    BY <2>2
  <2> QED BY <1>1, <2>3
<1>4. 1 \in DOMAIN file.idx /\ DOMAIN file.idx = 1 .. Len(file.idx)
  BY <1>1, <1>2, <1>3
<1>5. ASSUME NEW k \in 1 .. Len(file.idx)
      PROVE  file.idx[k].digest = Recorded(k).digest /\ file.idx[k].compLength = Len(Coded(k))
  <2>1. /\ k \in Nat \ {0} /\ file.idx[k].compLength = Len(Coded(k))
        /\ file.idx[k].digest = IF k = 1 /\ options.dict = <<>> THEN <<>> ELSE Sum(Coded(k))
    BY EntryFacts
  <2>2. Recorded(k).digest = IF k = 1 /\ options.dict = <<>> THEN <<>> ELSE Sum(Coded(k))
    BY <2>1, CodedFacts
  <2> QED BY <2>1, <2>2
<1> QED BY <1>4, <1>5

LEMMA WriteFileNearly ==
  ASSUME IInv, WriteFile
  PROVE  IndexIsNearlyRight'
<1> SUFFICES ASSUME file'.header PROVE IndexIsNearlyRight'
  BY DEF IndexIsNearlyRight
<1>1. pc = "write" /\ UNCHANGED <<input, options, builder>>
  BY DEF WriteFile, creating
<1>2. CommandTypes /\ BuilderHoldsTheChunks
  BY DEF IInv
<1> DEFINE n == Len(builder.idx)
<1>3. /\ n \in Nat /\ n # 0 /\ DOMAIN builder.idx = 1 .. n /\ builder.body \in Seq(Units)
      /\ \A k \in 1 .. n : builder.idx[k] = Recorded(k)
  <2>1. n # 0
    BY <1>1, <1>2 DEF BuilderHoldsTheChunks
  <2> QED BY <1>2, <2>1, BodyFacts
<1>4. /\ file'.idx = builder.idx
      /\ file'.body = builder.body \/ \E m \in 0 .. Len(builder.body) : file'.body = SubSeq(builder.body, 1, m)
  <2>1. \/ file' = [header |-> TRUE, idx |-> builder.idx, body |-> builder.body]
        \/ \E m \in 0 .. Len(builder.body) :
             \/ file' = Nothing
             \/ file' = [header |-> TRUE, idx |-> builder.idx, body |-> SubSeq(builder.body, 1, m)]
    BY DEF WriteFile
  <2> QED BY <2>1 DEF Nothing
<1>5. file'.body # <<>> => file'.body[1] = builder.body[1]
  <2> SUFFICES ASSUME NEW m \in 0 .. Len(builder.body), file'.body = SubSeq(builder.body, 1, m),
                      file'.body # <<>>
               PROVE  file'.body[1] = builder.body[1]
    BY <1>4
  <2>1. Len(builder.body) \in Nat /\ m \in Nat
    BY <1>3, LenProperties
  <2>2. m # 0
    <3>1. Len(SubSeq(builder.body, 1, m)) = m /\ SubSeq(builder.body, 1, m) \in Seq(Units)
      BY <1>3, PrefixFacts
    <3> QED BY <3>1, EmptySeq
  <2>3. 0 \in 0 .. Len(builder.body) /\ m \in 0 .. Len(builder.body) /\ 0 + 1 = 1 /\ 1 \in 1 .. m - 0
    BY <2>1, <2>2
  <2>4. SubSeq(builder.body, 0 + 1, m)[1] = builder.body[0 + 1]
    BY <1>3, <2>3, SubSeqFacts
  <2> QED BY <2>3, <2>4
<1>6. \A k : Recorded(k)' = Recorded(k) /\ Coded(k)' = Coded(k)
  BY <1>1, ContentIsKept
<1>7. \A k \in 1 .. n : file'.idx[k].digest = Recorded(k)'.digest /\ file'.idx[k].compLength = Len(Coded(k)')
  <2> SUFFICES ASSUME NEW k \in 1 .. n
               PROVE  /\ file'.idx[k].digest = Recorded(k)'.digest
                      /\ file'.idx[k].compLength = Len(Coded(k)')
    OBVIOUS
  <2>1. k \in Nat \ {0}
    BY <1>3
  <2>2. Recorded(k).compLength = Len(Coded(k))
    BY <1>2, <2>1, CodedFacts
  <2> QED BY <1>3, <1>4, <1>6, <2>2
<1>8. DOMAIN file'.idx = 1 .. n /\ 1 \in 1 .. n
  BY <1>3, <1>4
<1>9. /\ \A k \in DOMAIN file'.idx : file'.idx[k].digest \in {Recorded(k)'.digest, ZeroDigest}
      /\ \E k \in DOMAIN file'.idx :
           \A j \in DOMAIN file'.idx \ {k} : file'.idx[j].compLength = Len(Coded(j)')
  BY <1>7, <1>8
<1>10. file'.body # <<>> => file'.body[1] \in {builder'.body[1], [frame |-> <<>>, at |-> 0]}
  BY <1>1, <1>5
<1> QED BY <1>9, <1>10 DEF IndexIsNearlyRight, ZeroDigest

LEMMA DamageBodyNearly ==
  ASSUME IInv, IndexIsNearlyRight, DamageBody
  PROVE  IndexIsNearlyRight'
<1>1. /\ OnItsWay /\ UNCHANGED <<input, options, builder>>
  BY DEF DamageBody, creating
<1>2. PICK k \in DOMAIN file.body :
        file' \in {[file EXCEPT !.body = SubSeq(@, 1, k - 1)],
                   [file EXCEPT !.body[k] = [frame |-> <<>>, at |-> 0]]}
  BY DEF DamageBody
<1>3. /\ file.header /\ DOMAIN file = {"header", "idx", "body"} /\ file.body \in Seq(Units)
  <2>1. file.header /\ FileIsTheBuilders
    BY <1>1 DEF OnItsWay, IInv
  <2> QED BY <2>1 DEF FileIsTheBuilders
<1>4. /\ file'.idx = file.idx
      /\ \/ file'.body = SubSeq(file.body, 1, k - 1)
         \/ file'.body = [file.body EXCEPT ![k] = [frame |-> <<>>, at |-> 0]]
  BY <1>2, <1>3
<1>5. k \in 1 .. Len(file.body) /\ Len(file.body) \in Nat /\ DOMAIN file.body = 1 .. Len(file.body)
  BY <1>2, <1>3, LenProperties
<1>6. 1 \in DOMAIN file.body /\ file.body # <<>>
  <2>1. Len(file.body) # 0
    BY <1>5
  <2> QED BY <1>3, <1>5, <2>1, EmptySeq
<1>7. file'.body # <<>> => file'.body[1] \in {file.body[1], [frame |-> <<>>, at |-> 0]}
  <2>1. CASE file'.body = SubSeq(file.body, 1, k - 1)
    <3> DEFINE m == k - 1
    <3>1. m \in 0 .. Len(file.body) /\ m \in Nat
      BY <1>5
    <3> SUFFICES ASSUME SubSeq(file.body, 1, m) # <<>> PROVE SubSeq(file.body, 1, m)[1] = file.body[1]
      BY <2>1
    <3> HIDE DEF m
    <3>2. m # 0
      <4>1. Len(SubSeq(file.body, 1, m)) = m /\ SubSeq(file.body, 1, m) \in Seq(Units)
        BY <1>3, <3>1, PrefixFacts
      <4> QED BY <4>1, EmptySeq
    <3>3. 0 \in 0 .. Len(file.body) /\ 0 + 1 = 1 /\ 1 \in 1 .. m - 0
      BY <1>5, <3>1, <3>2
    <3>4. SubSeq(file.body, 0 + 1, m)[1] = file.body[0 + 1]
      BY <1>3, <3>1, <3>3, SubSeqFacts
    <3> QED BY <3>3, <3>4
  <2>2. CASE file'.body = [file.body EXCEPT ![k] = [frame |-> <<>>, at |-> 0]]
    <3>1. file'.body[1] = IF k = 1 THEN [frame |-> <<>>, at |-> 0] ELSE file.body[1]
      BY <1>6, <2>2
    <3> QED BY <3>1
  <2> QED BY <1>4, <2>1, <2>2
<1>8. \A j : Recorded(j)' = Recorded(j) /\ Coded(j)' = Coded(j)
  BY <1>1, ContentIsKept
<1>9. /\ file.body[1] \in {builder.body[1], [frame |-> <<>>, at |-> 0]}
      /\ \A j \in DOMAIN file.idx : file.idx[j].digest \in {Recorded(j).digest, ZeroDigest}
      /\ \E i \in DOMAIN file.idx :
           \A j \in DOMAIN file.idx \ {i} : file.idx[j].compLength = Len(Coded(j))
  BY <1>3, <1>6 DEF IndexIsNearlyRight
<1>10. file'.body # <<>> => file'.body[1] \in {builder'.body[1], [frame |-> <<>>, at |-> 0]}
  BY <1>1, <1>7, <1>9
<1>11. /\ \A j \in DOMAIN file'.idx : file'.idx[j].digest \in {Recorded(j)'.digest, ZeroDigest}
       /\ \E i \in DOMAIN file'.idx :
            \A j \in DOMAIN file'.idx \ {i} : file'.idx[j].compLength = Len(Coded(j)')
  BY <1>4, <1>8, <1>9
<1> QED BY <1>10, <1>11 DEF IndexIsNearlyRight, ZeroDigest

LEMMA DamageIndexNearly ==
  ASSUME IInv, IndexIsNearlyRight, DamageIndex
  PROVE  IndexIsNearlyRight'
<1>1. /\ OnItsWay /\ UNCHANGED <<input, options, builder>> /\ "index" \notin damaged
  BY DEF DamageIndex, creating
<1>2. PICK k \in DOMAIN file.idx, n \in 0 .. 2 :
        file' \in {[file EXCEPT !.idx[k].compLength = n], [file EXCEPT !.idx[k].length = n],
                   [file EXCEPT !.idx[k].digest = ZeroDigest]}
  BY DEF DamageIndex
<1>3. /\ CommandTypes /\ BuilderHoldsTheChunks /\ FileIsTheBuilders /\ file.header
      /\ DOMAIN file = {"header", "idx", "body"}
  <2>1. file.header /\ FileIsTheBuilders /\ CommandTypes /\ BuilderHoldsTheChunks
    BY <1>1 DEF OnItsWay, IInv
  <2> QED BY <2>1 DEF FileIsTheBuilders
<1>4. \A j \in DOMAIN file.idx : /\ file.idx[j].digest = Recorded(j).digest
                                 /\ file.idx[j].compLength = Len(Coded(j))
  BY <1>1, <1>3, IndexIsRightYet
<1>5. /\ file'.body = file.body
      /\ \/ file'.idx = [file.idx EXCEPT ![k].compLength = n]
         \/ file'.idx = [file.idx EXCEPT ![k].length = n]
         \/ file'.idx = [file.idx EXCEPT ![k].digest = ZeroDigest]
  BY <1>2, <1>3
<1>6. DOMAIN file'.idx = DOMAIN file.idx /\ \A j \in DOMAIN file.idx \ {k} : file'.idx[j] = file.idx[j]
  BY <1>5
<1>7. file'.idx[k].digest \in {file.idx[k].digest, ZeroDigest}
  <2>1. CASE file'.idx = [file.idx EXCEPT ![k].compLength = n]
    <3>1. file'.idx[k] = [file.idx[k] EXCEPT !.compLength = n]
      BY <2>1
    <3> QED BY <3>1
  <2>2. CASE file'.idx = [file.idx EXCEPT ![k].length = n]
    <3>1. file'.idx[k] = [file.idx[k] EXCEPT !.length = n]
      BY <2>2
    <3> QED BY <3>1
  <2>3. CASE file'.idx = [file.idx EXCEPT ![k].digest = ZeroDigest]
    <3>1. file'.idx[k] = [file.idx[k] EXCEPT !.digest = ZeroDigest]
      BY <2>3
    <3>2. "digest" \in DOMAIN file.idx[k]
      <4>1. PICK u \in {<<>>, Sum(Chunk(k))} : file.idx[k] = [Recorded(k) EXCEPT !.uDigest = u]
        BY <1>1, <1>3 DEF FileIsTheBuilders
      <4>2. k \in Nat \ {0}
        <5>1. DOMAIN file.idx = 1 .. Len(file.idx) /\ Len(file.idx) \in Nat
          BY <1>1, <1>3, IndexIsRightYet, BodyFacts DEF FileIsTheBuilders
        <5> QED BY <5>1
      <4>3. DOMAIN Recorded(k) = {"digest", "compLength", "length", "uDigest"}
        BY <1>3, <4>2, CodedFacts
      <4> QED BY <4>1, <4>3
    <3> QED BY <3>1, <3>2
  <2> QED BY <1>5, <2>1, <2>2, <2>3
<1>8. \A j : Recorded(j)' = Recorded(j) /\ Coded(j)' = Coded(j)
  BY <1>1, ContentIsKept
<1>9. \A j \in DOMAIN file'.idx : file'.idx[j].digest \in {Recorded(j)'.digest, ZeroDigest}
  <2> SUFFICES ASSUME NEW j \in DOMAIN file.idx
               PROVE  file'.idx[j].digest \in {Recorded(j).digest, ZeroDigest}
    BY <1>6, <1>8
  <2>1. CASE j = k
    BY <1>4, <1>7, <2>1
  <2>2. CASE j # k
    BY <1>4, <1>6, <2>2
  <2> QED BY <2>1, <2>2
<1>10. \A j \in DOMAIN file'.idx \ {k} : file'.idx[j].compLength = Len(Coded(j)')
  BY <1>4, <1>6, <1>8
<1>11. file'.body # <<>> => file'.body[1] \in {builder'.body[1], [frame |-> <<>>, at |-> 0]}
  BY <1>1, <1>3, <1>5 DEF IndexIsNearlyRight
<1> QED BY <1>2, <1>6, <1>9, <1>10, <1>11 DEF IndexIsNearlyRight, ZeroDigest

LEMMA OtherWriterNearly ==
  ASSUME IInv, IndexIsNearlyRight, OtherWriter
  PROVE  IndexIsNearlyRight'
<1>1. /\ OnItsWay /\ UNCHANGED <<input, options, builder>> /\ damaged = {}
      /\ file' = [file EXCEPT !.idx = [k \in DOMAIN @ |-> [@[k] EXCEPT !.uDigest = Sum(Chunk(k))]]]
  BY DEF OtherWriter, creating
<1>2. /\ CommandTypes /\ BuilderHoldsTheChunks /\ FileIsTheBuilders /\ file.header
      /\ DOMAIN file = {"header", "idx", "body"}
  <2>1. file.header /\ FileIsTheBuilders /\ CommandTypes /\ BuilderHoldsTheChunks
    BY <1>1 DEF OnItsWay, IInv
  <2> QED BY <2>1 DEF FileIsTheBuilders
<1>3. /\ 1 \in DOMAIN file.idx
      /\ \A j \in DOMAIN file.idx : /\ file.idx[j].digest = Recorded(j).digest
                                    /\ file.idx[j].compLength = Len(Coded(j))
  BY <1>1, <1>2, IndexIsRightYet
<1>4. /\ file'.body = file.body
      /\ file'.idx = [k \in DOMAIN file.idx |-> [file.idx[k] EXCEPT !.uDigest = Sum(Chunk(k))]]
  BY <1>1, <1>2
<1>5. DOMAIN file'.idx = DOMAIN file.idx
      /\ \A j \in DOMAIN file.idx : file'.idx[j] = [file.idx[j] EXCEPT !.uDigest = Sum(Chunk(j))]
  BY <1>4
<1>6. ASSUME NEW j \in DOMAIN file.idx
      PROVE  /\ file'.idx[j].digest = file.idx[j].digest
             /\ file'.idx[j].compLength = file.idx[j].compLength
  <2>1. PICK u \in {<<>>, Sum(Chunk(j))} : file.idx[j] = [Recorded(j) EXCEPT !.uDigest = u]
    BY <1>1, <1>2 DEF FileIsTheBuilders
  <2>2. j \in Nat \ {0}
    <3>1. DOMAIN file.idx = 1 .. Len(file.idx) /\ Len(file.idx) \in Nat
      BY <1>1, <1>2, IndexIsRightYet, BodyFacts DEF FileIsTheBuilders
    <3> QED BY <3>1
  <2>3. Recorded(j) = [digest |-> IF j = 1 /\ options.dict = <<>> THEN <<>> ELSE Sum(Coded(j)),
                       compLength |-> Len(Coded(j)), length |-> Len(Chunk(j)), uDigest |-> <<>>]
    BY <1>2, <2>2, CodedFacts
  <2>4. file'.idx[j] = [file.idx[j] EXCEPT !.uDigest = Sum(Chunk(j))]
    BY <1>5
  <2> QED BY <2>1, <2>3, <2>4
<1>7. \A j : Recorded(j)' = Recorded(j) /\ Coded(j)' = Coded(j)
  BY <1>1, ContentIsKept
<1>8. /\ \A j \in DOMAIN file'.idx : file'.idx[j].digest \in {Recorded(j)'.digest, ZeroDigest}
      /\ \E i \in DOMAIN file'.idx :
           \A j \in DOMAIN file'.idx \ {i} : file'.idx[j].compLength = Len(Coded(j)')
  BY <1>3, <1>5, <1>6, <1>7
<1>9. file'.body # <<>> => file'.body[1] \in {builder'.body[1], [frame |-> <<>>, at |-> 0]}
  BY <1>1, <1>2, <1>4 DEF IndexIsNearlyRight
<1> QED BY <1>8, <1>9 DEF IndexIsNearlyRight, ZeroDigest

(* Only what happens to the file on its way touches it.                     *)
LEMMA FileUntouchedNearly ==
  ASSUME IInv, IndexIsNearlyRight, file' = file,
         file.header => UNCHANGED <<input, options, builder>>
  PROVE  IndexIsNearlyRight'
<1> SUFFICES ASSUME file.header PROVE IndexIsNearlyRight'
  BY DEF IndexIsNearlyRight
<1>1. \A j : Recorded(j)' = Recorded(j) /\ Coded(j)' = Coded(j)
  BY ContentIsKept
<1> QED BY <1>1 DEF IndexIsNearlyRight, ZeroDigest

LEMMA StepNearly ==
  ASSUME IInv, IndexIsNearlyRight, [Next]_vars
  PROVE  IndexIsNearlyRight'
<1>1. pc \in {"builder", "add"} => ~file.header
  BY DEF IInv, FileIsTheBuilders
<1>2. CASE NewBuilder
  BY <1>1, <1>2, FileUntouchedNearly DEF NewBuilder
<1>3. CASE AddChunk
  BY <1>1, <1>3, FileUntouchedNearly DEF AddChunk
<1>4. CASE ReadInputFails
  BY <1>1, <1>4, FileUntouchedNearly DEF ReadInputFails
<1>5. CASE WriteFile
  BY <1>5, WriteFileNearly
<1>6. CASE DamageBody
  BY <1>6, DamageBodyNearly
<1>7. CASE DamageIndex
  BY <1>7, DamageIndexNearly
<1>8. CASE OtherWriter
  BY <1>8, OtherWriterNearly
<1>9. CASE OpenFile
  BY <1>9, FileUntouchedNearly DEF OpenFile, creating
<1>10. CASE ReadChunk
  BY <1>10, FileUntouchedNearly DEF ReadChunk, creating
<1>11. CASE BindDict
  BY <1>11, FileUntouchedNearly DEF BindDict, creating
<1>12. CASE WriteChunk
  BY <1>12, FileUntouchedNearly DEF WriteChunk, creating
<1>13. CASE LastWritten
  BY <1>13, FileUntouchedNearly DEF LastWritten, creating
<1>14. CASE KeepSample
  BY <1>14, FileUntouchedNearly DEF KeepSample, creating
<1>15. CASE Train
  BY <1>15, FileUntouchedNearly DEF Train, creating
<1>16. CASE Finished \/ UNCHANGED vars
  BY <1>16, FileUntouchedNearly DEF Finished, vars
<1> QED BY <1>2, <1>3, <1>4, <1>5, <1>6, <1>7, <1>8, <1>9, <1>10, <1>11, <1>12, <1>13, <1>14,
           <1>15, <1>16 DEF Next

(* The chunks of the input are not empty, so that none of them is skipped   *)
(* unless its entry changed; and a dictionary that was skipped is the one   *)
(* that changed.                                                            *)
LEMMA SkippedFacts ==
  ASSUME IInv, PickInv, pc = "chunk", command = "extract", ChunksLeft, chunk > 1,
         bufs[DictBuffer] # options.dict, options.ct # "none"
  PROVE  /\ chunk = 2 /\ pos = 0 /\ options.dict # <<>> /\ options.ct = "zstd"
         /\ 2 \in DOMAIN file.idx /\ Chunk(2) # <<>> /\ Coded(2) # <<>>
         /\ file.idx[2].compLength = Len(Coded(2)) /\ Len(Coded(2)) \in Nat \ {0}
<1>1. CommandTypes /\ BuilderHoldsTheChunks /\ FileIsTheBuilders /\ ChunksAreRead /\ file.header
  <2>1. CommandTypes /\ BuilderHoldsTheChunks /\ FileIsTheBuilders /\ ChunksAreRead
    BY DEF IInv
  <2> QED BY <2>1 DEF FileIsTheBuilders
<1>2. bufs[DictBuffer] = <<>> /\ pos = 0 /\ file.idx[1].compLength # Len(Coded(1)) /\ chunk = 2
  <2>1. DictIsBound
    BY DEF PickInv, ChunksArePicked
  <2> QED BY <2>1 DEF DictIsBound, DictIsSkipped
<1>3. /\ Len(builder.idx) \in Nat /\ DOMAIN file.idx = 1 .. Len(builder.idx)
      /\ Len(file.idx) = Len(builder.idx) /\ 2 <= Len(builder.idx)
  BY <1>1, <1>2, BodyFacts DEF FileIsTheBuilders, ChunksLeft
<1>4. 1 \in DOMAIN file.idx /\ 2 \in DOMAIN file.idx /\ 2 \in 2 .. Len(builder.idx)
  BY <1>3
<1>5. file.idx[2].compLength = Len(Coded(2))
  <2>1. PICK k \in DOMAIN file.idx :
          \A j \in DOMAIN file.idx \ {k} : file.idx[j].compLength = Len(Coded(j))
    BY <1>1 DEF PickInv, IndexIsNearlyRight
  <2>2. k = 1
    BY <1>2, <1>4, <2>1
  <2> QED BY <1>4, <2>1, <2>2
<1>6. Chunk(2) # <<>>
  <2>1. (2 - 2) * options.chunkSize < Len(input)
    BY <1>1, <1>4 DEF BuilderHoldsTheChunks
  <2>2. 2 \in Nat \ {0, 1}
    OBVIOUS
  <2> QED BY <1>1, <2>1, <2>2, ChunkFacts
<1>7. /\ Coded(2) # <<>> /\ Len(Coded(2)) \in Nat /\ Coded(2) \in Seq(Units)
  <2>1. 2 \in Nat \ {0}
    OBVIOUS
  <2> QED BY <1>1, <1>6, <2>1, CodedFacts
<1>8. Len(Coded(2)) # 0
  BY <1>7, EmptySeq
<1>9. options.ct = "zstd" /\ options.dict # <<>>
  BY <1>1, <1>2, OptionsFacts
<1> QED BY <1>2, <1>4, <1>5, <1>6, <1>7, <1>8, <1>9

(* After a skipped dictionary the next chunk does not come.                 *)
LEMMA SkippedIsRefused ==
  ASSUME IInv, PickInv, pc = "chunk", command = "extract", ChunksLeft, chunk > 1,
         bufs[DictBuffer] # options.dict, options.ct # "none"
  PROVE  Comp # Coded(2)
<1>1. /\ chunk = 2 /\ pos = 0 /\ options.dict # <<>> /\ options.ct = "zstd"
      /\ Chunk(2) # <<>> /\ Coded(2) # <<>>
      /\ file.idx[2].compLength = Len(Coded(2)) /\ Len(Coded(2)) \in Nat \ {0}
  BY SkippedFacts
<1>2. CommandTypes /\ BuilderHoldsTheChunks /\ FileIsTheBuilders /\ file.header
  <2>1. CommandTypes /\ BuilderHoldsTheChunks /\ FileIsTheBuilders
    BY DEF IInv
  <2> QED BY <2>1 DEF FileIsTheBuilders
<1>3. file.body \in Seq(Units) /\ Len(file.body) \in Nat
  BY <1>2, LenProperties DEF FileIsTheBuilders
<1> SUFFICES ASSUME Comp = Coded(2) PROVE FALSE
  OBVIOUS
<1> DEFINE end == Len(file.body)
           c == Len(Coded(2))
           x == IF end < c THEN end ELSE c
<1>4. Comp = SubSeq(file.body, 1, x)
  <2>1. end - 0 = end /\ 0 + 1 = 1 /\ 0 + x = x
    BY <1>1, <1>3
  <2> QED BY <1>1, <2>1 DEF Comp, Left
<1> HIDE DEF x
<1>5. x \in 0 .. end /\ x \in Nat
  <2>1. c \in Nat
    BY <1>1
  <2> HIDE DEF c, end
  <2> QED BY <1>3, <2>1 DEF x, end
<1>6. Len(SubSeq(file.body, 1, x)) = x /\ SubSeq(file.body, 1, x) \in Seq(Units)
  BY <1>3, <1>5, PrefixFacts
<1>7. x # 0 /\ 1 \in 1 .. x
  BY <1>1, <1>4, <1>5, <1>6
<1>8. Coded(2)[1] = file.body[1]
  <2>1. 0 \in 0 .. end /\ 0 + 1 = 1 /\ x - 0 = x /\ 1 \in 1 .. x - 0 /\ x \in 0 .. end
    BY <1>3, <1>5, <1>7
  <2>2. SubSeq(file.body, 0 + 1, x)[1] = file.body[0 + 1]
    BY <1>3, <2>1, SubSeqFacts
  <2> QED BY <1>4, <2>1, <2>2
<1>9. Coded(2)[1].frame = <<options.dict, Chunk(2)>>
  <2>1. Coded(2) = Frame(options.dict, Chunk(2))
    BY <1>1 DEF Coded, DictOf, Compress
  <2>2. 1 \in 1 .. Len(Chunk(2)) + 1
    <3>1. 2 \in Nat \ {0}
      OBVIOUS
    <3>2. Len(Chunk(2)) \in Nat
      BY <1>2, <3>1, CodedFacts, LenProperties
    <3> QED BY <3>2
  <2> QED BY <2>1, <2>2 DEF Frame
<1>10. builder.body[1].frame = <<<<>>, options.dict>>
  <2>1. Chunk(1) = options.dict /\ 1 \in Nat \ {0} /\ 1 \in 1 .. Len(builder.idx)
    <3>1. Len(builder.idx) \in Nat /\ 2 \in DOMAIN file.idx /\ DOMAIN file.idx = 1 .. Len(builder.idx)
      BY <1>2, BodyFacts, SkippedFacts DEF FileIsTheBuilders
    <3>2. 1 \in 1 .. Len(builder.idx)
      BY <3>1
    <3> QED BY <1>2, <3>2, ChunkFacts
  <2>2. Coded(1) = Frame(<<>>, options.dict)
    BY <1>1, <2>1 DEF Coded, DictOf, Compress
  <2>3. Coded(1) \in Seq(Units) /\ Coded(1) # <<>> /\ Len(Coded(1)) \in Nat
    BY <1>1, <1>2, <2>1, CodedFacts
  <2>4. Len(Coded(1)) # 0
    BY <2>3, EmptySeq
  <2> DEFINE at(k) == Begins(builder.idx, k)
             m == at(2)
  <2>5. /\ builder.body \in Seq(Units) /\ at(1) = 0
        /\ at(1 + 1) = at(1) + Len(Coded(1)) /\ at(1 + 1) <= Len(builder.body)
        /\ SubSeq(builder.body, at(1) + 1, at(1 + 1)) = Coded(1)
    BY <1>2, <2>1, BodyFacts
  <2>6. at(1 + 1) = m
    <3>1. 1 + 1 = 2
      OBVIOUS
    <3> QED BY <3>1
  <2> HIDE DEF at, m
  <2>7. /\ 0 \in 0 .. Len(builder.body) /\ m \in 0 .. Len(builder.body) /\ m - 0 = m
        /\ 1 \in 1 .. m - 0 /\ 0 + 1 = 1 /\ SubSeq(builder.body, 0 + 1, m) = Coded(1)
    <3>1. Len(builder.body) \in Nat
      BY <2>5, LenProperties
    <3>2. m = Len(Coded(1))
      BY <2>3, <2>5, <2>6
    <3>3. SubSeq(builder.body, 0 + 1, m) = Coded(1) /\ m <= Len(builder.body)
      BY <2>5, <2>6
    <3>4. m \in Nat /\ m # 0
      BY <2>3, <2>4, <3>2
    <3> QED BY <3>1, <3>3, <3>4
  <2>8. SubSeq(builder.body, 0 + 1, m)[1] = builder.body[0 + 1]
    BY <2>5, <2>7, SubSeqFacts
  <2>9. Coded(1)[1] = builder.body[1]
    BY <2>7, <2>8
  <2>10. 1 \in 1 .. Len(options.dict) + 1
    <3>1. Len(options.dict) \in Nat
      BY <1>2, OptionsFacts, LenProperties
    <3> QED BY <3>1
  <2> QED BY <2>2, <2>9, <2>10 DEF Frame
<1>11. file.body[1] \in {builder.body[1], [frame |-> <<>>, at |-> 0]}
  <2>1. file.body # <<>>
    <3>1. end # 0
      BY <1>3, <1>5, <1>7
    <3> QED BY <1>3, <3>1, EmptySeq
  <2> QED BY <1>2, <2>1 DEF PickInv, IndexIsNearlyRight
<1>12. <<options.dict, Chunk(2)>> \in {<<<<>>, options.dict>>, <<>>}
  BY <1>8, <1>9, <1>10, <1>11
<1> QED BY <1>1, <1>12

(* What passes its digest is the chunk, and is decoded to it.               *)
LEMMA PickedIsRight ==
  ASSUME IInv, PickInv, pc = "chunk", command = "extract", ChunksLeft,
         file.idx[chunk].compLength # 0, Len(Comp) = file.idx[chunk].compLength,
         Verified(file.idx[chunk], Comp)
  PROVE  LET dict == IF chunk = 1 THEN <<>> ELSE bufs[DictBuffer]
         IN  /\ Decode(options.ct, dict, Comp) = {Outcome(Chunk(chunk))}
             /\ chunk > 1 => bufs[DictBuffer] = options.dict \/ options.ct = "none"
<1>1. CommandTypes /\ BuilderHoldsTheChunks /\ FileIsTheBuilders /\ ChunksAreRead /\ file.header
  <2>1. CommandTypes /\ BuilderHoldsTheChunks /\ FileIsTheBuilders /\ ChunksAreRead
    BY DEF IInv
  <2> QED BY <2>1 DEF FileIsTheBuilders
<1>2. /\ Len(builder.idx) \in Nat /\ DOMAIN file.idx = 1 .. Len(builder.idx)
      /\ chunk \in 1 .. Len(builder.idx)
  <2>1. /\ Len(builder.idx) \in Nat /\ DOMAIN file.idx = 1 .. Len(builder.idx)
        /\ Len(file.idx) = Len(builder.idx) /\ chunk \in 1 .. Len(file.idx) + 1 /\ chunk <= Len(file.idx)
    BY <1>1, BodyFacts DEF FileIsTheBuilders, ChunksAreRead, ChunksLeft
  <2> QED BY <2>1
<1>3. chunk \in Nat \ {0} /\ chunk \in DOMAIN file.idx
  BY <1>2
<1>4. Comp = Coded(chunk)
  <2>1. Sum(Comp) = file.idx[chunk].digest
    BY DEF Verified
  <2>2. file.idx[chunk].digest \in {Recorded(chunk).digest, ZeroDigest}
    BY <1>1, <1>3 DEF PickInv, IndexIsNearlyRight
  <2>3. Recorded(chunk).digest \in {<<>>, Sum(Coded(chunk))}
    BY <1>1, <1>3, CodedFacts
  <2>4. <<Comp>> \in {<<>>, <<Coded(chunk)>>}
    BY <2>1, <2>2, <2>3 DEF Sum, ZeroDigest
  <2> QED BY <2>4
<1>5. chunk > 1 => bufs[DictBuffer] = options.dict \/ options.ct = "none"
  <2> SUFFICES ASSUME chunk > 1, bufs[DictBuffer] # options.dict, options.ct # "none" PROVE FALSE
    OBVIOUS
  <2>1. chunk = 2 /\ Comp # Coded(2)
    BY SkippedFacts, SkippedIsRefused
  <2> QED BY <1>4, <2>1
<1>6. Decode(options.ct, DictOf(chunk), Comp) = {Outcome(Chunk(chunk))}
  BY <1>1, <1>3, <1>4, CodedFacts
<1> DEFINE dict == IF chunk = 1 THEN <<>> ELSE bufs[DictBuffer]
<1>7. dict = DictOf(chunk) \/ options.ct = "none"
  <2>1. chunk # 1 => chunk > 1
    BY <1>3
  <2> QED BY <1>5, <2>1 DEF DictOf
<1> HIDE DEF dict
<1>8. ASSUME options.ct = "none" PROVE Decode(options.ct, dict, Comp) = Decode(options.ct, DictOf(chunk), Comp)
  BY <1>8 DEF Decode
<1>9. Decode(options.ct, dict, Comp) = {Outcome(Chunk(chunk))}
  BY <1>6, <1>7, <1>8
<1> QED BY <1>5, <1>9 DEF dict

LEMMA OpenFilePicks ==
  ASSUME IInv, OpenFile
  PROVE  ChunksArePicked' /\ OnlyChunksAreWritten'
<1> SUFFICES ASSUME command' = "extract" PROVE ChunksArePicked' /\ OnlyChunksAreWritten'
  BY DEF ChunksArePicked, OnlyChunksAreWritten
<1>1. /\ out' = <<>> /\ UNCHANGED <<input, options, file, pos, builder>>
      /\ command = "create" /\ pc' # "loaded"
      /\ pc' = "chunk" => /\ file.header /\ chunk' = 1
                          /\ bufs' = [k \in 1 .. Len(file.idx) + 1 |-> <<>>]
  BY DEF OpenFile, creating
<1>2. CommandTypes /\ BuilderHoldsTheChunks /\ FileIsTheBuilders /\ CommandTypes'
  BY OpenFileIInv DEF IInv
<1>3. Len(builder.idx) \in Nat
  BY <1>2, BodyFacts
<1>4. \A S, n : Picked(S, n)' = Picked(S, n)
  BY <1>1, PickedIsKept
<1>5. Picked({}, 0) = <<>>
  BY <1>2, PickedFacts
<1>6. OnlyChunksAreWritten'
  <2> DEFINE n == Len(builder.idx)
             p == Picked({}, n)
  <2>1. p = <<>>
    <3>1. {} \in SUBSET (2 .. 0) /\ 0 \in Nat /\ 0 <= n
      BY <1>3
    <3>2. Picked({}, n) = Picked({}, 0)
      <4> HIDE DEF n
      <4> QED BY <1>2, <1>3, <3>1, PickedEarlier DEF n
    <3> QED BY <1>5, <3>2
  <2>2. IsPrefix(<<>>, <<>>)
    BY EmptySeq DEF IsPrefix
  <2>3. Picked({}, n)' = <<>>
    BY <1>1, <1>4, <2>1
  <2>4. {} \in SUBSET (2 .. n')
    OBVIOUS
  <2>5. IsPrefix(out', Picked({}, n)')
    BY <1>1, <2>2, <2>3
  <2> QED BY <2>4, <2>5 DEF OnlyChunksAreWritten
<1>7. ChunksArePicked'
  <2> SUFFICES ASSUME pc' = "chunk" PROVE ChunksArePicked'
    BY <1>1 DEF ChunksArePicked
  <2> DEFINE m == Len(file.idx)
  <2>1. m \in Nat \ {0}
    <3>1. Len(file.idx) = Len(builder.idx) /\ 1 \in DOMAIN file.idx /\ DOMAIN file.idx = DOMAIN builder.idx
      <4>1. Len(file.idx) = Len(builder.idx) /\ DOMAIN file.idx = DOMAIN builder.idx /\ builder.idx # <<>>
        BY <1>1, <1>2 DEF FileIsTheBuilders
      <4>2. Len(builder.idx) # 0
        <5>1. builder.idx = [k \in 1 .. Len(builder.idx) |-> Recorded(k)]
          BY <1>2 DEF BuilderHoldsTheChunks
        <5> SUFFICES ASSUME Len(builder.idx) = 0 PROVE FALSE
          OBVIOUS
        <5>2. builder.idx = [k \in 1 .. 0 |-> Recorded(k)]
          BY <5>1
        <5>3. builder.idx = <<>>
          BY <5>2
        <5> QED BY <4>1, <5>3
      <4>3. 1 \in 1 .. Len(builder.idx) /\ DOMAIN builder.idx = 1 .. Len(builder.idx)
        BY <1>2, <1>3, <4>2, BodyFacts
      <4> QED BY <4>1, <4>3
    <3>2. DOMAIN builder.idx = 1 .. Len(builder.idx)
      BY <1>2, BodyFacts
    <3> QED BY <1>3, <3>1, <3>2
  <2> HIDE DEF m
  <2>2. 1 \in 1 .. m + 1 /\ 2 \in 1 .. m + 1 /\ bufs' = [k \in 1 .. m + 1 |-> <<>>]
    BY <1>1, <2>1 DEF m
  <2>3. DOMAIN bufs' = 1 .. m + 1 /\ bufs'[1] = <<>> /\ bufs'[2] = <<>>
    BY <2>2
  <2>4. bufs'[2] \in Seq(Byte)
    BY <2>3, EmptySeq
  <2>5. pos' = 0 /\ chunk' = 1
    BY <1>1, <1>2 DEF FileIsTheBuilders
  <2>6. \E S \in SUBSET (2 .. chunk' - 1) : out' = Picked(S, chunk - 1)'
    <3>1. chunk' - 1 = 0 /\ {} \in SUBSET (2 .. chunk' - 1)
      BY <2>5
    <3>2. Picked({}, chunk - 1)' = Picked({}, 0)
      BY <1>1, <3>1, ContentIsKept DEF Picked
    <3> QED BY <1>1, <1>5, <3>1, <3>2
  <2>7. DOMAIN bufs' = 1 .. Len(file'.idx) + 1
    BY <1>1, <2>3 DEF m
  <2> QED BY <2>3, <2>4, <2>5, <2>6, <2>7 DEF ChunksArePicked, DictBuffer
<1> QED BY <1>6, <1>7

LEMMA ReadChunkPicks ==
  ASSUME IInv, PickInv, ReadChunk, command = "extract"
  PROVE  ChunksArePicked' /\ OnlyChunksAreWritten'
<1> DEFINE e == file.idx[chunk]
           dict == IF chunk = 1 THEN <<>> ELSE bufs[DictBuffer]
           b == Buffer(chunk)
           empty == e.compLength = 0 /\ command = "extract"
           whole == Len(Comp) = e.compLength
           Empty == /\ empty /\ pc' = "loaded" /\ data' = [buffer |-> b, length |-> 0]
                    /\ UNCHANGED <<status, bufs>>
           Fine(o) == o.ok /\ Len(o.plain) = e.length /\ VerifiedPlain(e, o.plain)
           Refused == pc' = "exited" /\ status' = "refused"
           Bad == ~empty /\ ~(whole /\ Verified(e, Comp)) /\ Refused
           Read(o) == /\ bufs' = [bufs EXCEPT ![b] = o.plain]
                      /\ IF Fine(o) THEN /\ pc' = "loaded" /\ UNCHANGED status
                                         /\ data' = [buffer |-> b, length |-> Len(bufs'[b])]
                         ELSE Refused
           Whole == /\ ~empty /\ whole /\ Verified(e, Comp)
                    /\ \E o \in Decode(options.ct, dict, Comp) : Read(o)
<1>1. /\ pc = "chunk" /\ ChunksLeft /\ pos' = pos + Len(Comp) /\ (Empty \/ Bad \/ Whole)
      /\ UNCHANGED <<input, options, command, file, damaged, chunk, samples, out, taken, builder>>
  BY Zenon DEF ReadChunk, Comp, Left, Exit, creating, Decoded
<1>2. ChunksArePicked /\ IndexIsNearlyRight
  BY DEF PickInv
<1>3. OnlyChunksAreWritten'
  BY <1>1, <1>2, EndsPicked
<1>4. /\ CommandTypes /\ FileIsTheBuilders /\ file.header
      /\ Len(file.idx) \in Nat /\ chunk \in 1 .. Len(file.idx)
  <2>1. CommandTypes /\ BuilderHoldsTheChunks /\ FileIsTheBuilders /\ ChunksAreRead
    BY DEF IInv
  <2>2. /\ file.header /\ chunk \in 1 .. Len(file.idx) + 1 /\ chunk <= Len(file.idx)
    BY <1>1, <2>1 DEF FileIsTheBuilders, ChunksAreRead, ChunksLeft
  <2>3. Len(file.idx) \in Nat
    BY <2>1, <2>2, BodyFacts DEF FileIsTheBuilders
  <2> QED BY <2>1, <2>2, <2>3
<1>5. chunk \in Nat \ {0} /\ (chunk # 1 <=> chunk > 1)
  BY <1>4
<1>6. b = (IF chunk = 1 THEN 1 ELSE 2) /\ b \in 1 .. Len(file.idx) + 1
  <2>1. b = IF chunk = 1 THEN 1 ELSE 2
    BY DEF Buffer, DictBuffer
  <2> DEFINE m == Len(file.idx)
  <2>2. chunk \in 1 .. m /\ m \in Nat
    BY <1>4
  <2> HIDE DEF m, b
  <2>3. b \in 1 .. m + 1
    BY <2>1, <2>2
  <2> QED BY <2>1, <2>3 DEF m
<1>7. /\ DOMAIN bufs = 1 .. Len(file.idx) + 1 /\ bufs[2] \in Seq(Byte)
      /\ \E S \in SUBSET (2 .. chunk - 1) : out = Picked(S, chunk - 1)
      /\ chunk = 1 => bufs[DictBuffer] = <<>> /\ pos = 0
      /\ chunk # 1 => DictIsBound
  BY <1>1, <1>2 DEF ChunksArePicked
(* What is in the buffers when the chunk was taken for empty, or decoded.   *)
<1>8. ASSUME pc' = "loaded"
      PROVE  /\ DOMAIN bufs' = 1 .. Len(file.idx) + 1 /\ bufs'[2] \in Seq(Byte)
             /\ DictIsBound' /\ data'.buffer = b
             /\ chunk > 1 => SubSeq(bufs'[data'.buffer], 1, data'.length) \in {<<>>, Chunk(chunk)}
  <2>1. CASE Empty
    <3>1. SubSeq(bufs'[data'.buffer], 1, data'.length) = <<>> /\ data'.buffer = b
      BY <2>1, SubSeqEmpty
    <3>2. CASE chunk = 1
      <4>1. Coded(1) = <<>> <=> options.dict = <<>>
        <5>1. 1 \in Nat \ {0}
          OBVIOUS
        <5> QED BY <1>4, <5>1, CodedFacts, ChunkFacts
      <4>2. Len(Coded(1)) = 0 => Coded(1) = <<>>
        <5>1. 1 \in Nat \ {0}
          OBVIOUS
        <5>2. Coded(1) \in Seq(Units)
          BY <1>4, <5>1, CodedFacts
        <5> QED BY <5>2, EmptySeq
      <4>3. pos' = 0
        <5>1. Len(file.body) \in Nat
          BY <1>4, LenProperties DEF FileIsTheBuilders
        <5>2. ~(Len(file.body) - 0 < 0) /\ 0 + 1 = 1 /\ 0 + 0 = 0
          BY <5>1
        <5>3. Comp = SubSeq(file.body, 1, 0)
          BY <1>7, <2>1, <3>2, <5>2 DEF Comp, Left
        <5>4. Len(Comp) = 0
          BY <5>3, SubSeqEmpty, EmptySeq
        <5> QED BY <1>1, <1>7, <3>2, <5>4
      <4>4. bufs'[DictBuffer] = <<>> /\ file'.idx[1].compLength = 0
        BY <1>1, <1>7, <2>1, <3>2
      <4>5. Len(Coded(1))' = Len(Coded(1))
        BY <1>1, ContentIsKept
      <4>6. bufs'[DictBuffer] = options'.dict \/ DictIsSkipped'
        BY <1>1, <4>1, <4>2, <4>3, <4>4, <4>5 DEF DictIsSkipped
      <4>7. ~(chunk' > 1)
        BY <1>1, <3>2
      <4> QED BY <1>5, <1>7, <2>1, <3>1, <3>2, <4>6, <4>7 DEF DictIsBound
    <3>3. CASE chunk > 1
      <4>1. bufs[DictBuffer] = options.dict \/ options.ct = "none"
        <5> SUFFICES ASSUME bufs[DictBuffer] # options.dict, options.ct # "none" PROVE FALSE
          OBVIOUS
        <5>1. chunk = 2 /\ file.idx[2].compLength = Len(Coded(2)) /\ Len(Coded(2)) \in Nat \ {0}
          BY <1>1, <3>3, SkippedFacts
        <5> QED BY <2>1, <5>1
      <4>2. DictIsBound'
        BY <1>1, <2>1, <3>3, <4>1 DEF DictIsBound
      <4> QED BY <1>7, <2>1, <3>1, <4>2
    <3> QED BY <1>5, <3>2, <3>3
  <2>2. CASE Whole
    <3>1. /\ Decode(options.ct, dict, Comp) = {Outcome(Chunk(chunk))}
          /\ chunk > 1 => bufs[DictBuffer] = options.dict \/ options.ct = "none"
      BY <1>1, <2>2, PickedIsRight
    <3>2. PICK o \in Decode(options.ct, dict, Comp) : Read(o)
      BY <2>2
    <3>3. o.plain = Chunk(chunk)
      BY <3>1, <3>2 DEF Outcome
    <3>4. /\ bufs' = [bufs EXCEPT ![b] = Chunk(chunk)]
          /\ data' = [buffer |-> b, length |-> Len(bufs'[b])]
      <4>1. pc' # "exited"
        BY <1>8
      <4> HIDE DEF Fine
      <4> QED BY <3>2, <3>3, <4>1
    <3> HIDE DEF b
    <3>5. /\ DOMAIN bufs' = 1 .. Len(file.idx) + 1 /\ bufs'[b] = Chunk(chunk)
          /\ \A k : k # b => bufs'[k] = bufs[k]
      <4>1. DOMAIN bufs' = 1 .. Len(file.idx) + 1 /\ bufs'[b] = Chunk(chunk)
        BY <1>6, <1>7, <3>4
      <4>2. ASSUME NEW k, k # b PROVE bufs'[k] = bufs[k]
        BY <3>4, <4>2
      <4> QED BY <4>1, <4>2
    <3>6. Chunk(chunk) \in Seq(Byte) /\ (chunk = 1 => Chunk(chunk) = options.dict)
      BY <1>4, <1>5, CodedFacts, ChunkFacts
    <3>7. bufs'[2] \in Seq(Byte)
      BY <1>6, <1>7, <3>5, <3>6
    <3>8. DictIsBound'
      <4>1. CASE chunk = 1
        BY <1>1, <1>6, <3>5, <3>6, <4>1 DEF DictIsBound, DictBuffer
      <4>2. CASE chunk > 1
        <5>1. bufs'[DictBuffer] = bufs[DictBuffer]
          BY <1>5, <1>6, <3>5, <4>2 DEF DictBuffer
        <5> QED BY <1>1, <3>1, <4>2, <5>1 DEF DictIsBound
      <4> QED BY <1>5, <4>1, <4>2
    <3>9. data'.buffer = b /\ SubSeq(bufs'[data'.buffer], 1, data'.length) = Chunk(chunk)
      <4>1. data'.buffer = b /\ data'.length = Len(Chunk(chunk))
        BY <3>4, <3>5
      <4>2. SubSeq(Chunk(chunk), 1, Len(Chunk(chunk))) = Chunk(chunk)
        BY <3>6, SubSeqFull
      <4> QED BY <3>5, <4>1, <4>2
    <3> QED BY <3>5, <3>7, <3>8, <3>9
  <2> QED BY <1>1, <1>8, <2>1, <2>2
<1>9. pc' # "chunk"
  <2>1. CASE Empty
    BY <2>1
  <2>2. CASE Bad
    BY <2>2
  <2>3. CASE Whole
    <3>1. PICK o \in Decode(options.ct, dict, Comp) : Read(o)
      BY <2>3
    <3> HIDE DEF Fine
    <3> QED BY <3>1
  <2> QED BY <1>1, <2>1, <2>2, <2>3
<1>10. ChunksArePicked'
  <2> SUFFICES ASSUME pc' = "loaded" PROVE ChunksArePicked'
    BY <1>9 DEF ChunksArePicked
  <2>1. Chunk(chunk)' = Chunk(chunk) /\ Buffer(chunk)' = b
    BY <1>1 DEF Buffer, Chunk, UpTo
  <2>2. \E S \in SUBSET (2 .. chunk' - 1) : out' = Picked(S, chunk - 1)'
    <3>1. PICK S \in SUBSET (2 .. chunk - 1) : out = Picked(S, chunk - 1)
      BY <1>7
    <3>2. Picked(S, chunk - 1)' = Picked(S, chunk - 1)
      BY <1>1, ContentIsKept DEF Picked
    <3> QED BY <1>1, <3>1, <3>2
  <2> HIDE DEF b
  <2> QED BY <1>1, <1>8, <2>1, <2>2 DEF ChunksArePicked
<1> QED BY <1>3, <1>10

LEMMA BindDictPicks ==
  ASSUME IInv, PickInv, BindDict, command = "extract"
  PROVE  ChunksArePicked' /\ OnlyChunksAreWritten'
<1>1. /\ pc = "loaded" /\ chunk = 1
      /\ (pc' = "chunk" /\ chunk' = 2) \/ pc' = "exited"
      /\ UNCHANGED <<input, options, command, file, damaged, pos, bufs, data, samples, out, taken, builder>>
  BY DEF BindDict, Exit, creating
<1>2. ChunksArePicked
  BY DEF PickInv
<1>3. OnlyChunksAreWritten'
  BY <1>1, <1>2, EndsPicked
<1>4. CommandTypes
  BY DEF IInv
<1>5. /\ DOMAIN bufs = 1 .. Len(file.idx) + 1 /\ bufs[2] \in Seq(Byte) /\ DictIsBound
      /\ \E S \in SUBSET (2 .. chunk - 1) : out = Picked(S, chunk - 1)
  BY <1>1, <1>2 DEF ChunksArePicked
<1>6. ChunksArePicked'
  <2> SUFFICES ASSUME pc' = "chunk", chunk' = 2 PROVE ChunksArePicked'
    BY <1>1 DEF ChunksArePicked
  <2>1. out = Picked({}, 1)
    <3>1. out = Picked({}, 0)
      <4>1. chunk - 1 = 0 /\ 2 .. chunk - 1 = {}
        BY <1>1
      <4>2. PICK S \in SUBSET (2 .. chunk - 1) : out = Picked(S, chunk - 1)
        BY <1>5
      <4>3. S = {}
        BY <4>1
      <4> QED BY <4>1, <4>2, <4>3
    <3>2. 0 \in Nat /\ 0 + 1 = 1 /\ 1 \notin {}
      OBVIOUS
    <3>3. Picked({}, 0) \in Seq(Byte) /\ Picked({}, 1) = Picked({}, 0) \o <<>>
      BY <1>4, <3>2, PickedFacts
    <3> QED BY <3>1, <3>3, ConcatEmptySeq
  <2>2. \E S \in SUBSET (2 .. chunk' - 1) : out' = Picked(S, chunk - 1)'
    <3>1. chunk' - 1 = 1 /\ {} \in SUBSET (2 .. chunk' - 1)
      OBVIOUS
    <3>2. Picked({}, chunk - 1)' = Picked({}, 1)
      BY <1>1, <3>1, ContentIsKept DEF Picked
    <3> QED BY <1>1, <2>1, <3>1, <3>2
  <2>3. DictIsBound'
    <3>1. Coded(1)' = Coded(1)
      BY <1>1, ContentIsKept
    <3>2. DictIsSkipped' <=> DictIsSkipped
      BY <1>1, <3>1 DEF DictIsSkipped
    <3>3. bufs[DictBuffer] = options.dict \/ DictIsSkipped
      BY <1>1, <1>5 DEF DictIsBound
    <3> QED BY <1>1, <3>2, <3>3 DEF DictIsBound
  <2> QED BY <1>1, <1>5, <2>2, <2>3 DEF ChunksArePicked
<1> QED BY <1>3, <1>6

LEMMA WriteChunkPicks ==
  ASSUME IInv, PickInv, WriteChunk
  PROVE  ChunksArePicked' /\ OnlyChunksAreWritten'
<1> DEFINE plain == SubSeq(bufs[data.buffer], 1, data.length)
           n == chunk - 1
<1>1. /\ pc = "loaded" /\ chunk > 1 /\ command = "extract"
      /\ \/ out' = out \o plain /\ pc' = "chunk" /\ chunk' = chunk + 1
         \/ pc' = "exited" /\ \E k \in 0 .. Len(plain) : out' = out \o SubSeq(plain, 1, k)
      /\ UNCHANGED <<input, options, command, file, damaged, pos, bufs, data, samples, taken, builder>>
  BY DEF WriteChunk, Exit, creating
<1>2. CommandTypes /\ BuilderHoldsTheChunks /\ FileIsTheBuilders
  BY DEF IInv
<1>3. /\ Len(builder.idx) \in Nat /\ Len(file.idx) = Len(builder.idx)
      /\ chunk \in 1 .. Len(file.idx)
  BY <1>1, <1>2, LoadedFacts, BodyFacts DEF FileIsTheBuilders
<1>4. /\ n \in Nat /\ n + 1 = chunk /\ chunk \in Nat \ {0} /\ chunk \in 2 .. chunk
      /\ chunk <= Len(builder.idx)
      /\ chunk' = chunk + 1 => chunk' - 1 = chunk /\ chunk' > 1
  <2> DEFINE m == Len(builder.idx)
  <2>1. m \in Nat /\ chunk \in 1 .. m /\ chunk > 1
    BY <1>1, <1>3
  <2> HIDE DEF m
  <2>2. /\ n \in Nat /\ n + 1 = chunk /\ chunk \in Nat \ {0} /\ chunk \in 2 .. chunk
        /\ chunk <= m /\ (chunk + 1) - 1 = chunk /\ chunk + 1 > 1
    BY <2>1
  <2> QED BY <2>2 DEF m
<1>5. /\ DOMAIN bufs = 1 .. Len(file.idx) + 1 /\ bufs[2] \in Seq(Byte) /\ DictIsBound
      /\ plain \in {<<>>, Chunk(chunk)}
      /\ \E S \in SUBSET (2 .. n) : out = Picked(S, n)
  BY <1>1 DEF PickInv, ChunksArePicked
<1>6. PICK S \in SUBSET (2 .. n) : out = Picked(S, n)
  BY <1>5
<1>7. plain \in Seq(Byte)
  BY <1>2, <1>4, <1>5, CodedFacts, EmptySeq
<1> HIDE DEF plain
(* The chunk is picked as well, or not.                                     *)
<1>8. PICK T \in SUBSET (2 .. chunk) : out \o plain = Picked(T, chunk)
  <2>1. chunk \notin S
    <3> HIDE DEF n
    <3>1. \A k \in 2 .. n : k # n + 1
      BY <1>4
    <3> QED BY <1>4, <3>1
  <2>2. S \in SUBSET (2 .. chunk)
    BY <1>4
  <2>3. CASE plain = <<>>
    <3>1. Picked(S, n + 1) = Picked(S, n) \o <<>>
      <4> HIDE DEF n
      <4> QED BY <1>2, <1>4, <2>1, PickedFacts
    <3> QED BY <1>4, <1>6, <2>2, <2>3, <3>1
  <2>4. CASE plain = Chunk(chunk)
    <3> DEFINE T == S \cup {chunk}
    <3>1. T \in SUBSET (2 .. chunk)
      BY <1>4, <2>2
    <3>2. Picked(T, n) = Picked(S, n)
      <4>1. \A k \in 1 .. n : k \in T <=> k \in S
        <5>1. \A k \in 1 .. n : k # chunk
          BY <1>4
        <5> QED BY <5>1
      <4> HIDE DEF T, n
      <4> QED BY <4>1 DEF Picked
    <3>3. Picked(T, n + 1) = Picked(T, n) \o Chunk(n + 1)
      <4>1. n + 1 \in T
        BY <1>4
      <4> HIDE DEF T, n
      <4> QED BY <1>2, <1>4, <4>1, PickedFacts
    <3> QED BY <1>4, <1>6, <2>4, <3>1, <3>2, <3>3
  <2> QED BY <1>5, <2>3, <2>4
<1>9. OnlyChunksAreWritten'
  <2> DEFINE m == Len(builder.idx)
  <2>1. T \in SUBSET (2 .. m) /\ chunk \in Nat /\ m \in Nat /\ chunk <= m
    BY <1>3, <1>4
  <2> HIDE DEF m
  <2>2. Picked(T, m) = Picked(T, chunk)
    BY <1>2, <2>1, PickedEarlier
  <2>3. out \in Seq(Byte)
    <3> HIDE DEF n
    <3> QED BY <1>2, <1>4, <1>6, PickedFacts
  <2>4. IsPrefix(out', out \o plain)
    <3>1. Len(plain) \in Nat
      BY <1>7, LenProperties
    <3>2. PICK k \in 0 .. Len(plain) : out' = out \o SubSeq(plain, 1, k)
      <4>1. CASE out' = out \o plain
        <5>1. SubSeq(plain, 1, Len(plain)) = plain /\ Len(plain) \in 0 .. Len(plain)
          BY <1>7, <3>1, SubSeqFull
        <5> QED BY <4>1, <5>1
      <4> QED BY <1>1, <4>1
    <3> QED BY <1>7, <2>3, <3>2, PrefixOfConcat
  <2>5. Picked(T, m)' = Picked(T, m) /\ m' = m
    BY <1>1, PickedIsKept DEF m, Picked
  <2>6. IsPrefix(out', Picked(T, m)')
    BY <1>8, <2>2, <2>4, <2>5
  <2> QED BY <2>1, <2>5, <2>6 DEF OnlyChunksAreWritten, m
<1>10. ChunksArePicked'
  <2> SUFFICES ASSUME pc' = "chunk", chunk' = chunk + 1, out' = out \o plain PROVE ChunksArePicked'
    BY <1>1 DEF ChunksArePicked
  <2>1. \E R \in SUBSET (2 .. chunk' - 1) : out' = Picked(R, chunk - 1)'
    <3>1. chunk' - 1 = chunk
      BY <1>4
    <3>2. Picked(T, chunk - 1)' = Picked(T, chunk)
      BY <1>1, <3>1, ContentIsKept DEF Picked
    <3> QED BY <1>8, <3>1, <3>2
  <2>2. DictIsBound'
    <3>1. bufs[DictBuffer] = options.dict \/ options.ct = "none"
      BY <1>1, <1>5 DEF DictIsBound
    <3> QED BY <1>1, <1>4, <3>1 DEF DictIsBound
  <2>3. chunk' # 1
    BY <1>4
  <2> QED BY <1>1, <1>5, <2>1, <2>2, <2>3 DEF ChunksArePicked
<1> QED BY <1>9, <1>10

(* What is not a step of extract's loop.                                    *)
LEMMA PickedUntouched ==
  ASSUME PickInv, command' = command, pc' = pc,
         UNCHANGED <<input, options, builder, file, chunk, pos, bufs, data, out>>
  PROVE  ChunksArePicked' /\ OnlyChunksAreWritten'
<1>1. \A S, n : Picked(S, n)' = Picked(S, n)
  BY PickedIsKept
<1>2. /\ Picked({}, 0)' = Picked({}, 0) /\ Coded(1)' = Coded(1)
      /\ Chunk(chunk)' = Chunk(chunk) /\ Buffer(chunk)' = Buffer(chunk)
  BY ContentIsKept DEF Buffer, Chunk, UpTo, Picked
<1>3. (DictIsSkipped' <=> DictIsSkipped) /\ (DictIsBound' <=> DictIsBound)
  BY <1>2 DEF DictIsSkipped, DictIsBound
<1>4. \A S : Picked(S, chunk - 1)' = Picked(S, chunk - 1)
  BY ContentIsKept DEF Picked
<1>5. \A S : Picked(S, Len(builder.idx))' = Picked(S, Len(builder.idx))
  BY ContentIsKept DEF Picked
<1>6. ChunksArePicked'
  BY <1>2, <1>3, <1>4 DEF PickInv, ChunksArePicked
<1>7. OnlyChunksAreWritten'
  BY <1>5 DEF PickInv, OnlyChunksAreWritten
<1> QED BY <1>6, <1>7

LEMMA StepPicks ==
  ASSUME IInv, PickInv, [Next]_vars
  PROVE  ChunksArePicked' /\ OnlyChunksAreWritten'
<1>1. ASSUME command' # "extract" PROVE ChunksArePicked' /\ OnlyChunksAreWritten'
  BY <1>1 DEF ChunksArePicked, OnlyChunksAreWritten
<1>2. pc \in {"builder", "add", "write"} \/ OnItsWay => command # "extract"
  BY DEF IInv, CommandTypes, OnItsWay
<1>3. CASE NewBuilder \/ AddChunk \/ ReadInputFails \/ WriteFile
  BY <1>1, <1>2, <1>3 DEF NewBuilder, AddChunk, ReadInputFails, WriteFile
<1>4. CASE DamageBody \/ DamageIndex \/ OtherWriter
  BY <1>1, <1>2, <1>4 DEF DamageBody, DamageIndex, OtherWriter
<1>5. CASE OpenFile
  BY <1>5, OpenFilePicks
<1>6. CASE ReadChunk
  <2>1. command' = command
    BY <1>6 DEF ReadChunk
  <2> QED BY <1>1, <1>6, <2>1, ReadChunkPicks
<1>7. CASE BindDict
  <2>1. command' = command
    BY <1>7 DEF BindDict
  <2> QED BY <1>1, <1>7, <2>1, BindDictPicks
<1>8. CASE WriteChunk
  BY <1>8, WriteChunkPicks
<1>9. CASE LastWritten
  <2>1. /\ pc = "chunk" /\ command = "extract" /\ pc' = "exited"
        /\ UNCHANGED <<input, options, builder, out>>
    BY <1>9 DEF LastWritten, Exit, creating, reading
  <2> QED BY <2>1, EndsPicked DEF PickInv, ChunksArePicked
<1>10. CASE KeepSample \/ Train
  BY <1>1, <1>10 DEF KeepSample, Train
<1>11. CASE Finished \/ UNCHANGED vars
  BY <1>11, PickedUntouched DEF Finished, vars
<1> QED BY <1>3, <1>4, <1>5, <1>6, <1>7, <1>8, <1>9, <1>10, <1>11 DEF Next

(* Even when an entry of the index changed, extract writes chunks of the    *)
(* content in their order, none of them altered: one can only be missing    *)
(* (main.go:469-489, extract.go:67-73).                                     *)
THEOREM OnlyChunks == Spec => []OnlyChunksAreWritten
<1>1. Init => PickInv
  BY DEF Init, Nothing, PickInv, IndexIsNearlyRight, ChunksArePicked, OnlyChunksAreWritten
<1>2. IInv /\ PickInv /\ [Next]_vars => PickInv'
  BY StepNearly, StepPicks DEF PickInv
<1>3. PickInv => OnlyChunksAreWritten
  BY DEF PickInv
<1> QED BY <1>1, <1>2, <1>3, InductiveInvariant, PTL DEF Spec
=============================================================================

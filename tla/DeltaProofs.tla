---------------------------- MODULE DeltaProofs ----------------------------
(***************************************************************************)
(* Facts about the operators of Delta, for every plan: the running offsets *)
(* satisfy their recursive definition and grow, and the runs of remoteRuns *)
(* cover the must-fetch chunks once each, without gaps or neighbours.      *)
(***************************************************************************)
EXTENDS Delta, SequenceLemmas, TLAPS

(* A run ends where the first chunk follows that is not to be fetched.      *)
LEMMA RunEndProperties ==
  ASSUME NEW plan, Len(plan) \in Nat, DOMAIN plan = 1 .. Len(plan),
         NEW s \in RunStarts(plan)
  PROVE  /\ s \in 1 .. Len(plan)
         /\ RunEnd(plan, s) \in s + 1 .. Len(plan) + 1
         /\ \A j \in s .. RunEnd(plan, s) - 1 : j \in DOMAIN plan /\ Remote(plan, j)
         /\ RunEnd(plan, s) \in DOMAIN plan => ~Remote(plan, RunEnd(plan, s))
<1> DEFINE Ends == {e \in s + 1 .. Len(plan) + 1 : e \in DOMAIN plan => ~Remote(plan, e)}
<1>1. s \in 1 .. Len(plan) /\ Remote(plan, s)
  BY DEF RunStarts
<1>2. PICK e \in Ends : \A f \in Ends : e <= f
  <2>1. Ends \subseteq Nat /\ Len(plan) + 1 \in Ends
    BY <1>1
  <2> HIDE DEF Ends
  <2> QED BY <2>1, NatMin
<1>3. \A j \in s .. e - 1 : j \in DOMAIN plan /\ Remote(plan, j)
  <2> SUFFICES ASSUME NEW j \in s .. e - 1 PROVE j \in DOMAIN plan /\ Remote(plan, j)
    OBVIOUS
  <2>1. j = s \/ j \in s + 1 .. Len(plan) + 1
    BY <1>1
  <2>2. j \notin Ends
    <3>1. j < e /\ j \in Nat /\ e \in Nat BY <1>1, <1>2
    <3> HIDE DEF Ends
    <3> QED BY <1>2, <3>1
  <2>3. j \in 1 .. Len(plan)
    BY <1>1
  <2> QED BY <1>1, <2>1, <2>2, <2>3
<1>4. e \in s + 1 .. Len(plan) + 1 /\ e - 1 \in RunChunks(plan, s) /\ e \notin RunChunks(plan, s)
  BY <1>1, <1>2, <1>3 DEF RunChunks
<1> DEFINE r == RunEnd(plan, s)
<1>5. r \in s + 1 .. Len(plan) + 1 /\ r - 1 \in RunChunks(plan, s) /\ r \notin RunChunks(plan, s)
  BY <1>4 DEF RunEnd
<1> HIDE DEF r
<1>6. \A j \in s .. r - 1 : j \in DOMAIN plan /\ Remote(plan, j)
  BY <1>1, <1>5 DEF RunChunks
<1>7. r \in DOMAIN plan => ~Remote(plan, r)
  BY <1>1, <1>5, <1>6 DEF RunChunks
<1> QED BY <1>1, <1>5, <1>6, <1>7 DEF r

(* Every chunk to fetch is in the run that begins where the chunks to fetch *)
(* before it begin.                                                         *)
LEMMA RunOfChunk ==
  ASSUME NEW plan, Len(plan) \in Nat, DOMAIN plan = 1 .. Len(plan),
         NEW n \in DOMAIN plan, Remote(plan, n)
  PROVE  \E s \in RunStarts(plan) : n \in RunChunks(plan, s)
<1> DEFINE From == {b \in 1 .. n : \A j \in b .. n : Remote(plan, j)}
<1>1. n \in From /\ From \subseteq Nat
  OBVIOUS
<1>2. PICK s \in From : \A b \in From : s <= b
  <2> HIDE DEF From
  <2> QED BY <1>1, NatMin
<1>3. s \in 1 .. n /\ \A j \in s .. n : Remote(plan, j)
  OBVIOUS
<1>4. s = 1 \/ ~Remote(plan, s - 1)
  <2>1. SUFFICES ASSUME s # 1, Remote(plan, s - 1) PROVE FALSE
    OBVIOUS
  <2>2. s - 1 \in 1 .. n /\ \A j \in s - 1 .. n : j = s - 1 \/ j \in s .. n
    BY <1>3, <2>1
  <2>3. s - 1 \in From
    BY <1>3, <2>1, <2>2
  <2>4. s <= s - 1
    <3> HIDE DEF From
    <3> QED BY <1>2, <2>3
  <2> QED BY <1>3, <2>4
<1> HIDE DEF From
<1>5. s \in DOMAIN plan /\ s <= n /\ Remote(plan, s)
  BY <1>3
<1> QED BY <1>3, <1>4, <1>5 DEF RunStarts, RunChunks

(* No chunk is in two runs.                                                 *)
LEMMA RunsAreDisjoint ==
  ASSUME NEW plan, Len(plan) \in Nat, DOMAIN plan = 1 .. Len(plan),
         NEW s \in RunStarts(plan), NEW t \in RunStarts(plan),
         NEW n, n \in RunChunks(plan, s), n \in RunChunks(plan, t)
  PROVE  s = t
<1>1. ASSUME NEW a \in RunStarts(plan), NEW b \in RunStarts(plan),
             n \in RunChunks(plan, a), n \in RunChunks(plan, b)
      PROVE  ~(a < b)
  <2>1. SUFFICES ASSUME a < b PROVE FALSE
    OBVIOUS
  <2>2. a \in 1 .. Len(plan) /\ b \in 1 .. Len(plan) /\ n \in 1 .. Len(plan) /\ b <= n
    BY <1>1 DEF RunStarts, RunChunks
  <2>3. b # 1 /\ b - 1 \in a .. n
    BY <2>1, <2>2
  <2>4. Remote(plan, b - 1)
    BY <1>1, <2>3 DEF RunChunks
  <2> QED BY <2>3, <2>4 DEF RunStarts
<1>2. s \in 1 .. Len(plan) /\ t \in 1 .. Len(plan)
  BY DEF RunStarts
<1>3. ~(s < t) /\ ~(t < s)
  BY <1>1
<1> QED BY <1>2, <1>3

(* What a run covers, said twice.                                           *)
LEMMA RunChunksUpToEnd ==
  ASSUME NEW plan, Len(plan) \in Nat, DOMAIN plan = 1 .. Len(plan),
         NEW s \in RunStarts(plan)
  PROVE  \A n \in DOMAIN plan : n \in s .. RunEnd(plan, s) - 1 <=> n \in RunChunks(plan, s)
<1>1. /\ s \in 1 .. Len(plan)
      /\ RunEnd(plan, s) \in s + 1 .. Len(plan) + 1
      /\ \A j \in s .. RunEnd(plan, s) - 1 : j \in DOMAIN plan /\ Remote(plan, j)
      /\ RunEnd(plan, s) \in DOMAIN plan => ~Remote(plan, RunEnd(plan, s))
  BY RunEndProperties
<1> DEFINE e == RunEnd(plan, s)
<1> SUFFICES ASSUME NEW n \in DOMAIN plan
             PROVE  n \in s .. e - 1 <=> n \in RunChunks(plan, s)
  OBVIOUS
<1>2. ASSUME n \in s .. e - 1 PROVE n \in RunChunks(plan, s)
  <2>1. s <= n /\ \A j \in s .. n : j \in s .. e - 1
    BY <1>1, <1>2
  <2> QED BY <1>1, <2>1 DEF RunChunks
<1>3. ASSUME n \in RunChunks(plan, s) PROVE n \in s .. e - 1
  <2>1. s <= n /\ \A j \in s .. n : Remote(plan, j)
    BY <1>3 DEF RunChunks
  <2>2. ~(e <= n)
    <3>1. SUFFICES ASSUME e <= n PROVE FALSE
      OBVIOUS
    <3>2. e \in s .. n /\ e \in DOMAIN plan
      BY <1>1, <3>1
    <3> HIDE DEF e
    <3> QED BY <1>1, <2>1, <3>2 DEF e
  <2> QED BY <1>1, <2>1, <2>2
<1> QED BY <1>2, <1>3

(* A conversion to int64 yields an integer.                                 *)
LEMMA Int64Type ==
  ASSUME NEW n \in Int
  PROVE  Int64(n) \in Int
BY WordAssumption DEF Int64, Uint64

(* A length that fits is its own int64.                                     *)
LEMMA Int64OfFitting ==
  ASSUME NEW n \in Nat, 2 * n < Word
  PROVE  Int64(n) = n
<1>1. Word \in Nat \ {0} /\ n < Word
  BY WordAssumption
<1>2. n % Word = n
  BY <1>1
<1> QED BY <1>2 DEF Int64, Uint64

(* A run of a plan whose lengths fit is requested at its full length.       *)
LEMMA RunLengthFits ==
  ASSUME NEW plan, Len(plan) \in Nat, DOMAIN plan = 1 .. Len(plan),
         \A i \in DOMAIN plan : plan[i].length \in Nat,
         Fits(Lengths(plan)), NEW s \in RunStarts(plan)
  PROVE  /\ RemoteRun(plan, s).length
              = Offsets(Lengths(plan))[RunEnd(plan, s)] - Offsets(Lengths(plan))[s]
         /\ RemoteRun(plan, s).length \in Nat
         /\ 2 * RunLength(plan, s) < Word
<1> DEFINE off == Offsets(Lengths(plan))
           e   == RunEnd(plan, s)
<1>1. Len(Lengths(plan)) = Len(plan) /\ \A i \in 1 .. Len(plan) : Lengths(plan)[i] \in Nat
  BY DEF Lengths
<1>2. off \in [1 .. Len(plan) + 1 -> Nat]
  BY <1>1, OffsetsUnfold
<1>3. s \in 1 .. Len(plan) + 1 /\ e \in s .. Len(plan) + 1
  BY RunEndProperties
<1>4. off[s] <= off[e] /\ off[e] <= off[Len(plan) + 1]
  BY <1>1, <1>3, OffsetsMonotonic
<1>5. off[s] \in Nat /\ off[e] \in Nat /\ off[Len(plan) + 1] \in Nat
  BY <1>2, <1>3
<1>6. off[e] - off[s] \in Nat /\ 2 * (off[e] - off[s]) < Word
  BY <1>1, <1>4, <1>5, WordAssumption DEF Fits, Total
<1>7. Int64(off[e] - off[s]) = off[e] - off[s]
  BY <1>6, Int64OfFitting
<1> QED BY <1>6, <1>7 DEF RemoteRun, RunLength

(* Reading at most so many bytes yields a sequence of bytes.                *)
LEMMA SliceType ==
  ASSUME NEW S, NEW body \in Seq(S), NEW o \in Int, NEW l \in Int
  PROVE  Slice(body, o, l) \in Seq(S)
<1> DEFINE last == IF o + l <= Len(body) THEN o + l ELSE Len(body)
<1>1. CASE o < 0
  BY <1>1, EmptySeq DEF Slice
<1>2. CASE o >= 0
  <2>1. last \in Int /\ last <= Len(body)
    OBVIOUS
  <2>2. \A n \in o + 1 .. last : body[n] \in S
    BY <1>2, <2>1
  <2> HIDE DEF last
  <2>3. SubSeq(body, o + 1, last) \in Seq(S)
    BY <2>1, <2>2, SubSeqProperties
  <2> QED BY <1>2, <2>3 DEF Slice, last
<1> QED BY <1>1, <1>2

(* Reading inside the body yields as much as was asked for.                 *)
LEMMA SliceInside ==
  ASSUME NEW S, NEW body \in Seq(S), NEW o \in Nat, NEW l \in Nat, o + l <= Len(body)
  PROVE  /\ Slice(body, o, l) = SubSeq(body, o + 1, o + l)
         /\ Slice(body, o, l) \in Seq(S) /\ Len(Slice(body, o, l)) = l
         /\ \A k \in 1 .. l : Slice(body, o, l)[k] = body[o + k]
<1>1. Slice(body, o, l) = SubSeq(body, o + 1, o + l)
  BY DEF Slice
<1>2. o \in 0 .. Len(body) /\ o + l \in o .. Len(body) /\ (o + l) - o = l
  BY LenProperties
<1> QED BY <1>1, <1>2, SubSeqFacts

----------------------------------------------------------------------------
(* Planning *)

LEMMA IndexFacts ==
  ASSUME NEW idx, ProperIndex(idx)
  PROVE  /\ DOMAIN idx.chunks = 1 .. Len(idx.chunks) /\ Len(idx.chunks) \in Nat
         /\ Len(CompLengths(idx)) = Len(idx.chunks)
         /\ \A n \in DOMAIN idx.chunks :
              /\ CompLengths(idx)[n] = idx.chunks[n].compLength
              /\ idx.chunks[n].compLength \in Nat
         /\ Offsets(CompLengths(idx)) \in [1 .. Len(idx.chunks) + 1 -> Nat]
         /\ Offsets(CompLengths(idx))[1] = 0
         /\ \A n \in DOMAIN idx.chunks :
              Offsets(CompLengths(idx))[n + 1]
                = Offsets(CompLengths(idx))[n] + idx.chunks[n].compLength
         /\ \A m \in 1 .. Len(idx.chunks) + 1 : \A n \in m .. Len(idx.chunks) + 1 :
              Offsets(CompLengths(idx))[m] <= Offsets(CompLengths(idx))[n]
         /\ Total(CompLengths(idx)) = Offsets(CompLengths(idx))[Len(idx.chunks) + 1]
<1> DEFINE lens == CompLengths(idx)
           off  == Offsets(lens)
<1>1. /\ DOMAIN idx.chunks = 1 .. Len(idx.chunks) /\ Len(idx.chunks) \in Nat
      /\ \A n \in DOMAIN idx.chunks : idx.chunks[n].compLength \in Nat
  BY DEF ProperIndex
<1>2. /\ Len(lens) = Len(idx.chunks)
      /\ \A n \in DOMAIN idx.chunks : lens[n] = idx.chunks[n].compLength
  BY <1>1 DEF CompLengths
<1> HIDE DEF lens
<1>3. Len(lens) \in Nat /\ \A n \in 1 .. Len(lens) : lens[n] \in Nat
  BY <1>1, <1>2
<1>4. /\ off \in [1 .. Len(lens) + 1 -> Nat]
      /\ \A n \in 1 .. Len(lens) + 1 :
           off[n] = IF n = 1 THEN 0 ELSE off[n - 1] + lens[n - 1]
  BY <1>3, OffsetsUnfold
<1>5. \A m \in 1 .. Len(lens) + 1 : \A n \in m .. Len(lens) + 1 : off[m] <= off[n]
  BY <1>3, OffsetsMonotonic
<1>6. Total(lens) = off[Len(lens) + 1]
  BY DEF Total
<1> HIDE DEF off
<1>7. off[1] = 0
  BY <1>3, <1>4
<1>8. ASSUME NEW n \in DOMAIN idx.chunks
      PROVE  off[n + 1] = off[n] + idx.chunks[n].compLength
  <2>1. n + 1 \in 1 .. Len(lens) + 1 /\ n + 1 # 1 /\ (n + 1) - 1 = n
    BY <1>1, <1>2
  <2> QED BY <1>2, <1>4, <2>1
<1> QED BY <1>1, <1>2, <1>4, <1>5, <1>6, <1>7, <1>8 DEF lens, off

(* The map from digests to offsets holds the offset of a chunk that has the *)
(* digest.                                                                  *)
LEMMA LocalOffsetsFacts ==
  ASSUME NEW local, ProperIndex(local), NEW d \in DOMAIN LocalOffsets(local)
  PROVE  \E j \in NonEmpty(local) :
            /\ local.chunks[j].digest = d
            /\ LocalOffsets(local)[d] = ChunkOffset(local, j)
<1> DEFINE Same == {j \in NonEmpty(local) : local.chunks[j].digest = d}
           first == CHOOSE j \in Same : \A k \in Same : j <= k
<1>1. LocalOffsets(local)[d] = ChunkOffset(local, first) /\ Same # {}
  BY DEF LocalOffsets
<1>2. Same \subseteq Nat
  BY IndexFacts DEF NonEmpty
<1>3. first \in Same
  <2> HIDE DEF Same
  <2>1. \E j \in Same : \A k \in Same : j <= k
    BY <1>1, <1>2, NatMin
  <2> QED BY <2>1
<1> QED BY <1>1, <1>3

(* An offset is a uint64.                                                   *)
LEMMA ChunkOffsetType ==
  ASSUME NEW idx, ProperIndex(idx), NEW n \in DOMAIN idx.chunks
  PROVE  ChunkOffset(idx, n) \in Nat
<1>1. Offsets(CompLengths(idx))[n] \in Nat
  <2>1. n \in 1 .. Len(idx.chunks) + 1
    BY IndexFacts
  <2> QED BY <2>1, IndexFacts
<1> QED BY <1>1, WordAssumption DEF ChunkOffset, Uint64

(* As long as the lengths add up to an int64, no offset wraps.              *)
LEMMA OffsetFits ==
  ASSUME NEW idx, ProperIndex(idx), Fits(CompLengths(idx)), NEW n \in DOMAIN idx.chunks
  PROVE  Int64(ChunkOffset(idx, n)) = Offsets(CompLengths(idx))[n]
<1> DEFINE off == Offsets(CompLengths(idx))
           o == off[n]
           t == off[Len(idx.chunks) + 1]
<1>1. o \in Nat /\ t \in Nat /\ o <= t /\ 2 * t < Word
  <2>1. /\ n \in 1 .. Len(idx.chunks) + 1 /\ Len(idx.chunks) + 1 \in n .. Len(idx.chunks) + 1
        /\ Len(idx.chunks) + 1 \in 1 .. Len(idx.chunks) + 1
    BY IndexFacts
  <2>2. off \in [1 .. Len(idx.chunks) + 1 -> Nat] /\ off[n] <= t
        /\ Total(CompLengths(idx)) = t
    BY <2>1, IndexFacts
  <2> QED BY <2>1, <2>2 DEF Fits
<1> HIDE DEF o, t
<1>2. 2 * o < Word /\ o \in 0 .. Word - 1
  BY <1>1, WordAssumption
<1>3. o % Word = o
  BY <1>2, WordAssumption
<1>4. Int64(o) = o
  BY <1>1, <1>2, Int64OfFitting
<1> QED BY <1>3, <1>4 DEF ChunkOffset, Uint64, o

(* Nor does a length.                                                       *)
LEMMA LengthFits ==
  ASSUME NEW idx, ProperIndex(idx), Fits(CompLengths(idx)), NEW n \in DOMAIN idx.chunks
  PROVE  2 * idx.chunks[n].compLength < Word
<1> DEFINE off == Offsets(CompLengths(idx))
           t == off[Len(idx.chunks) + 1]
           l == idx.chunks[n].compLength
<1>1. /\ n \in 1 .. Len(idx.chunks) + 1 /\ n + 1 \in 1 .. Len(idx.chunks) + 1
      /\ Len(idx.chunks) + 1 \in n + 1 .. Len(idx.chunks) + 1
      /\ Len(idx.chunks) + 1 \in 1 .. Len(idx.chunks) + 1
  BY IndexFacts
<1>2. /\ off[n] \in Nat /\ t \in Nat /\ l \in Nat
      /\ off[n + 1] = off[n] + l /\ off[n + 1] <= t /\ 2 * t < Word
  BY <1>1, IndexFacts DEF Fits
<1> HIDE DEF off, t, l
<1>3. 2 * l < Word
  BY <1>2, WordAssumption
<1> QED BY <1>3 DEF l

(* A plan has one well-typed source for every chunk of the target.          *)
LEMMA PlanTypes ==
  ASSUME NEW local, NEW target, ProperIndex(local), ProperIndex(target)
  PROVE  /\ DOMAIN PlanDelta(local, target) = 1 .. Len(target.chunks)
         /\ Len(PlanDelta(local, target)) = Len(target.chunks)
         /\ \A n \in DOMAIN target.chunks :
              /\ PlanDelta(local, target)[n] = Source(local, target, n)
              /\ PlanDelta(local, target)[n].local \in BOOLEAN
              /\ PlanDelta(local, target)[n].offset \in Nat
              /\ PlanDelta(local, target)[n].length = target.chunks[n].compLength
         /\ Lengths(PlanDelta(local, target)) = CompLengths(target)
<1> DEFINE plan == PlanDelta(local, target)
<1>1. /\ DOMAIN plan = 1 .. Len(target.chunks) /\ DOMAIN target.chunks = 1 .. Len(target.chunks)
      /\ Len(plan) = Len(target.chunks)
      /\ \A n \in DOMAIN target.chunks : plan[n] = Source(local, target, n)
  BY IndexFacts DEF PlanDelta
<1> HIDE DEF plan
<1>2. ASSUME NEW n \in DOMAIN target.chunks
      PROVE  /\ Source(local, target, n).local \in BOOLEAN
             /\ Source(local, target, n).offset \in Nat
             /\ Source(local, target, n).length = target.chunks[n].compLength
  <2> DEFINE e == target.chunks[n]
             offsets == LocalOffsets(local)
  <2>1. ASSUME e.digest \in DOMAIN offsets PROVE offsets[e.digest] \in Nat
    <3>1. PICK j \in NonEmpty(local) : offsets[e.digest] = ChunkOffset(local, j)
      BY <2>1, LocalOffsetsFacts
    <3> QED BY <3>1, ChunkOffsetType DEF NonEmpty
  <2>2. ChunkOffset(target, n) \in Nat
    BY ChunkOffsetType
  <2> HIDE DEF offsets
  <2> QED BY <2>1, <2>2 DEF Source, offsets
<1>3. Lengths(plan) = CompLengths(target)
  BY <1>1, <1>2 DEF Lengths, CompLengths
<1> QED BY <1>1, <1>2, <1>3 DEF plan

----------------------------------------------------------------------------
(* Sums over a plan *)

(* A conversion to int64 changes a number by multiples of the word only.    *)
LEMMA Int64Modulo ==
  ASSUME NEW n \in Int
  PROVE  Int64(n) % Word = n % Word
<1> DEFINE r == n % Word
<1>1. Word \in Int /\ Word > 0 /\ r \in 0 .. Word - 1
  BY WordAssumption, ModIs
<1>2. \A q \in Int : (Word * q + r) % Word = r
  BY <1>1, ModUnique
<1>3. Word * 0 + r = r /\ Word * (-1) + r = r - Word
  <2> HIDE DEF r
  <2> QED BY <1>1
<1> HIDE DEF r
<1>4. r % Word = r /\ (r - Word) % Word = r
  BY <1>2, <1>3
<1>5. Int64(n) = r \/ Int64(n) = r - Word
  BY DEF Int64, Uint64, r
<1> QED BY <1>4, <1>5 DEF r

(* All the lengths together.                                                *)
LEMMA TotalIsSum ==
  ASSUME NEW lens, Len(lens) \in Nat, \A i \in 1 .. Len(lens) : lens[i] \in Nat
  PROVE  /\ Summable(lens, 1 .. Len(lens))
         /\ Total(lens) = SumFunctionOnSet(lens, 1 .. Len(lens))
<1> DEFINE e == Len(lens) + 1
<1>1. 1 \in 1 .. e /\ e \in 1 .. e /\ e - 1 = Len(lens)
  OBVIOUS
<1> HIDE DEF e
<1>2. e = Len(lens) + 1
  BY DEF e
<1>3. /\ Summable(lens, 1 .. Len(lens))
      /\ SumFunctionOnSet(lens, 1 .. e - 1) = Offsets(lens)[e] - Offsets(lens)[1]
  BY <1>1, <1>2, SumOfInterval
<1>4. Offsets(lens)[e] \in Nat /\ Offsets(lens)[1] = 0
  BY <1>1, <1>2, OffsetsUnfold
<1> QED BY <1>1, <1>2, <1>3, <1>4 DEF Total

(* A plan as PlanDelta makes it: an empty chunk is never fetched.           *)
ProperPlan(plan) ==
  /\ Len(plan) \in Nat /\ DOMAIN plan = 1 .. Len(plan)
  /\ \A i \in DOMAIN plan :
       /\ plan[i].length \in Nat /\ plan[i].local \in BOOLEAN
       /\ plan[i].length = 0 => plan[i].local

Fetches(plan) == {i \in DOMAIN plan : ~plan[i].local}

(* What is fetched and what is reused, as sums over the chunks.             *)
LEMMA SumOverFacts ==
  ASSUME NEW plan, ProperPlan(plan)
  PROVE  /\ Summable(Lengths(plan), 1 .. Len(plan))
         /\ FetchBytes(plan) = Uint64(SumFunctionOnSet(Lengths(plan), Fetches(plan)))
         /\ Uint64(ReuseBytes(plan) + FetchBytes(plan)) = Uint64(Total(Lengths(plan)))
<1> DEFINE lens    == Lengths(plan)
           D       == 1 .. Len(plan)
           fetched == [i \in DOMAIN plan |-> IF plan[i].local = FALSE THEN plan[i].length ELSE 0]
           reused  == [i \in DOMAIN plan |-> IF plan[i].local = TRUE THEN plan[i].length ELSE 0]
<1>1. /\ Len(plan) \in Nat /\ DOMAIN plan = D
      /\ \A i \in D : plan[i].length \in Nat /\ plan[i].local \in BOOLEAN
  BY DEF ProperPlan
<1>2. /\ Len(lens) = Len(plan) /\ Len(fetched) = Len(plan) /\ Len(reused) = Len(plan)
      /\ \A i \in D : lens[i] = plan[i].length
  BY <1>1 DEF Lengths
<1>3. \A i \in D : /\ fetched[i] = IF i \in Fetches(plan) THEN lens[i] ELSE 0
                   /\ lens[i] \in Nat /\ fetched[i] \in Nat /\ reused[i] \in Nat
                   /\ lens[i] = fetched[i] + reused[i]
  BY <1>1, <1>2 DEF Fetches
<1>4. Fetches(plan) \in SUBSET D
  BY <1>1 DEF Fetches
<1>5. FetchBytes(plan) = Uint64(Total(fetched)) /\ ReuseBytes(plan) = Uint64(Total(reused))
  BY DEF FetchBytes, ReuseBytes, SumOver
<1> HIDE DEF lens, fetched, reused
<1>6. /\ Summable(lens, D) /\ Total(lens) = SumFunctionOnSet(lens, D)
      /\ Summable(fetched, D) /\ Total(fetched) = SumFunctionOnSet(fetched, D)
      /\ Summable(reused, D) /\ Total(reused) = SumFunctionOnSet(reused, D)
  BY <1>1, <1>2, <1>3, TotalIsSum
<1> HIDE DEF D
<1>7. Total(fetched) = SumFunctionOnSet(lens, Fetches(plan))
  BY <1>3, <1>4, <1>6, SumSelected
<1>8. Total(lens) = Total(fetched) + Total(reused)
  BY <1>3, <1>6, SumAdds
<1>9. Total(fetched) \in Int /\ Total(reused) \in Int
  BY <1>6, SumFacts
<1>10. ((Total(reused) % Word) + (Total(fetched) % Word)) % Word = Total(lens) % Word
  <2> DEFINE a == Total(fetched)
             b == Total(reused)
  <2>1. Word \in Int /\ Word > 0
    BY WordAssumption
  <2> HIDE DEF a, b
  <2>2. a \in Int /\ b \in Int
    BY <1>9 DEF a, b
  <2>3. \A W, x, y \in Int : W > 0 => ((x % W) + y) % W = (x + y) % W
    BY ModAdd
  <2> DEFINE ra == a % Word
             rb == b % Word
  <2>4. ra \in Int /\ rb \in Int
    BY <2>1, <2>2, ModIs
  <2>5. (ra + b) % Word = (a + b) % Word
    BY <2>1, <2>2, <2>3
  <2>6. (rb + ra) % Word = (b + ra) % Word
    <3> HIDE DEF ra
    <3> QED BY <2>1, <2>2, <2>3, <2>4
  <2>7. (rb + ra) % Word = (a + b) % Word
    <3> HIDE DEF ra, rb
    <3>1. b + ra = ra + b
      BY <2>2, <2>4
    <3> QED BY <2>5, <2>6, <3>1
  <2> QED BY <1>8, <2>2, <2>7 DEF a, b
<1> QED BY <1>5, <1>6, <1>7, <1>10 DEF Uint64, D, lens

(* What the requests ask for is what is to be fetched.                      *)
LEMMA RequestedIsFetched ==
  ASSUME NEW plan, ProperPlan(plan)
  PROVE  Uint64(Requested(plan)) = FetchBytes(plan)
<1> DEFINE lens == Lengths(plan)
           off  == Offsets(lens)
           S    == RunStarts(plan)
           D    == 1 .. Len(plan)
           runs == [s \in S |-> s .. RunEnd(plan, s) - 1]
           whole == [s \in S |-> off[RunEnd(plan, s)] - off[s]]
           asked == [s \in S |-> RemoteRun(plan, s).length]
<1>1. /\ Len(plan) \in Nat /\ DOMAIN plan = D
      /\ \A i \in D : plan[i].length \in Nat /\ plan[i].local \in BOOLEAN
      /\ \A i \in D : plan[i].length = 0 => plan[i].local
  BY DEF ProperPlan
<1>2. /\ Len(lens) = Len(plan) /\ \A i \in D : lens[i] \in Nat
  BY <1>1 DEF Lengths
<1>3. Summable(lens, D)
  BY SumOverFacts
<1> HIDE DEF lens
<1>4. IsFiniteSet(S)
  <2>1. IsFiniteSet(D) /\ S \subseteq D
    BY <1>1, FS_Interval DEF RunStarts
  <2> HIDE DEF D, S
  <2> QED BY <2>1, FS_Subset
<1>5. ASSUME NEW s \in S
      PROVE  /\ s \in 1 .. Len(plan) + 1 /\ RunEnd(plan, s) \in s .. Len(plan) + 1
             /\ s .. RunEnd(plan, s) - 1 \in SUBSET D
             /\ s .. RunEnd(plan, s) - 1 = RunChunks(plan, s)
  <2>1. /\ s \in 1 .. Len(plan) /\ RunEnd(plan, s) \in s + 1 .. Len(plan) + 1
        /\ \A n \in DOMAIN plan : n \in s .. RunEnd(plan, s) - 1 <=> n \in RunChunks(plan, s)
    BY <1>1, RunEndProperties, RunChunksUpToEnd
  <2>2. s .. RunEnd(plan, s) - 1 \subseteq D
    BY <1>1, <2>1
  <2>3. RunChunks(plan, s) \subseteq DOMAIN plan
    BY DEF RunChunks
  <2>4. s .. RunEnd(plan, s) - 1 = RunChunks(plan, s)
    <3> DEFINE run == s .. RunEnd(plan, s) - 1
    <3>1. run \subseteq DOMAIN plan /\ \A n \in DOMAIN plan : n \in run <=> n \in RunChunks(plan, s)
      BY <1>1, <2>1, <2>2
    <3> HIDE DEF run
    <3>2. run = RunChunks(plan, s)
      BY <2>3, <3>1
    <3> QED BY <3>2 DEF run
  <2>5. s \in 1 .. Len(plan) + 1
    BY <1>1, <2>1
  <2>6. RunEnd(plan, s) \in s .. Len(plan) + 1
    BY <1>1, <2>1
  <2> QED BY <2>2, <2>4, <2>5, <2>6
<1>6. \A s \in S : whole[s] = SumFunctionOnSet(lens, runs[s]) /\ runs[s] \in SUBSET D
  <2> SUFFICES ASSUME NEW s \in S
               PROVE  off[RunEnd(plan, s)] - off[s] = SumFunctionOnSet(lens, s .. RunEnd(plan, s) - 1)
    BY <1>5
  <2> QED BY <1>1, <1>2, <1>5, SumOfInterval
<1>7. \A s, t \in S : s # t => runs[s] \cap runs[t] = {}
  <2> SUFFICES ASSUME NEW s \in S, NEW t \in S, s # t, NEW n \in runs[s] \cap runs[t] PROVE FALSE
    OBVIOUS
  <2>1. n \in RunChunks(plan, s) /\ n \in RunChunks(plan, t)
    BY <1>5
  <2> QED BY <1>1, <2>1, RunsAreDisjoint
<1>8. UNION {runs[s] : s \in S} = Fetches(plan)
  <2>1. UNION {runs[s] : s \in S} = UNION {RunChunks(plan, s) : s \in S}
    BY <1>5
  <2>2. ASSUME NEW n \in Fetches(plan) PROVE \E s \in S : n \in RunChunks(plan, s)
    <3>1. n \in DOMAIN plan /\ Remote(plan, n)
      BY <1>1 DEF Fetches, Remote
    <3> QED BY <1>1, <3>1, RunOfChunk
  <2>3. ASSUME NEW s \in S, NEW n \in RunChunks(plan, s) PROVE n \in Fetches(plan)
    <3>1. n \in DOMAIN plan /\ s \in DOMAIN plan /\ s <= n /\ \A j \in s .. n : Remote(plan, j)
      BY DEF RunChunks, RunStarts
    <3>2. n \in s .. n
      BY <1>1, <3>1
    <3> QED BY <3>1, <3>2 DEF Remote, Fetches
  <2> HIDE DEF runs, S
  <2> QED BY <2>1, <2>2, <2>3
<1> HIDE DEF S, D, runs
<1>9. Summable(whole, S) /\ SumFunctionOnSet(whole, S) = SumFunctionOnSet(lens, Fetches(plan))
  <2> HIDE DEF whole, off
  <2>1. \A s \in S : whole[s] = SumFunctionOnSet(lens, runs[s])
    BY <1>6
  <2>2. \A s \in S : runs[s] \in SUBSET D
    BY <1>6
  <2>3. /\ Summable(whole, S)
        /\ SumFunctionOnSet(whole, S) = SumFunctionOnSet(lens, UNION {runs[s] : s \in S})
    BY <1>3, <1>4, <1>7, <2>1, <2>2, SumOfParts
  <2> QED BY <1>8, <2>3
<1>10. \A s \in S : whole[s] \in Int
  BY <1>9, SummableFacts
<1>11. \A s \in S : asked[s] = Int64(whole[s])
  BY DEF RemoteRun, RunLength, lens
<1> HIDE DEF whole, asked
<1>12. Summable(asked, S) /\ \A s \in S : asked[s] % Word = whole[s] % Word
  BY <1>4, <1>10, <1>11, Int64Type, Int64Modulo DEF Summable
<1>13. SumFunctionOnSet(asked, S) % Word = SumFunctionOnSet(whole, S) % Word
  <2>1. Word \in Int /\ Word > 0
    BY WordAssumption
  <2> QED BY <1>9, <1>12, <2>1, SumModulo
<1>14. Requested(plan) = SumFunctionOnSet(asked, S)
  BY DEF Requested, SumFunction, asked, S
<1>15. FetchBytes(plan) = Uint64(SumFunctionOnSet(lens, Fetches(plan)))
  BY SumOverFacts DEF lens
<1> QED BY <1>9, <1>13, <1>14, <1>15 DEF Uint64

(* Planning makes proper plans.                                             *)
LEMMA PlanIsProper ==
  ASSUME NEW local, NEW target, ProperIndex(local), ProperIndex(target)
  PROVE  ProperPlan(PlanDelta(local, target))
<1> DEFINE plan == PlanDelta(local, target)
<1>1. /\ Len(plan) \in Nat /\ DOMAIN plan = 1 .. Len(plan) /\ DOMAIN plan = DOMAIN target.chunks
      /\ \A n \in DOMAIN plan : /\ plan[n] = Source(local, target, n)
                                /\ plan[n].local \in BOOLEAN
                                /\ plan[n].length = target.chunks[n].compLength
                                /\ plan[n].length \in Nat
  BY PlanTypes, IndexFacts
<1> HIDE DEF plan
<1>2. ASSUME NEW n \in DOMAIN plan, plan[n].length = 0 PROVE plan[n].local
  <2> DEFINE known == target.chunks[n].digest \in DOMAIN LocalOffsets(local)
             empty == target.chunks[n].compLength = 0
  <2>1. Source(local, target, n).local = (empty \/ known)
    BY DEF Source
  <2>2. empty
    BY <1>1, <1>2
  <2> HIDE DEF empty, known
  <2> QED BY <1>1, <2>1, <2>2
<1>3. ProperPlan(plan)
  BY <1>1, <1>2 DEF ProperPlan
<1> QED BY <1>3 DEF plan

(* The chunks that are counted.                                             *)
LEMMA CountsOfPlan ==
  ASSUME NEW plan, ProperPlan(plan)
  PROVE  /\ DeltaSize(plan).fetchChunks = Cardinality(Fetches(plan))
         /\ DeltaSize(plan).fetchChunks + DeltaSize(plan).reuseChunks = Len(plan)
<1> DEFINE D       == 1 .. Len(plan)
           fetched == [i \in DOMAIN plan |-> IF plan[i].local = FALSE THEN 1 ELSE 0]
           reused  == [i \in DOMAIN plan |-> IF plan[i].local = TRUE THEN 1 ELSE 0]
           each    == [i \in D |-> 1]
<1>1. /\ Len(plan) \in Nat /\ DOMAIN plan = D
      /\ \A i \in D : plan[i].local \in BOOLEAN
  BY DEF ProperPlan
<1>2. /\ Len(fetched) = Len(plan) /\ Len(reused) = Len(plan)
      /\ \A i \in D : /\ fetched[i] = IF i \in Fetches(plan) THEN each[i] ELSE 0
                      /\ fetched[i] \in Nat /\ reused[i] \in Nat /\ each[i] = 1
                      /\ each[i] = fetched[i] + reused[i]
  BY <1>1 DEF Fetches
<1>3. Fetches(plan) \in SUBSET D
  BY <1>1 DEF Fetches
<1>4. IsFiniteSet(D) /\ Cardinality(D) = Len(plan)
  BY <1>1, FS_Interval
<1>5. DeltaSize(plan).fetchChunks = Total(fetched) /\ DeltaSize(plan).reuseChunks = Total(reused)
  BY DEF DeltaSize
<1> HIDE DEF fetched, reused, each
<1>6. /\ Summable(fetched, D) /\ Total(fetched) = SumFunctionOnSet(fetched, D)
      /\ Summable(reused, D) /\ Total(reused) = SumFunctionOnSet(reused, D)
  BY <1>1, <1>2, TotalIsSum
<1> HIDE DEF D
<1>7. Summable(each, D) /\ SumFunctionOnSet(each, D) = Len(plan)
  BY <1>2, <1>4, SumIsCount
<1>8. SumFunctionOnSet(fetched, D) = SumFunctionOnSet(each, Fetches(plan))
  BY <1>2, <1>3, <1>7, SumSelected
<1>9. SumFunctionOnSet(each, Fetches(plan)) = Cardinality(Fetches(plan))
  <2>1. IsFiniteSet(Fetches(plan)) /\ \A i \in Fetches(plan) : each[i] = 1
    BY <1>2, <1>3, <1>4, FS_Subset
  <2> QED BY <2>1, SumIsCount
<1>10. SumFunctionOnSet(each, D) = SumFunctionOnSet(fetched, D) + SumFunctionOnSet(reused, D)
  BY <1>2, <1>6, <1>7, SumAdds
<1> QED BY <1>5, <1>6, <1>7, <1>8, <1>9, <1>10

(* A chunk is copied from where a chunk with its digest lies in the local   *)
(* body, or fetched from where it lies itself.                              *)
LEMMA SourceOffsets ==
  ASSUME NEW local, NEW target, ProperIndex(local), ProperIndex(target),
         NEW n \in DOMAIN target.chunks, target.chunks[n].compLength # 0
  PROVE  /\ PlanDelta(local, target)[n].local =>
              \E j \in NonEmpty(local) :
                /\ local.chunks[j].digest = target.chunks[n].digest
                /\ PlanDelta(local, target)[n].offset = ChunkOffset(local, j)
         /\ ~PlanDelta(local, target)[n].local =>
              PlanDelta(local, target)[n].offset = ChunkOffset(target, n)
<1> DEFINE plan    == PlanDelta(local, target)
           e       == target.chunks[n]
           offsets == LocalOffsets(local)
           known   == e.digest \in DOMAIN offsets
           late    == ChunkOffset(target, n)
           length  == e.compLength
<1>1. plan[n] = Source(local, target, n)
  BY PlanTypes
<1>2. Source(local, target, n) =
        [local  |-> length = 0 \/ known,
         offset |-> IF length = 0 THEN 0 ELSE IF known THEN offsets[e.digest] ELSE late,
         length |-> length]
  BY Zenon DEF Source
<1>3. known => \E j \in NonEmpty(local) : /\ local.chunks[j].digest = e.digest
                                          /\ offsets[e.digest] = ChunkOffset(local, j)
  BY LocalOffsetsFacts
<1>4. length # 0
  OBVIOUS
<1> HIDE DEF plan, offsets, known, late, length
<1>5. plan[n].offset = IF known THEN offsets[e.digest] ELSE late
  BY <1>1, <1>2, <1>4
<1>6. plan[n].local = (length = 0 \/ known)
  BY <1>1, <1>2
<1>7. CASE known
  BY <1>3, <1>5, <1>6, <1>7 DEF plan
<1>8. CASE ~known
  <2>1. ~(length = 0 \/ known)
    BY <1>4, <1>8
  <2> QED BY <1>5, <1>6, <1>8, <2>1 DEF plan, late
<1> QED BY <1>7, <1>8

(* A slice of a slice is a slice.                                           *)
LEMMA SliceOfSlice ==
  ASSUME NEW S, NEW body \in Seq(S), NEW o \in Nat, NEW l \in Nat, o + l <= Len(body),
         NEW a \in Nat, NEW b \in Nat, a + b <= l
  PROVE  Slice(Slice(body, o, l), a, b) = Slice(body, o + a, b)
<1> DEFINE mid   == Slice(body, o, l)
           left  == Slice(mid, a, b)
           right == Slice(body, o + a, b)
<1>1. mid \in Seq(S) /\ Len(mid) = l /\ \A k \in 1 .. l : mid[k] = body[o + k]
  BY SliceInside
<1> HIDE DEF mid
<1>2. left \in Seq(S) /\ Len(left) = b /\ \A k \in 1 .. b : left[k] = mid[a + k]
  <2>1. a + b <= Len(mid)
    BY <1>1
  <2> QED BY <1>1, <2>1, SliceInside
<1>3. right \in Seq(S) /\ Len(right) = b /\ \A k \in 1 .. b : right[k] = body[(o + a) + k]
  <2>1. o + a \in Nat /\ (o + a) + b <= Len(body)
    BY LenProperties
  <2> QED BY <2>1, SliceInside
<1> HIDE DEF left, right
<1>4. ASSUME NEW k \in 1 .. b PROVE left[k] = right[k]
  <2>1. a + k \in 1 .. l /\ o + (a + k) = (o + a) + k
    OBVIOUS
  <2> QED BY <1>1, <1>2, <1>3, <2>1
<1> QED BY <1>2, <1>3, <1>4, SeqEqual DEF mid, left, right
=============================================================================

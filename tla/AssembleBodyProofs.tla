------------------------- MODULE AssembleBodyProofs -------------------------
(***************************************************************************)
(* Theorems about AssembleBody for every job, every plan and every fetch   *)
(* concurrency: its type and safety invariants, by the inductive invariant *)
(* CallInv; what has been written at every point, by ChunksWritten on top  *)
(* of it; and that it implements VerifiedStream.                           *)
(***************************************************************************)
EXTENDS DeltaProofs, AssembleBody, FiniteSetTheorems

----------------------------------------------------------------------------
(* Facts about the call *)

(* What JobsAssumption says of every call, said of the one at hand.         *)
LEMMA JobFacts ==
  ASSUME ProperJob(job)
  PROVE  /\ plan \in Seq([local : BOOLEAN, offset : Nat, length : Nat])
         /\ Len(plan) \in Nat
         /\ DOMAIN plan = 1 .. Len(plan)
         /\ \A n \in DOMAIN plan :
              /\ plan[n].local \in BOOLEAN
              /\ plan[n].offset \in Nat
              /\ plan[n].length \in Nat /\ plan[n].length < Word
              /\ plan[n].length = target.chunks[n].compLength
         /\ DOMAIN target.chunks = DOMAIN plan
         /\ Len(target.chunks) = Len(plan)
         /\ \A b \in job.localBodies \cup job.contents : b \in Seq(Byte)
         /\ job.base \in Nat
<1>1. plan \in Seq([local : BOOLEAN, offset : Nat, length : Nat])
  BY DEF ProperJob, plan, Plans
<1>2. Len(plan) \in Nat /\ DOMAIN plan = 1 .. Len(plan)
  BY <1>1
<1>3. \A n \in DOMAIN plan : plan[n] \in [local : BOOLEAN, offset : Nat, length : Nat]
  BY <1>1, <1>2, ElementOfSeq
<1>4. \A n \in DOMAIN plan :
        plan[n].length = target.chunks[n].compLength /\ plan[n].length < Word
  BY DEF ProperJob, plan, target
<1>5. DOMAIN target.chunks = DOMAIN plan /\ Len(target.chunks) = Len(plan)
  BY DEF ProperJob, plan, target
<1>6. \A b \in job.localBodies \cup job.contents : b \in Seq(Byte)
  BY DEF ProperJob
<1>7. job.base \in Nat
  BY DEF ProperJob
<1> QED BY <1>1, <1>2, <1>3, <1>4, <1>5, <1>6, <1>7

(* The runs are the fetched chunks that begin one: finitely many.           *)
LEMMA RunsFacts ==
  ASSUME ProperJob(job)
  PROVE  /\ IsFiniteSet(Runs)
         /\ \A k \in Runs : k \in 1 .. Len(plan) /\ Remote(plan, k)
<1>1. \A k \in Runs : k \in 1 .. Len(plan) /\ Remote(plan, k)
  BY JobFacts DEF Runs, RunStarts
<1>2. Runs \in SUBSET (1 .. Len(plan))
  BY <1>1
<1>3. IsFiniteSet(1 .. Len(plan))
  BY JobFacts, FS_Interval
<1> QED BY <1>1, <1>2, <1>3, FS_Subset

(* Offsets into the remote body are natural numbers that never decrease.    *)
LEMMA OffsFacts ==
  ASSUME ProperJob(job)
  PROVE  /\ Offs \in [1 .. Len(plan) + 1 -> Nat]
         /\ \A n \in DOMAIN plan : Offs[n + 1] = Offs[n] + plan[n].length
         /\ \A m \in 1 .. Len(plan) + 1 : \A n \in m .. Len(plan) + 1 : Offs[m] <= Offs[n]
<1> DEFINE lens == [n \in DOMAIN plan |-> plan[n].length]
<1>1. /\ Len(plan) \in Nat /\ DOMAIN plan = 1 .. Len(plan)
      /\ \A n \in DOMAIN plan : plan[n].length \in Nat
  BY JobFacts
<1>2. Len(lens) = Len(plan) /\ \A n \in 1 .. Len(lens) : lens[n] = plan[n].length /\ lens[n] \in Nat
  BY <1>1
<1>3. Offs = Offsets(lens)
  BY DEF Offs, Lengths
<1> HIDE DEF lens
<1>4. /\ Offs \in [1 .. Len(plan) + 1 -> Nat]
      /\ \A n \in 1 .. Len(plan) + 1 :
           Offs[n] = IF n = 1 THEN 0 ELSE Offs[n - 1] + lens[n - 1]
  BY <1>1, <1>2, <1>3, OffsetsUnfold
<1>5. \A n \in DOMAIN plan : Offs[n + 1] = Offs[n] + plan[n].length
  <2> SUFFICES ASSUME NEW n \in DOMAIN plan PROVE Offs[n + 1] = Offs[n] + plan[n].length
    OBVIOUS
  <2>1. n + 1 \in 1 .. Len(plan) + 1 /\ n + 1 # 1 /\ (n + 1) - 1 = n
    BY <1>1
  <2>2. Offs[n + 1] = Offs[(n + 1) - 1] + lens[(n + 1) - 1]
    BY <1>4, <2>1
  <2> QED BY <1>1, <1>2, <2>1, <2>2
<1>6. \A m \in 1 .. Len(plan) + 1 : \A n \in m .. Len(plan) + 1 : Offs[m] <= Offs[n]
  BY <1>1, <1>2, <1>3, OffsetsMonotonic
<1> QED BY <1>4, <1>5, <1>6

(* Where run k ends, and what RemoteRun says of it.                         *)
LEMMA RunFacts ==
  ASSUME ProperJob(job), NEW k \in Runs
  PROVE  /\ k \in 1 .. Len(plan)
         /\ RunEnd(plan, k) \in k + 1 .. Len(plan) + 1
         /\ \A j \in k .. RunEnd(plan, k) - 1 : j \in DOMAIN plan /\ Remote(plan, j)
         /\ RunEnd(plan, k) \in DOMAIN plan => ~Remote(plan, RunEnd(plan, k))
         /\ RemoteRun(plan, k).count = RunEnd(plan, k) - k
         /\ RunLength(plan, k) = Offs[RunEnd(plan, k)] - Offs[k]
         /\ RunLength(plan, k) \in Nat
         /\ RemoteRun(plan, k).length = Int64(RunLength(plan, k))
         /\ RemoteRun(plan, k).offset \in Int
         /\ RemoteRun(plan, k).length \in Int
<1>1. /\ k \in RunStarts(plan) /\ Len(plan) \in Nat /\ DOMAIN plan = 1 .. Len(plan)
      /\ \A n \in DOMAIN plan : plan[n].length \in Nat /\ plan[n].offset \in Nat
  BY JobFacts DEF Runs
<1>2. /\ k \in 1 .. Len(plan)
      /\ RunEnd(plan, k) \in k + 1 .. Len(plan) + 1
      /\ \A j \in k .. RunEnd(plan, k) - 1 : j \in DOMAIN plan /\ Remote(plan, j)
      /\ RunEnd(plan, k) \in DOMAIN plan => ~Remote(plan, RunEnd(plan, k))
  BY <1>1, RunEndProperties
<1>3. /\ RemoteRun(plan, k).count = RunEnd(plan, k) - k
      /\ RemoteRun(plan, k).offset = Int64(plan[k].offset)
  BY DEF RemoteRun
<1>4. /\ RunLength(plan, k) = Offs[RunEnd(plan, k)] - Offs[k]
      /\ RunLength(plan, k) \in Nat
  <2>1. /\ k \in 1 .. Len(plan) + 1 /\ RunEnd(plan, k) \in 1 .. Len(plan) + 1
        /\ RunEnd(plan, k) \in k .. Len(plan) + 1
    BY <1>1, <1>2
  <2>2. Offs[k] \in Nat /\ Offs[RunEnd(plan, k)] \in Nat /\ Offs[k] <= Offs[RunEnd(plan, k)]
    BY <2>1, OffsFacts
  <2> QED BY <2>2 DEF RunLength, Offs
<1>6. RemoteRun(plan, k).length = Int64(RunLength(plan, k)) /\ RemoteRun(plan, k).length \in Int
  <2>1. RemoteRun(plan, k).length = Int64(RunLength(plan, k))
    BY DEF RemoteRun
  <2>2. RunLength(plan, k) \in Int
    BY <1>4
  <2> QED BY <2>1, <2>2, Int64Type
<1>5. RemoteRun(plan, k).offset \in Int
  <2>1. plan[k].offset \in Int
    BY <1>1, <1>2
  <2> QED BY <1>3, <2>1, Int64Type
<1> QED BY <1>2, <1>3, <1>4, <1>5, <1>6

(* The end of a slice that starts at an int64 either has wrapped, and then  *)
(* lies before the start, or is the sum and an int64 again.                 *)
LEMMA SliceEnd ==
  ASSUME NEW p \in Nat, ~Overflows(p), NEW l \in Nat, l < Word, Int64(p + l) >= p
  PROVE  Int64(p + l) = p + l /\ ~Overflows(p + l)
<1>1. Word \in Nat \ {0} /\ 2 * p < Word
  BY WordAssumption DEF Overflows
<1>2. CASE 2 * (p + l) < Word
  BY <1>1, <1>2, Int64OfFitting DEF Overflows
<1>3. CASE 2 * (p + l) >= Word
  <2>1. (p + l) % Word = p + l \/ (p + l) % Word = p + l - Word
    <3>1. CASE p + l < Word
      BY <1>1, <3>1
    <3>2. CASE p + l >= Word
      <4>1. p + l = Word * 1 + (p + l - Word) /\ p + l - Word \in 0 .. Word - 1
        BY <1>1, <3>2
      <4> QED BY <1>1, <4>1, ModUnique
    <3> QED BY <1>1, <3>1, <3>2
  <2> DEFINE m == (p + l) % Word
  <2>2. Int64(p + l) = IF 2 * m < Word THEN m ELSE m - Word
    BY DEF Int64, Uint64
  <2>3. m = p + l \/ m = p + l - Word
    BY <2>1
  <2> HIDE DEF m
  <2>4. Int64(p + l) < p
    BY <1>1, <1>3, <2>2, <2>3
  <2> QED BY <1>1, <2>4, Int64Type
<1> QED BY <1>1, <1>2, <1>3

(* A slice is as long as its bounds say, and within the bytes it is theirs. *)
LEMMA SlicedFacts ==
  ASSUME NEW bytes \in Seq(Byte), NEW low \in Nat, NEW high \in Nat, low <= high,
         NEW data \in Sliced(bytes, low, high)
  PROVE  data \in Seq(Byte) /\ Len(data) = high - low
<1>1. PICK spare \in [1 .. high - Len(bytes) -> Byte] :
        data = SubSeq(bytes \o spare, low + 1, high)
  BY DEF Sliced
<1>2. Len(bytes) \in Nat
  BY LenProperties
<1> DEFINE more == IF high > Len(bytes) THEN high - Len(bytes) ELSE 0
<1>3. more \in Nat /\ 1 .. high - Len(bytes) = 1 .. more /\ high <= Len(bytes) + more
  BY <1>2
<1>4. spare \in [1 .. more -> Byte]
  BY <1>3
<1> HIDE DEF more
<1>5. spare \in Seq(Byte) /\ Len(spare) = more
  BY <1>3, <1>4, LenProperties
<1>6. bytes \o spare \in Seq(Byte) /\ Len(bytes \o spare) = Len(bytes) + more
  BY <1>5, ConcatProperties
<1>7. low \in 0 .. Len(bytes \o spare) /\ high \in low .. Len(bytes \o spare)
  BY <1>2, <1>3, <1>6
<1> QED BY <1>1, <1>6, <1>7, SubSeqFacts

(* Within the bytes a slice is a part of them.                              *)
LEMMA SlicedInside ==
  ASSUME NEW bytes \in Seq(Byte), NEW low \in Nat, NEW high \in Nat, high <= Len(bytes),
         NEW data \in Sliced(bytes, low, high)
  PROVE  data = SubSeq(bytes, low + 1, high)
<1>1. PICK spare \in [1 .. high - Len(bytes) -> Byte] :
        data = SubSeq(bytes \o spare, low + 1, high)
  BY DEF Sliced
<1>2. 1 .. high - Len(bytes) = 1 .. 0
  BY LenProperties
<1>3. spare \in [1 .. 0 -> Byte]
  BY <1>2
<1>4. spare \in Seq(Byte) /\ Len(spare) = 0
  BY <1>3, LenProperties
<1>5. spare = <<>>
  BY <1>4, EmptySeq
<1>6. bytes \o spare = bytes
  BY <1>5, ConcatEmptySeq
<1> QED BY <1>1, <1>6

(* How many goroutines are in a set of places, before and after one moves.  *)
LEMMA CountStep ==
  ASSUME NEW S, IsFiniteSet(S), NEW P, NEW f, DOMAIN f = S, NEW k \in S, NEW to
  PROVE  LET n == Cardinality({l \in S : f[l] \in P})
             m == Cardinality({l \in S : [f EXCEPT ![k] = to][l] \in P})
         IN  /\ n \in Nat /\ m \in Nat
             /\ f[k] \in P /\ to \in P => m = n
             /\ f[k] \notin P /\ to \notin P => m = n
             /\ f[k] \notin P /\ to \in P => m = n + 1
             /\ f[k] \in P /\ to \notin P => m = n - 1
<1> DEFINE A == {l \in S : f[l] \in P}
           B == {l \in S : [f EXCEPT ![k] = to][l] \in P}
<1>1. IsFiniteSet(A) /\ IsFiniteSet(B)
  BY FS_Subset
<1>2. Cardinality(A) \in Nat /\ Cardinality(B) \in Nat
  BY <1>1, FS_CardinalityType
<1>3. CASE f[k] \in P /\ to \in P
  <2>1. A = B BY <1>3
  <2> QED BY <1>2, <1>3, <2>1
<1>4. CASE f[k] \notin P /\ to \notin P
  <2>1. A = B BY <1>4
  <2> QED BY <1>2, <1>4, <2>1
<1>5. CASE f[k] \notin P /\ to \in P
  <2>1. B = A \cup {k} /\ k \notin A BY <1>5
  <2>2. Cardinality(B) = Cardinality(A) + 1
    <3> HIDE DEF A, B
    <3> QED BY <1>1, <2>1, FS_AddElement
  <2> QED BY <1>2, <1>5, <2>2
<1>6. CASE f[k] \in P /\ to \notin P
  <2>1. B = A \ {k} /\ k \in A BY <1>6
  <2>2. Cardinality(B) = Cardinality(A) - 1
    <3> HIDE DEF A, B
    <3> QED BY <1>1, <2>1, FS_RemoveElement
  <2> QED BY <1>2, <1>6, <2>2
<1> QED BY <1>3, <1>4, <1>5, <1>6

----------------------------------------------------------------------------
(* The inductive invariant holds initially and is preserved *)

(* The call begins with nothing launched.                                   *)
LEMMA BeginCallInv == ProperJob(job) /\ Begin => CallInv
<1> SUFFICES ASSUME ProperJob(job), Begin PROVE CallInv
  OBVIOUS
<1> USE DEF Begin
<1>0. ProperJob(job)
  OBVIOUS
<1>1. IsFiniteSet(Runs) /\ \A k \in Runs : k \in 1 .. Len(plan) /\ Remote(plan, k)
  BY <1>0, RunsFacts
<1>2. TypeOK
  BY <1>0, EmptySeq DEF TypeOK, NoResult, Errors
<1>3. Launched /\ ResultsSettled /\ SplitReadsASettledResult /\ InsideRun
      /\ NoWorkerOutlivesTheCall /\ PanicsOnlyOnOverflow
  BY DEF Launched, ResultsSettled, SplitReadsASettledResult, InsideRun,
         NoWorkerOutlivesTheCall, PanicsOnlyOnOverflow
<1>4. TokensHeld
  <2>1. {k \in Runs : worker[k] \in HoldsToken} = {}
    BY DEF HoldsToken
  <2>2. Cardinality({k \in Runs : worker[k] \in HoldsToken}) = 0
    BY <2>1, FS_EmptySet
  <2> QED BY <2>2, ConcurrencyAssumption DEF TokensHeld
<1>5. WaitGroupCounts
  <2>1. {k \in Runs : worker[k] \in Alive} = {}
    BY DEF Alive
  <2> QED BY <2>1, FS_EmptySet DEF WaitGroupCounts
<1>6. BetweenChunks
  BY <1>0, JobFacts DEF BetweenChunks, Runs, RunStarts
<1> QED BY <1>2, <1>3, <1>4, <1>5, <1>6 DEF CallInv

LEMMA InitCallInv == Init => CallInv
BY BeginCallInv, JobsAssumption DEF Init

(* What else the server may hold does not matter to what has been done.     *)
LEMMA ContentsMayChange ==
  ASSUME CallInv, ProperJob(job'), job'.plan = job.plan, job'.target = job.target,
         UNCHANGED <<mainVars, workerVars>>
  PROVE  CallInv'
<1>1. plan' = plan /\ Runs' = Runs /\ Offs' = Offs
  BY DEF plan, Runs, Offs
<1>2. /\ pc' = pc /\ i' = i /\ run' = run /\ c' = c /\ pos' = pos
      /\ written' = written /\ err' = err /\ out' = out
      /\ worker' = worker /\ results' = results /\ sem' = sem /\ wg' = wg
  BY DEF mainVars, workerVars
<1>3. TypeOK'
  BY <1>1, <1>2 DEF CallInv, TypeOK
<1>4. Launched' /\ TokensHeld' /\ WaitGroupCounts' /\ ResultsSettled' /\ BetweenChunks'
  BY <1>1, <1>2
     DEF CallInv, Launched, TokensHeld, WaitGroupCounts, ResultsSettled, BetweenChunks
<1>5. SplitReadsASettledResult' /\ InsideRun' /\ NoWorkerOutlivesTheCall' /\ PanicsOnlyOnOverflow'
  BY <1>1, <1>2
     DEF CallInv, SplitReadsASettledResult, InsideRun, NoWorkerOutlivesTheCall, PanicsOnlyOnOverflow
<1> QED BY <1>3, <1>4, <1>5 DEF CallInv

(* A step of a goroutine that fetches: it leaves the caller's state alone.  *)
LEMMA WorkerCallInv ==
  ASSUME CallInv, NEW k \in Runs, Worker(k)
  PROVE  CallInv'
<1>1. PICK to \in {"fetching", "fetched", "ready", "released", "done"} :
         /\ UNCHANGED <<job, mainVars>>
         /\ worker' = [worker EXCEPT ![k] = to]
         /\ \/ worker[k] = "started" /\ to = "fetching" /\ Acquire(k)
            \/ worker[k] = "fetching" /\ to = "fetched" /\ Fetch(k)
            \/ worker[k] = "fetched" /\ to = "ready" /\ CloseReady(k)
            \/ worker[k] = "ready" /\ to = "released" /\ Release(k)
            \/ worker[k] = "released" /\ to = "done" /\ WorkerDone(k)
  BY DEF Worker, Acquire, Fetch, CloseReady, Release, WorkerDone, Step
<1>2. /\ job' = job /\ plan' = plan /\ target' = target /\ Runs' = Runs /\ Offs' = Offs
      /\ pc' = pc /\ i' = i /\ run' = run /\ c' = c /\ pos' = pos
      /\ written' = written /\ err' = err /\ out' = out
  BY <1>1 DEF mainVars, plan, target, Runs, Offs
<1>3. ProperJob(job) /\ DOMAIN worker = Runs /\ IsFiniteSet(Runs)
  BY RunsFacts DEF CallInv, TypeOK
<1>4. sem \in Nat /\ wg \in Nat /\ sem' \in Nat /\ wg' \in Nat
      /\ TokensHeld' /\ WaitGroupCounts'
  <2> DEFINE n(P) == Cardinality({l \in Runs : worker[l] \in P})
             m(P) == Cardinality({l \in Runs : worker'[l] \in P})
  <2>1. /\ n(HoldsToken) \in Nat /\ m(HoldsToken) \in Nat
        /\ n(Alive) \in Nat /\ m(Alive) \in Nat
    <3>1. \A P : /\ IsFiniteSet({l \in Runs : worker[l] \in P})
                 /\ IsFiniteSet({l \in Runs : worker'[l] \in P})
      BY <1>3, FS_Subset
    <3> QED BY <3>1, FS_CardinalityType
  <2>2. /\ worker[k] \in HoldsToken /\ to \in HoldsToken => m(HoldsToken) = n(HoldsToken)
        /\ worker[k] \notin HoldsToken /\ to \notin HoldsToken => m(HoldsToken) = n(HoldsToken)
        /\ worker[k] \notin HoldsToken /\ to \in HoldsToken => m(HoldsToken) = n(HoldsToken) + 1
        /\ worker[k] \in HoldsToken /\ to \notin HoldsToken => m(HoldsToken) = n(HoldsToken) - 1
    BY <1>1, <1>3, CountStep
  <2>3. /\ worker[k] \in Alive /\ to \in Alive => m(Alive) = n(Alive)
        /\ worker[k] \in Alive /\ to \notin Alive => m(Alive) = n(Alive) - 1
    BY <1>1, <1>3, CountStep
  <2>4. sem = n(HoldsToken) /\ sem <= FetchConcurrency /\ wg = n(Alive)
    BY DEF CallInv, TokensHeld, WaitGroupCounts
  <2> HIDE DEF n, m
  <2>5. CASE worker[k] = "started" /\ to = "fetching" /\ Acquire(k)
    <3>1. sem' = sem + 1 /\ sem < FetchConcurrency /\ wg' = wg
      BY <2>5 DEF Acquire, Room
    <3>2. m(HoldsToken) = n(HoldsToken) + 1 /\ m(Alive) = n(Alive)
      BY <2>2, <2>3, <2>5 DEF HoldsToken, Alive
    <3> QED BY <2>1, <2>4, <3>1, <3>2, <1>2, ConcurrencyAssumption
            DEF TokensHeld, WaitGroupCounts, m
  <2>6. CASE \/ worker[k] = "fetching" /\ to = "fetched" /\ Fetch(k)
             \/ worker[k] = "fetched" /\ to = "ready" /\ CloseReady(k)
    <3>1. sem' = sem /\ wg' = wg
      BY <2>6 DEF Fetch, CloseReady
    <3>2. m(HoldsToken) = n(HoldsToken) /\ m(Alive) = n(Alive)
      BY <2>2, <2>3, <2>6 DEF HoldsToken, Alive
    <3> QED BY <2>1, <2>4, <3>1, <3>2, <1>2 DEF TokensHeld, WaitGroupCounts, m
  <2>7. CASE worker[k] = "ready" /\ to = "released" /\ Release(k)
    <3>1. sem' = sem - 1 /\ wg' = wg
      BY <2>7 DEF Release, TokensBack
    <3>2. m(HoldsToken) = n(HoldsToken) - 1 /\ m(Alive) = n(Alive)
      BY <2>2, <2>3, <2>7 DEF HoldsToken, Alive
    <3>3. sem' \in Nat /\ sem' <= FetchConcurrency
      BY <2>1, <2>4, <3>1, <3>2, ConcurrencyAssumption
    <3> QED BY <2>1, <2>4, <3>1, <3>2, <3>3, <1>2 DEF TokensHeld, WaitGroupCounts, m
  <2>8. CASE worker[k] = "released" /\ to = "done" /\ WorkerDone(k)
    <3>1. sem' = sem /\ wg' = wg - 1
      BY <2>8 DEF WorkerDone
    <3>2. m(HoldsToken) = n(HoldsToken) /\ m(Alive) = n(Alive) - 1
      BY <2>2, <2>3, <2>8 DEF HoldsToken, Alive
    <3> QED BY <2>1, <2>4, <3>1, <3>2, <1>2 DEF TokensHeld, WaitGroupCounts, m
  <2> QED BY <1>1, <2>5, <2>6, <2>7, <2>8
<1>5. /\ results' \in [Runs -> [data : Seq(Byte), err : BOOLEAN]]
      /\ ResultsSettled'
      /\ \A l \in Runs : ReadyClosed(l) => results'[l] = results[l] /\ ReadyClosed(l)'
  <2>1. CASE Fetch(k)
    <3>1. PICK a \in Answers(k) :
            results' = [results EXCEPT ![k] =
              [data |-> a.data,
               err  |-> a.err \/ Len(a.data) # RemoteRun(plan, k).length]]
      BY <2>1 DEF Fetch, Failed
    <3>2. a \in [data : Seq(Byte), err : BOOLEAN]
      <4> DEFINE r == RemoteRun(plan, k)
                 at == Int64(job.base + r.offset)
      <4>1. r.length \in Int /\ at \in Int
        <5>1. r.length \in Int /\ r.offset \in Int /\ job.base \in Nat
          BY <1>3, JobFacts, RunFacts
        <5> QED BY <5>1, Int64Type
      <4>2. \A b \in job.contents : b \in Seq(Byte) /\ Slice(b, at, r.length) \in Seq(Byte)
        <5> HIDE DEF r, at
        <5> QED BY <1>3, <4>1, JobFacts, SliceType
      <4>3. <<>> \in Seq(Byte)
        BY EmptySeq
      <4>4. \/ \E b \in job.contents : a = [data |-> Slice(b, at, r.length), err |-> FALSE]
            \/ \E b \in job.contents : a = [data |-> b, err |-> FALSE]
            \/ a = [data |-> <<>>, err |-> TRUE]
        BY Zenon DEF Answers
      <4>5. \E d \in Seq(Byte), e \in BOOLEAN : a = [data |-> d, err |-> e]
        <5> HIDE DEF r, at
        <5> QED BY <4>2, <4>3, <4>4, Zenon
      <4> QED BY <4>5
    <3> DEFINE r == [data |-> a.data,
                     err  |-> a.err \/ Len(a.data) # RemoteRun(plan, k).length]
    <3>3. /\ r \in [data : Seq(Byte), err : BOOLEAN]
          /\ r.err \/ Len(r.data) = RemoteRun(plan, k).length
      BY <3>2
    <3> HIDE DEF r
    <3>4. results' = [results EXCEPT ![k] = r]
      BY <3>1 DEF r
    <3>5. worker[k] = "fetching" /\ worker' = [worker EXCEPT ![k] = "fetched"]
      BY <2>1 DEF Fetch, Step
    <3> QED BY <1>2, <1>3, <3>3, <3>4, <3>5 DEF CallInv, TypeOK, ResultsSettled, ReadyClosed, Settled
  <2>2. CASE ~Fetch(k)
    <3>1. results' = results /\ to # "fetched"
      BY <1>1, <2>2 DEF Acquire, CloseReady, Release, WorkerDone, Step, Fetch
    <3> QED BY <1>1, <1>2, <1>3, <3>1 DEF CallInv, TypeOK, ResultsSettled, ReadyClosed, Settled
  <2> QED BY <2>1, <2>2
<1>6. TypeOK'
  BY <1>1, <1>2, <1>4, <1>5 DEF CallInv, TypeOK
<1>7. Launched' /\ NoWorkerOutlivesTheCall'
  BY <1>1, <1>2, <1>3 DEF CallInv, Launched, NoWorkerOutlivesTheCall
<1>8. SplitReadsASettledResult'
  BY <1>2, <1>5 DEF CallInv, SplitReadsASettledResult, ReadyClosed
<1>9. BetweenChunks' /\ InsideRun' /\ PanicsOnlyOnOverflow'
  BY <1>2 DEF CallInv, BetweenChunks, InsideRun, PanicsOnlyOnOverflow
<1> QED BY <1>4, <1>5, <1>6, <1>7, <1>8, <1>9 DEF CallInv

(* What verifyWriteChunk does to the caller's state, if data are bytes.     *)
LEMMA ChunkSteps ==
  ASSUME TypeOK, NEW n, NEW data \in Seq(Byte)
  PROVE  /\ AcceptChunk(n, data) =>
              /\ Verifies(n, data)
              /\ out' = out \o data /\ out' \in Seq(Byte) /\ written' \in Nat
              /\ pc' = pc /\ err' = err
         /\ RejectChunk(n, data) =>
              /\ pc' = "wait" /\ err' \in {"digest", "write"}
              /\ out' \in Seq(Byte) /\ written' \in Nat
              /\ \E g \in Seq(Byte) :
                   out' = out \o g /\ (g = <<>> \/ Len(g) < Len(data))
<1>1. out \in Seq(Byte) /\ written \in Nat
  BY DEF TypeOK
<1>2. ASSUME AcceptChunk(n, data)
      PROVE  /\ Verifies(n, data)
             /\ out' = out \o data /\ out' \in Seq(Byte) /\ written' \in Nat
             /\ pc' = pc /\ err' = err
  BY <1>1, <1>2, ConcatProperties DEF AcceptChunk
<1>3. ASSUME RejectChunk(n, data)
      PROVE  /\ pc' = "wait" /\ err' \in {"digest", "write"}
             /\ out' \in Seq(Byte) /\ written' \in Nat
             /\ \E g \in Seq(Byte) :
                  out' = out \o g /\ (g = <<>> \/ Len(g) < Len(data))
  <2>1. CASE Fail("digest") /\ UNCHANGED <<out, written>>
    <3>1. out' = out \o <<>> /\ <<>> \in Seq(Byte)
      BY <1>1, <2>1, ConcatEmptySeq, EmptySeq
    <3> QED BY <1>1, <2>1, <3>1 DEF Fail
  <2>2. CASE /\ \E m \in 0 .. Len(data) - 1 :
                  out' = out \o SubSeq(data, 1, m) /\ written' = written + m
             /\ Fail("write")
    <3>1. PICK m \in 0 .. Len(data) - 1 :
            out' = out \o SubSeq(data, 1, m) /\ written' = written + m
      BY <2>2
    <3>2. SubSeq(data, 1, m) \in Seq(Byte) /\ Len(SubSeq(data, 1, m)) = m
      <4>1. \A k \in 1 .. m : data[k] \in Byte
        OBVIOUS
      <4> QED BY <4>1, SubSeqProperties
    <3>3. out' \in Seq(Byte) /\ written' \in Nat /\ m < Len(data)
      BY <1>1, <3>1, <3>2, ConcatProperties
    <3>4. \E g \in Seq(Byte) : out' = out \o g /\ (g = <<>> \/ Len(g) < Len(data))
      BY <3>1, <3>2, <3>3
    <3> QED BY <2>2, <3>3, <3>4 DEF Fail
  <2> QED BY <1>3, <2>1, <2>2 DEF RejectChunk
<1> QED BY <1>2, <1>3

(* What the local read of a chunk returns are bytes.                        *)
LEMMA LocalReadType ==
  ASSUME TypeOK, i \in DOMAIN plan, NEW data \in LocalReads
  PROVE  data \in Seq(Byte)
<1> DEFINE at == Int64(plan[i].offset)
<1>1. \A b \in job.localBodies : Slice(b, at, plan[i].length) \in Seq(Byte)
  <2>1. /\ plan[i].offset \in Nat /\ plan[i].length \in Int
        /\ \A b \in job.localBodies : b \in Seq(Byte)
    BY JobFacts DEF TypeOK
  <2>2. at \in Int
    BY <2>1, Int64Type
  <2> HIDE DEF at
  <2> QED BY <2>1, <2>2, SliceType
<1>2. <<>> \in Seq(Byte)
  BY EmptySeq
<1> QED BY <1>1, <1>2 DEF LocalReads

(* The loop moves on to chunk n after a chunk that is not to be fetched.    *)
LEMMA NextIsARunStart ==
  ASSUME TypeOK, NEW n \in DOMAIN plan, ~Remote(plan, n)
  PROVE  /\ n + 1 <= Len(plan) + 1
         /\ n + 1 \in DOMAIN plan /\ Remote(plan, n + 1) => n + 1 \in Runs
<1>1. Len(plan) \in Nat /\ DOMAIN plan = 1 .. Len(plan) /\ n \in Nat
  BY JobFacts DEF TypeOK
<1>2. (n + 1) - 1 = n
  BY <1>1
<1> QED BY <1>1, <1>2 DEF Runs, RunStarts

(* Of a step of the caller that leaves the goroutines alone, only what      *)
(* concerns the caller's own state is left to show.                         *)
LEMMA MainFrame ==
  ASSUME CallInv, job' = job, UNCHANGED workerVars
  PROVE  /\ plan' = plan /\ target' = target /\ Runs' = Runs /\ Offs' = Offs
         /\ worker' = worker /\ results' = results /\ sem' = sem /\ wg' = wg
         /\ TokensHeld' /\ WaitGroupCounts' /\ ResultsSettled'
         /\ \A k \in Runs : ReadyClosed(k)' = ReadyClosed(k)
<1>1. plan' = plan /\ target' = target /\ Runs' = Runs /\ Offs' = Offs
  BY DEF plan, target, Runs, Offs
<1>2. worker' = worker /\ results' = results /\ sem' = sem /\ wg' = wg
  BY DEF workerVars
<1> QED BY <1>1, <1>2
        DEF CallInv, TokensHeld, WaitGroupCounts, ResultsSettled, ReadyClosed, Settled

(* The check before the first goroutine (download.go:50-53).                *)
LEMMA ValidateCallInv == CallInv /\ Validate => CallInv'
<1> SUFFICES ASSUME CallInv, Validate PROVE CallInv'
  OBVIOUS
<1> USE DEF Validate
<1>1. /\ plan' = plan /\ target' = target /\ Runs' = Runs /\ Offs' = Offs
      /\ worker' = worker /\ results' = results /\ sem' = sem /\ wg' = wg
      /\ TokensHeld' /\ WaitGroupCounts' /\ ResultsSettled'
  BY MainFrame
<1>2. TypeOK'
  BY <1>1 DEF CallInv, TypeOK, Errors
<1> QED BY <1>1, <1>2
        DEF CallInv, Launched, BetweenChunks, SplitReadsASettledResult, InsideRun,
            NoWorkerOutlivesTheCall, PanicsOnlyOnOverflow

(* A goroutine is started for every run at once.                            *)
LEMMA LaunchCallInv == CallInv /\ Launch => CallInv'
<1> SUFFICES ASSUME CallInv, Launch PROVE CallInv'
  OBVIOUS
<1> DEFINE pending == {k \in Runs : worker[k] = "none"}
<1>1. /\ job' = job /\ plan' = plan /\ target' = target /\ Runs' = Runs /\ Offs' = Offs
      /\ pc = "launch" /\ i' = i /\ run' = run /\ c' = c /\ pos' = pos
      /\ written' = written /\ err' = err /\ out' = out /\ results' = results /\ sem' = sem
  BY DEF Launch, plan, target, Runs, Offs
<1>2. CASE pending = {}
  <2>1. pc' = "loop" /\ worker' = worker /\ wg' = wg
    BY <1>2 DEF Launch
  <2>2. TypeOK' /\ TokensHeld' /\ WaitGroupCounts' /\ ResultsSettled'
    BY <1>1, <2>1 DEF CallInv, TypeOK, TokensHeld, WaitGroupCounts, ResultsSettled
  <2> QED BY <1>1, <1>2, <2>1, <2>2
          DEF CallInv, Launched, BetweenChunks, SplitReadsASettledResult, InsideRun,
              NoWorkerOutlivesTheCall, PanicsOnlyOnOverflow
<1>3. CASE pending # {}
  <2>1. PICK k \in pending : worker' = [worker EXCEPT ![k] = "started"] /\ wg' = wg + 1 /\ pc' = pc
    BY <1>3 DEF Launch
  <2>2. ProperJob(job) /\ DOMAIN worker = Runs /\ IsFiniteSet(Runs) /\ k \in Runs /\ worker[k] = "none"
    BY RunsFacts DEF CallInv, TypeOK
  <2>3. Cardinality({l \in Runs : worker'[l] \in HoldsToken})
          = Cardinality({l \in Runs : worker[l] \in HoldsToken})
    <3>1. worker[k] \notin HoldsToken /\ "started" \notin HoldsToken
      BY <2>2 DEF HoldsToken
    <3> QED BY <2>1, <2>2, <3>1, CountStep
  <2>4. Cardinality({l \in Runs : worker'[l] \in Alive})
          = Cardinality({l \in Runs : worker[l] \in Alive}) + 1
    <3>1. worker[k] \notin Alive /\ "started" \in Alive
      BY <2>2 DEF Alive
    <3> QED BY <2>1, <2>2, <3>1, CountStep
  <2>5. TokensHeld' /\ WaitGroupCounts'
    BY <1>1, <2>1, <2>3, <2>4 DEF CallInv, TokensHeld, WaitGroupCounts
  <2>6. TypeOK' /\ ResultsSettled'
    BY <1>1, <2>1, <2>2 DEF CallInv, TypeOK, ResultsSettled
  <2> QED BY <1>1, <2>1, <2>2, <2>5, <2>6
          DEF CallInv, Launched, BetweenChunks, SplitReadsASettledResult, InsideRun,
              NoWorkerOutlivesTheCall, PanicsOnlyOnOverflow
<1> QED BY <1>2, <1>3

(* The loop passes an empty chunk.                                          *)
LEMMA SkipEmptyCallInv == CallInv /\ SkipEmpty => CallInv'
<1> SUFFICES ASSUME CallInv, SkipEmpty PROVE CallInv'
  OBVIOUS
<1> USE DEF SkipEmpty, AtChunk, SourcesLeft
<1>1. /\ plan' = plan /\ target' = target /\ Runs' = Runs /\ Offs' = Offs
      /\ worker' = worker /\ results' = results /\ sem' = sem /\ wg' = wg
      /\ TokensHeld' /\ WaitGroupCounts' /\ ResultsSettled'
  BY MainFrame
<1>2. TypeOK'
  BY <1>1 DEF CallInv, TypeOK
<1>3. BetweenChunks'
  <2>1. ~Remote(plan, i)
    BY DEF Remote
  <2> QED BY <1>1, <2>1, NextIsARunStart DEF CallInv, BetweenChunks
<1> QED BY <1>1, <1>2, <1>3
        DEF CallInv, Launched, SplitReadsASettledResult, InsideRun,
            NoWorkerOutlivesTheCall, PanicsOnlyOnOverflow

(* What reading a chunk from the local body can come to.                    *)
LEMMA CopyLocalCases ==
  ASSUME CallInv, CopyLocal
  PROVE  \/ /\ pc' = "panic" /\ Overflows(plan[i].length)
            /\ UNCHANGED <<i, written, err, out>>
         \/ /\ ~Overflows(plan[i].length)
            /\ \E data \in Seq(Byte) :
                 \/ Fail("local read") /\ UNCHANGED <<i, out, written>>
                 \/ Len(data) = plan[i].length /\ RejectChunk(i, data) /\ UNCHANGED i
                 \/ Len(data) = plan[i].length /\ AcceptChunk(i, data) /\ i' = i + 1
<1>1. TypeOK /\ i \in DOMAIN plan
  BY DEF CallInv, CopyLocal, AtChunk, SourcesLeft
<1>2. \A data \in LocalReads : data \in Seq(Byte)
  BY <1>1, LocalReadType
<1> QED BY <1>2, Zenon DEF CopyLocal

(* A chunk is read from the local body, verified and written.               *)
LEMMA CopyLocalCallInv == CallInv /\ CopyLocal => CallInv'
<1> SUFFICES ASSUME CallInv, CopyLocal PROVE CallInv'
  OBVIOUS
<1> USE DEF AtChunk, SourcesLeft
<1>1. /\ plan' = plan /\ target' = target /\ Runs' = Runs /\ Offs' = Offs
      /\ worker' = worker /\ results' = results /\ sem' = sem /\ wg' = wg
      /\ TokensHeld' /\ WaitGroupCounts' /\ ResultsSettled'
  BY MainFrame DEF CopyLocal
<1>2. pc = "loop" /\ i \in DOMAIN plan /\ run' = run /\ c' = c /\ pos' = pos /\ job' = job
      /\ ~Remote(plan, i) /\ TypeOK /\ err = "nil" /\ c = 0
  BY DEF CopyLocal, Remote, CallInv, BetweenChunks
<1>3. CASE pc' = "panic" /\ Overflows(plan[i].length) /\ UNCHANGED <<i, written, err, out>>
  <2>1. TypeOK'
    BY <1>1, <1>2, <1>3 DEF TypeOK
  <2>2. PanicsOnlyOnOverflow'
    BY <1>1, <1>2, <1>3 DEF CopyLocal, PanicsOnlyOnOverflow
  <2> QED BY <1>1, <1>2, <1>3, <2>1, <2>2
          DEF CallInv, Launched, BetweenChunks, SplitReadsASettledResult, InsideRun,
              NoWorkerOutlivesTheCall
<1>4. ASSUME NEW data \in Seq(Byte),
             \/ Fail("local read") /\ UNCHANGED <<i, out, written>>
             \/ RejectChunk(i, data) /\ UNCHANGED i
             \/ AcceptChunk(i, data) /\ i' = i + 1
      PROVE  CallInv'
  <2>5. CASE \/ Fail("local read") /\ UNCHANGED <<i, out, written>>
             \/ RejectChunk(i, data) /\ UNCHANGED i
    <3>1. /\ pc' = "wait" /\ err' \in {"local read", "digest", "write"} /\ i' = i
          /\ out' \in Seq(Byte) /\ written' \in Nat
      BY <1>2, <1>4, <2>5, ChunkSteps DEF Fail, TypeOK
    <3>2. TypeOK'
      BY <1>1, <1>2, <3>1 DEF TypeOK, Errors
    <3> QED BY <1>1, <1>2, <3>1, <3>2
            DEF CallInv, Launched, BetweenChunks, SplitReadsASettledResult, InsideRun,
                NoWorkerOutlivesTheCall, PanicsOnlyOnOverflow
  <2>6. CASE AcceptChunk(i, data) /\ i' = i + 1
    <3>1. pc' = "loop" /\ err' = "nil" /\ out' \in Seq(Byte) /\ written' \in Nat
      BY <1>2, <1>4, <2>6, ChunkSteps
    <3>2. TypeOK'
      BY <1>1, <1>2, <2>6, <3>1 DEF TypeOK
    <3>3. BetweenChunks'
      BY <1>1, <1>2, <2>6, <3>1, NextIsARunStart DEF BetweenChunks
    <3> QED BY <1>1, <1>2, <3>1, <3>2, <3>3
            DEF CallInv, Launched, SplitReadsASettledResult, InsideRun,
                NoWorkerOutlivesTheCall, PanicsOnlyOnOverflow
  <2> QED BY <1>4, <2>5, <2>6
<1> QED BY <1>3, <1>4, CopyLocalCases

(* The caller wakes up once the run it waits for is settled.                *)
LEMMA AwaitRunCallInv == CallInv /\ AwaitRun => CallInv'
<1> SUFFICES ASSUME CallInv, AwaitRun PROVE CallInv'
  OBVIOUS
<1> USE DEF AtChunk, SourcesLeft
<1>1. /\ plan' = plan /\ target' = target /\ Runs' = Runs /\ Offs' = Offs
      /\ worker' = worker /\ results' = results /\ sem' = sem /\ wg' = wg
      /\ TokensHeld' /\ WaitGroupCounts' /\ ResultsSettled'
      /\ \A k \in Runs : ReadyClosed(k)' = ReadyClosed(k)
  BY MainFrame DEF AwaitRun
<1>2. /\ pc = "loop" /\ i \in DOMAIN plan /\ Remote(plan, i) /\ i' = i /\ job' = job
      /\ out' = out /\ written' = written /\ TypeOK /\ err = "nil" /\ c = 0
  BY DEF AwaitRun, Remote, CallInv, BetweenChunks
<1>3. i \in Runs /\ RunAt(i) = i
  BY <1>2 DEF CallInv, BetweenChunks, RunAt
<1>4. CASE results[i].err /\ Fail("fetch") /\ UNCHANGED <<run, c, pos>>
  <2>1. TypeOK'
    BY <1>1, <1>2, <1>4 DEF TypeOK, Errors, Fail
  <2> QED BY <1>1, <1>2, <1>4, <2>1
          DEF CallInv, Launched, BetweenChunks, SplitReadsASettledResult, InsideRun,
              NoWorkerOutlivesTheCall, PanicsOnlyOnOverflow, Fail
<1>5. CASE /\ ~results[i].err /\ pc' = "split" /\ err' = err
           /\ run' = i /\ c' = 0 /\ pos' = 0
  <2>1. TypeOK'
    BY <1>1, <1>2, <1>5 DEF TypeOK
  <2>2. SplitReadsASettledResult'
    <3>1. ReadyClosed(i)
      BY <1>3 DEF AwaitRun
    <3>2. Len(results[i].data) = RemoteRun(plan, i).length
      BY <1>3, <1>5, <3>1 DEF CallInv, ResultsSettled, ReadyClosed, Settled
    <3>3. ReadyClosed(run)'
      BY <1>1, <1>5, <3>1 DEF ReadyClosed, Settled
    <3> QED BY <1>1, <1>2, <1>3, <1>5, <3>2, <3>3 DEF SplitReadsASettledResult, ReadyClosed
  <2>3. InsideRun'
    <3>1. RunEnd(plan, i) \in i + 1 .. Len(plan) + 1 /\ i \in 1 .. Len(plan) /\ Len(plan) \in Nat
      BY <1>2, <1>3, RunFacts, JobFacts DEF TypeOK
    <3>2. Offs[i] \in Nat
      BY <1>2, <3>1, OffsFacts DEF TypeOK
    <3>3. ~Overflows(0)
      BY WordAssumption DEF Overflows
    <3> QED BY <1>1, <1>5, <3>1, <3>2, <3>3 DEF InsideRun
  <2> QED BY <1>1, <1>2, <1>5, <2>1, <2>2, <2>3
          DEF CallInv, Launched, BetweenChunks, NoWorkerOutlivesTheCall, PanicsOnlyOnOverflow
<1> QED BY <1>3, <1>4, <1>5 DEF AwaitRun

(* The chunk SplitRun is at is one of the run's, and lies in the run's bytes*)
(* if an int64 holds the run's length: the slice is in range.               *)
LEMMA SplitInRange ==
  ASSUME CallInv, pc = "split", c < RemoteRun(plan, run).count
  PROVE  /\ run = i /\ run \in Runs
         /\ i + c \in DOMAIN plan
         /\ plan[i + c].length \in Nat /\ plan[i + c].length > 0 /\ plan[i + c].length < Word
         /\ Remote(plan, i + c)
         /\ pos + plan[i + c].length = Offs[run + (c + 1)] - Offs[run]
         /\ run + (c + 1) <= RunEnd(plan, run)
         /\ ~Overflows(RunLength(plan, run)) =>
              /\ Int64(pos + plan[i + c].length) = pos + plan[i + c].length
              /\ pos + plan[i + c].length <= Len(results[run].data)
<1>1. /\ run = i /\ run \in Runs /\ ProperJob(job) /\ c \in Nat /\ pos \in Nat /\ i \in Nat
      /\ Len(results[run].data) = RemoteRun(plan, run).length
      /\ pos = Offs[run + c] - Offs[run]
  BY DEF CallInv, TypeOK, SplitReadsASettledResult, InsideRun
<1>2. /\ run \in 1 .. Len(plan)
      /\ RunEnd(plan, run) \in run + 1 .. Len(plan) + 1
      /\ \A j \in run .. RunEnd(plan, run) - 1 : j \in DOMAIN plan /\ Remote(plan, j)
      /\ RemoteRun(plan, run).count = RunEnd(plan, run) - run
      /\ RunLength(plan, run) = Offs[RunEnd(plan, run)] - Offs[run]
      /\ RunLength(plan, run) \in Nat
      /\ RemoteRun(plan, run).length = Int64(RunLength(plan, run))
  BY <1>1, RunFacts
<1>3. run + (c + 1) <= RunEnd(plan, run) /\ run + c \in run .. RunEnd(plan, run) - 1
  BY <1>1, <1>2
<1>4. Len(plan) \in Nat /\ DOMAIN plan = 1 .. Len(plan)
      /\ run + c \in DOMAIN plan /\ Remote(plan, run + c)
  BY <1>1, <1>2, <1>3, JobFacts
<1>5. plan[run + c].length \in Nat /\ plan[run + c].length > 0 /\ plan[run + c].length < Word
  BY <1>1, <1>4, JobFacts DEF Remote
<1>6. /\ Offs[(run + c) + 1] = Offs[run + c] + plan[run + c].length
      /\ Offs[(run + c) + 1] <= Offs[RunEnd(plan, run)]
      /\ Offs[run + c] \in Nat /\ Offs[run] \in Nat
      /\ Offs[(run + c) + 1] \in Nat /\ Offs[RunEnd(plan, run)] \in Nat
  <2>1. /\ run + c \in 1 .. Len(plan) + 1 /\ run \in 1 .. Len(plan) + 1
        /\ (run + c) + 1 \in 1 .. Len(plan) + 1
        /\ RunEnd(plan, run) \in 1 .. Len(plan) + 1
        /\ RunEnd(plan, run) \in (run + c) + 1 .. Len(plan) + 1
    BY <1>1, <1>2, <1>3, <1>4
  <2> QED BY <1>1, <1>4, <2>1, OffsFacts
<1>7. (run + c) + 1 = run + (c + 1) /\ i + c = run + c
  BY <1>1
<1>8. /\ pos + plan[run + c].length = Offs[(run + c) + 1] - Offs[run]
      /\ pos + plan[run + c].length <= RunLength(plan, run)
  <2> DEFINE o == Offs[run + c]
             x == Offs[run]
             y == Offs[(run + c) + 1]
             e == Offs[RunEnd(plan, run)]
             l == plan[run + c].length
             n == RunLength(plan, run)
  <2>1. /\ pos \in Nat /\ o \in Nat /\ x \in Nat /\ e \in Nat /\ l \in Nat
        /\ y = o + l /\ y <= e
    BY <1>1, <1>5, <1>6
  <2>2. pos = o - x
    BY <1>1
  <2>3. n = e - x
    BY <1>2
  <2> HIDE DEF o, x, y, e, l, n
  <2>4. pos + l = y - x /\ pos + l <= n
    BY <2>1, <2>2, <2>3
  <2> QED BY <2>4 DEF o, x, y, e, l, n
<1>9. ASSUME ~Overflows(RunLength(plan, run))
      PROVE  /\ Int64(pos + plan[run + c].length) = pos + plan[run + c].length
             /\ pos + plan[run + c].length <= Len(results[run].data)
  <2> DEFINE n == RunLength(plan, run)
             h == pos + plan[run + c].length
  <2>0. /\ n \in Nat /\ pos \in Nat /\ plan[run + c].length \in Nat
        /\ h <= n /\ ~Overflows(n)
    BY <1>1, <1>2, <1>5, <1>8, <1>9
  <2>1. n \in Nat /\ h \in Nat /\ h <= n /\ 2 * n < Word /\ Word \in Nat
    <3>1. h \in Nat
      BY <2>0
    <3> HIDE DEF n, h
    <3> QED BY <2>0, <3>1, WordAssumption DEF Overflows
  <2> HIDE DEF n, h
  <2>2. Int64(n) = n /\ Int64(h) = h
    BY <2>1, Int64OfFitting
  <2>3. Len(results[run].data) = n
    BY <1>1, <1>2, <2>2 DEF n
  <2> QED BY <2>1, <2>2, <2>3 DEF h
<1> QED BY <1>1, <1>3, <1>4, <1>5, <1>7, <1>8, <1>9

(* What cutting a chunk out of a run can come to.                           *)
LEMMA SplitRunCases ==
  ASSUME CallInv, SplitRun
  PROVE  \/ /\ pc' = "panic" /\ Overflows(RunLength(plan, run))
            /\ UNCHANGED <<c, pos, written, err, out>>
         \/ /\ pos' = pos + plan[i + c].length /\ ~Overflows(pos')
            /\ \E data \in Seq(Byte) :
                 /\ Len(data) = plan[i + c].length
                 /\ \/ RejectChunk(i + c, data) /\ UNCHANGED c
                    \/ AcceptChunk(i + c, data) /\ c' = c + 1
<1> DEFINE length == plan[i + c].length
           bytes  == results[run].data
           high   == Int64(pos + length)
<1>1. /\ run \in Runs /\ length \in Nat /\ length < Word
      /\ ~Overflows(RunLength(plan, run)) => high = pos + length /\ pos + length <= Len(bytes)
  BY SplitInRange DEF SplitRun
<1>2. bytes \in Seq(Byte) /\ pos \in Nat /\ ~Overflows(pos) /\ Len(bytes) \in Nat
  BY <1>1, LenProperties DEF CallInv, TypeOK, InsideRun, SplitRun
<1>3. \/ /\ high < pos \/ high > Len(bytes)
         /\ pc' = "panic" /\ UNCHANGED <<c, pos, written, err, out>>
      \/ /\ high >= pos /\ pos' = high
         /\ \E data \in Sliced(bytes, pos, high) :
              \/ RejectChunk(i + c, data) /\ UNCHANGED c
              \/ AcceptChunk(i + c, data) /\ c' = c + 1
  BY Zenon DEF SplitRun
<1> HIDE DEF length, bytes
<1>4. CASE /\ high < pos \/ high > Len(bytes)
           /\ pc' = "panic" /\ UNCHANGED <<c, pos, written, err, out>>
  <2>1. Overflows(RunLength(plan, run))
    BY <1>1, <1>2, <1>4
  <2> QED BY <1>4, <2>1
<1>5. CASE /\ high >= pos /\ pos' = high
           /\ \E data \in Sliced(bytes, pos, high) :
                \/ RejectChunk(i + c, data) /\ UNCHANGED c
                \/ AcceptChunk(i + c, data) /\ c' = c + 1
  <2>1. high = pos + length /\ ~Overflows(high)
    BY <1>1, <1>2, <1>5, SliceEnd
  <2>2. high \in Nat /\ pos <= high /\ high - pos = length
    BY <1>1, <1>2, <2>1
  <2> HIDE DEF high
  <2>3. \A data \in Sliced(bytes, pos, high) : data \in Seq(Byte) /\ Len(data) = length
    BY <1>2, <2>2, SlicedFacts
  <2>4. \E data \in Seq(Byte) :
          /\ Len(data) = length
          /\ \/ RejectChunk(i + c, data) /\ UNCHANGED c
             \/ AcceptChunk(i + c, data) /\ c' = c + 1
    BY <1>5, <2>3, Zenon
  <2>5. pos' = pos + length /\ ~Overflows(pos')
    BY <1>5, <2>1
  <2> QED BY <2>4, <2>5 DEF length
<1> QED BY <1>3, <1>4, <1>5

(* A chunk is cut out of a run, verified and written.                       *)
LEMMA SplitRunCallInv == CallInv /\ SplitRun => CallInv'
<1> SUFFICES ASSUME CallInv, SplitRun PROVE CallInv'
  OBVIOUS
<1> DEFINE length == plan[i + c].length
<1>1. /\ plan' = plan /\ target' = target /\ Runs' = Runs /\ Offs' = Offs
      /\ worker' = worker /\ results' = results /\ sem' = sem /\ wg' = wg
      /\ TokensHeld' /\ WaitGroupCounts' /\ ResultsSettled'
  BY MainFrame DEF SplitRun
<1>2. /\ pc = "split" /\ c < RemoteRun(plan, run).count
      /\ job' = job /\ i' = i /\ run' = run /\ TypeOK /\ err = "nil"
  BY DEF SplitRun, CallInv, BetweenChunks
<1>3. /\ run = i /\ run \in Runs
      /\ length \in Nat /\ length > 0
      /\ pos + length = Offs[run + (c + 1)] - Offs[run]
      /\ run + (c + 1) <= RunEnd(plan, run)
  BY <1>2, SplitInRange
<1>4. pos \in Nat /\ c \in Nat
  BY <1>2 DEF TypeOK
<1> HIDE DEF length
<1>5. CASE /\ pc' = "panic" /\ Overflows(RunLength(plan, run))
           /\ UNCHANGED <<c, pos, written, err, out>>
  <2>1. TypeOK'
    BY <1>1, <1>2, <1>5 DEF TypeOK
  <2>2. ~plan[i].local
    BY <1>2, <1>3, RunsFacts DEF TypeOK, Remote
  <2>3. PanicsOnlyOnOverflow'
    BY <1>1, <1>2, <1>5, <2>2 DEF PanicsOnlyOnOverflow
  <2> QED BY <1>1, <1>2, <1>5, <2>1, <2>3
          DEF CallInv, Launched, BetweenChunks, SplitReadsASettledResult, InsideRun,
              NoWorkerOutlivesTheCall
<1>6. ASSUME pos' = pos + length, ~Overflows(pos'), NEW data \in Seq(Byte),
             RejectChunk(i + c, data), UNCHANGED c
      PROVE  CallInv'
  <2>1. pc' = "wait" /\ err' \in {"digest", "write"} /\ out' \in Seq(Byte) /\ written' \in Nat
    BY <1>2, <1>6, ChunkSteps
  <2>2. pos' \in Nat
    BY <1>3, <1>4, <1>6
  <2>3. TypeOK'
    BY <1>1, <1>2, <1>4, <1>6, <2>1, <2>2 DEF TypeOK, Errors
  <2> QED BY <1>1, <1>2, <2>1, <2>3
          DEF CallInv, Launched, BetweenChunks, SplitReadsASettledResult, InsideRun,
              NoWorkerOutlivesTheCall, PanicsOnlyOnOverflow
<1>7. ASSUME pos' = pos + length, ~Overflows(pos'), NEW data \in Seq(Byte),
             AcceptChunk(i + c, data), c' = c + 1
      PROVE  CallInv'
  <2>1. pc' = pc /\ err' = err /\ out' \in Seq(Byte) /\ written' \in Nat
    BY <1>2, <1>7, ChunkSteps
  <2>2. pos' \in Nat
    BY <1>3, <1>4, <1>7
  <2>3. TypeOK'
    BY <1>1, <1>2, <1>4, <1>7, <2>1, <2>2 DEF TypeOK
  <2>4. SplitReadsASettledResult'
    BY <1>1, <1>2, <1>3 DEF CallInv, SplitReadsASettledResult, ReadyClosed, Settled
  <2>5. InsideRun'
    BY <1>1, <1>2, <1>3, <1>7 DEF InsideRun
  <2> QED BY <1>1, <1>2, <1>7, <2>1, <2>3, <2>4, <2>5
          DEF CallInv, Launched, BetweenChunks, NoWorkerOutlivesTheCall, PanicsOnlyOnOverflow
<1> QED BY <1>5, <1>6, <1>7, SplitRunCases DEF length

(* The loop goes on behind a run.                                           *)
LEMMA NextAfterRunCallInv == CallInv /\ NextAfterRun => CallInv'
<1> SUFFICES ASSUME CallInv, NextAfterRun PROVE CallInv'
  OBVIOUS
<1> USE DEF NextAfterRun, Advance
<1>1. /\ plan' = plan /\ target' = target /\ Runs' = Runs /\ Offs' = Offs
      /\ worker' = worker /\ results' = results /\ sem' = sem /\ wg' = wg
      /\ TokensHeld' /\ WaitGroupCounts' /\ ResultsSettled'
  BY MainFrame
<1>2. TypeOK'
  BY <1>1 DEF CallInv, TypeOK
<1>3. i' <= Len(plan) + 1 /\ (i' \in DOMAIN plan => ~Remote(plan, i'))
  <2>1. run = i /\ run \in Runs /\ ProperJob(job)
    BY DEF CallInv, TypeOK, SplitReadsASettledResult
  <2>2. Len(plan) \in Nat /\ DOMAIN plan = 1 .. Len(plan)
    BY <2>1, JobFacts
  <2>3. /\ run \in 1 .. Len(plan)
        /\ RunEnd(plan, run) \in run + 1 .. Len(plan) + 1
        /\ RunEnd(plan, run) \in DOMAIN plan => ~Remote(plan, RunEnd(plan, run))
        /\ RemoteRun(plan, run).count = RunEnd(plan, run) - run
    BY <2>1, RunFacts
  <2>4. i' = RunEnd(plan, run)
    BY <2>1, <2>2, <2>3
  <2> QED BY <2>2, <2>3, <2>4
<1>4. BetweenChunks'
  BY <1>1, <1>3 DEF CallInv, BetweenChunks
<1> QED BY <1>1, <1>2, <1>4
        DEF CallInv, Launched, SplitReadsASettledResult, InsideRun,
            NoWorkerOutlivesTheCall, PanicsOnlyOnOverflow

(* The loop ends.                                                           *)
LEMMA EndOfSourcesCallInv == CallInv /\ EndOfSources => CallInv'
<1> SUFFICES ASSUME CallInv, EndOfSources PROVE CallInv'
  OBVIOUS
<1> USE DEF EndOfSources, SourcesLeft
<1>1. /\ plan' = plan /\ target' = target /\ Runs' = Runs /\ Offs' = Offs
      /\ worker' = worker /\ results' = results /\ sem' = sem /\ wg' = wg
      /\ TokensHeld' /\ WaitGroupCounts' /\ ResultsSettled'
  BY MainFrame
<1>2. TypeOK'
  BY <1>1 DEF CallInv, TypeOK
<1> QED BY <1>1, <1>2
        DEF CallInv, Launched, BetweenChunks, SplitReadsASettledResult, InsideRun,
            NoWorkerOutlivesTheCall, PanicsOnlyOnOverflow

(* The deferred Wait lets the call return when all goroutines have ended.   *)
LEMMA ReturnCallInv == CallInv /\ Return => CallInv'
<1> SUFFICES ASSUME CallInv, Return PROVE CallInv'
  OBVIOUS
<1> USE DEF Return, WorkersDone
<1>1. /\ plan' = plan /\ target' = target /\ Runs' = Runs /\ Offs' = Offs
      /\ worker' = worker /\ results' = results /\ sem' = sem /\ wg' = wg
      /\ TokensHeld' /\ WaitGroupCounts' /\ ResultsSettled'
  BY MainFrame
<1>2. TypeOK'
  BY <1>1 DEF CallInv, TypeOK
<1>3. NoWorkerOutlivesTheCall'
  <2> DEFINE alive == {k \in Runs : worker[k] \in Alive}
  <2>1. ProperJob(job) /\ pc = "wait" /\ err # "checksum type"
    BY DEF CallInv, TypeOK, Launched
  <2>2. IsFiniteSet(alive)
    BY <2>1, RunsFacts, FS_Subset
  <2>3. Cardinality(alive) = 0
    BY DEF CallInv, WaitGroupCounts
  <2>4. alive = {}
    <3> HIDE DEF alive
    <3> QED BY <2>2, <2>3, FS_EmptySet
  <2>5. \A k \in Runs : worker[k] = "done"
    <3>1. \A k \in Runs : worker[k] # "none" /\ worker[k] \notin Alive
      BY <2>1, <2>4 DEF CallInv, Launched
    <3> QED BY <3>1 DEF CallInv, TypeOK, Alive
  <2> QED BY <1>1, <2>1, <2>5 DEF NoWorkerOutlivesTheCall
<1> QED BY <1>1, <1>2, <1>3
        DEF CallInv, Launched, BetweenChunks, SplitReadsASettledResult, InsideRun, PanicsOnlyOnOverflow

(* Nothing happens.                                                         *)
LEMMA StutterCallInv == CallInv /\ UNCHANGED vars => CallInv'
<1> SUFFICES ASSUME CallInv, UNCHANGED vars PROVE CallInv'
  OBVIOUS
<1> USE DEF vars
<1>1. /\ plan' = plan /\ target' = target /\ Runs' = Runs /\ Offs' = Offs
      /\ worker' = worker /\ results' = results /\ sem' = sem /\ wg' = wg
      /\ TokensHeld' /\ WaitGroupCounts' /\ ResultsSettled'
  BY MainFrame
<1>2. TypeOK'
  BY <1>1 DEF CallInv, TypeOK, mainVars
<1> QED BY <1>1, <1>2
        DEF CallInv, Launched, BetweenChunks, SplitReadsASettledResult, InsideRun,
            NoWorkerOutlivesTheCall, PanicsOnlyOnOverflow, ReadyClosed, Settled, mainVars

(* Every step of the caller or of a goroutine preserves the invariant.      *)
LEMMA StepCallInv == CallInv /\ [Next]_vars => CallInv'
<1> SUFFICES ASSUME CallInv, [Next]_vars PROVE CallInv'
  OBVIOUS
<1>1. ASSUME NEW k \in Runs, Worker(k) PROVE CallInv'
  BY <1>1, WorkerCallInv
<1>2. CASE Main
  BY <1>2, ValidateCallInv, LaunchCallInv, SkipEmptyCallInv, CopyLocalCallInv, AwaitRunCallInv,
     SplitRunCallInv, NextAfterRunCallInv, EndOfSourcesCallInv, ReturnCallInv DEF Main
<1>3. CASE Terminated \/ UNCHANGED vars
  BY <1>3, StutterCallInv DEF Terminated
<1> QED BY <1>1, <1>2, <1>3 DEF Next

(* The strengthened invariant holds throughout, for all jobs, answers and   *)
(* interleavings: who holds a token, what the WaitGroup counts, which       *)
(* results are final, and where the caller stands between chunks.           *)
THEOREM CallInvariant == Spec => []CallInv
<1> QED BY InitCallInv, StepCallInv, PTL DEF Spec

----------------------------------------------------------------------------
(* Theorems *)

(* Every reachable state is well typed: the WaitGroup's counter and the     *)
(* semaphore's never go negative, whatever the jobs.                        *)
THEOREM TypeCorrect == Spec => []TypeOK
<1>1. CallInv => TypeOK
  BY DEF CallInv
<1> QED BY <1>1, CallInvariant, PTL

(* At most FetchConcurrency requests are in flight, for every number of     *)
(* runs: a goroutine that fetches holds one of the tokens.                  *)
THEOREM FetchesBounded == Spec => []FetchBound
<1>1. CallInv => FetchBound
  <2> SUFFICES ASSUME CallInv PROVE FetchBound
    OBVIOUS
  <2> DEFINE F == {k \in Runs : worker[k] = "fetching"}
             H == {k \in Runs : worker[k] \in HoldsToken}
  <2>1. IsFiniteSet(Runs)
    BY RunsFacts DEF CallInv, TypeOK
  <2>2. IsFiniteSet(H) /\ F \in SUBSET H
    BY <2>1, FS_Subset DEF HoldsToken
  <2>3. Cardinality(F) <= Cardinality(H) /\ Cardinality(F) \in Nat /\ Cardinality(H) \in Nat
    <3> HIDE DEF F, H
    <3>1. IsFiniteSet(F) /\ Cardinality(F) <= Cardinality(H)
      BY <2>2, FS_Subset
    <3> QED BY <2>2, <3>1, FS_CardinalityType
  <2>4. Cardinality(H) <= FetchConcurrency
    BY DEF CallInv, TokensHeld
  <2> QED BY <2>3, <2>4, ConcurrencyAssumption DEF FetchBound
<1> QED BY <1>1, CallInvariant, PTL

(* When the call has returned, no goroutine it started is left.             *)
THEOREM WorkersEndBeforeTheCall == Spec => []NoWorkerOutlivesTheCall
<1>1. CallInv => NoWorkerOutlivesTheCall
  BY DEF CallInv
<1> QED BY <1>1, CallInvariant, PTL

(* The caller reads only results that are final, and complete.              *)
THEOREM SplitsSettledResults == Spec => []SplitReadsASettledResult
<1>1. CallInv => SplitReadsASettledResult
  BY DEF CallInv
<1> QED BY <1>1, CallInvariant, PTL

(* No answer of a server makes the caller slice past the bytes it got, and  *)
(* no plan: only a length in the target's header, or the sum of a run's, no *)
(* int64 holds does, and such headers exist (NeverPanics is violated).      *)
THEOREM PanicsNeedAnOverflow == Spec => []PanicsOnlyOnOverflow
<1>1. CallInv => PanicsOnlyOnOverflow
  BY DEF CallInv
<1> QED BY <1>1, CallInvariant, PTL

----------------------------------------------------------------------------
(* What has been written *)

(* What BodyAssumption says of the call at hand: a chunk that verifies is   *)
(* the part of the body between two offsets.                                *)
LEMMA BodyFacts ==
  ASSUME job \in Jobs
  PROVE  /\ job.body \in Seq(Byte) /\ Len(job.body) <= Offs[Len(plan) + 1]
         /\ \A n \in DOMAIN plan : plan[n].length > 0 /\ ~Overflows(plan[n].length) =>
              \A data \in Seq(Byte) :
                Len(data) = plan[n].length /\ Verifies(n, data) =>
                  /\ Offs[n + 1] <= Len(job.body)
                  /\ data = SubSeq(job.body, Offs[n] + 1, Offs[n + 1])
<1>0. ProperJob(job)
  BY JobsAssumption
<1>1. /\ DOMAIN plan = 1 .. Len(plan) /\ Len(plan) \in Nat
      /\ DOMAIN target.chunks = DOMAIN plan
      /\ \A n \in DOMAIN plan : plan[n].length = target.chunks[n].compLength
  BY <1>0, JobFacts
<1>2. CompLengths(target) = Lengths(plan)
  BY <1>1 DEF CompLengths, Lengths
<1>3. Len(Lengths(plan)) = Len(plan) /\ \A n \in DOMAIN plan : Lengths(plan)[n] = plan[n].length
  BY <1>1 DEF Lengths
<1>4. /\ job.body \in Seq(Byte) /\ Len(job.body) <= Total(CompLengths(target))
      /\ \A n \in NonEmpty(target) : ~Overflows(CompLengths(target)[n]) =>
           \A data \in [1 .. CompLengths(target)[n] -> Byte] :
             Sum(target.ckType, data) = target.chunks[n].digest =>
               /\ Offsets(CompLengths(target))[n + 1] <= Len(job.body)
               /\ data = SubSeq(job.body, Offsets(CompLengths(target))[n] + 1,
                                Offsets(CompLengths(target))[n + 1])
  BY BodyAssumption DEF target
<1>5. Len(job.body) <= Offs[Len(plan) + 1]
  BY <1>2, <1>3, <1>4 DEF Total, Offs
<1>6. ASSUME NEW n \in DOMAIN plan, plan[n].length > 0, ~Overflows(plan[n].length),
             NEW data \in Seq(Byte), Len(data) = plan[n].length, Verifies(n, data)
      PROVE  Offs[n + 1] <= Len(job.body) /\ data = SubSeq(job.body, Offs[n] + 1, Offs[n + 1])
  <2>1. data \in [1 .. CompLengths(target)[n] -> Byte]
    BY <1>2, <1>3, <1>6, LenProperties
  <2>2. Offsets(CompLengths(target)) = Offs
    BY <1>2 DEF Offs
  <2>3. n \in NonEmpty(target) /\ ~Overflows(CompLengths(target)[n])
    BY <1>1, <1>2, <1>3, <1>6 DEF NonEmpty
  <2> QED BY <1>4, <1>6, <2>1, <2>2, <2>3 DEF Verifies
<1> QED BY <1>4, <1>5, <1>6

(* verifyWriteChunk on the next chunk: all of it is appended to what has    *)
(* been written, or a part of it, or nothing.                               *)
LEMMA ChunkWrites ==
  ASSUME job \in Jobs, CallInv, ChunksWritten, err = "nil", job' = job, i + c \in DOMAIN plan,
         plan[i + c].length > 0, ~Overflows(plan[i + c].length),
         NEW data \in Seq(Byte), Len(data) = plan[i + c].length
  PROVE  /\ AcceptChunk(i + c, data) =>
              OutIsAPrefixOfTheBody' /\ Len(out') = Offs[i + c + 1]
         /\ RejectChunk(i + c, data) => OutIsAPrefixOfTheBody'
<1> DEFINE body == job.body
           n == i + c
           a == Offs[n]
           b == Offs[n + 1]
<1>1. ProperJob(job) /\ out \in Seq(Byte) /\ written \in Nat
  BY DEF CallInv, TypeOK
<1>2. body \in Seq(Byte) /\ Len(body) \in Nat
  BY <1>1, BodyFacts, LenProperties
<1>3. a \in Nat /\ b \in Nat /\ b = a + Len(data) /\ Len(data) \in Nat
  <2>1. Len(plan) \in Nat /\ DOMAIN plan = 1 .. Len(plan)
    BY <1>1, JobFacts
  <2>2. n \in 1 .. Len(plan) + 1 /\ n + 1 \in 1 .. Len(plan) + 1
    BY <2>1
  <2>3. a \in Nat /\ b \in Nat /\ b = a + plan[n].length
    BY <1>1, <2>2, OffsFacts
  <2> QED BY <2>3, LenProperties
<1>4. out = SubSeq(body, 1, a) /\ Len(out) = a /\ written = a
  BY DEF ChunksWritten, OutIsAPrefixOfTheBody
<1>5. Verifies(n, data) => b <= Len(body) /\ data = SubSeq(body, a + 1, b)
  BY <1>1, BodyFacts
<1> HIDE DEF a, b, body
<1>6. ASSUME Verifies(n, data), NEW m \in 0 .. Len(data),
             out' = out \o SubSeq(data, 1, m), written' = written + m
      PROVE  OutIsAPrefixOfTheBody' /\ Len(out') = a + m
  <2>1. /\ m \in Nat /\ m \in 0 .. b - a /\ a \in Nat /\ a + m <= Len(body)
        /\ a \in 0 .. Len(body) /\ b \in a .. Len(body)
    <3>1. b <= Len(body)
      BY <1>5, <1>6
    <3> QED BY <1>2, <1>3, <3>1
  <2>2. out' = SubSeq(body, 1, a + m)
    BY <1>2, <1>3, <1>4, <1>5, <1>6, <2>1, PrefixExtends
  <2>3. Len(out') = a + m
    <3>1. 0 \in 0 .. Len(body) /\ a + m \in 0 .. Len(body) /\ 0 + 1 = 1 /\ (a + m) - 0 = a + m
      BY <1>2, <2>1
    <3>2. Len(SubSeq(body, 0 + 1, a + m)) = (a + m) - 0
      BY <1>2, <3>1, SubSeqFacts
    <3> QED BY <2>2, <3>1, <3>2
  <2>4. job'.body = body
    BY DEF body
  <2> QED BY <1>4, <1>6, <2>1, <2>2, <2>3, <2>4 DEF OutIsAPrefixOfTheBody
<1>7. ASSUME AcceptChunk(n, data)
      PROVE  OutIsAPrefixOfTheBody' /\ Len(out') = b
  <2>1. Verifies(n, data) /\ out' = out \o data /\ written' = written + Len(data)
    BY <1>7 DEF AcceptChunk
  <2>2. SubSeq(data, 1, Len(data)) = data
    BY SubSeqFull
  <2>3. Len(data) \in 0 .. Len(data) /\ a + Len(data) = b
    BY <1>3
  <2> QED BY <1>6, <2>1, <2>2, <2>3
<1>8. ASSUME RejectChunk(n, data)
      PROVE  OutIsAPrefixOfTheBody'
  <2>1. CASE UNCHANGED <<out, written>>
    BY <2>1 DEF ChunksWritten, OutIsAPrefixOfTheBody
  <2>2. CASE /\ Verifies(n, data)
             /\ \E m \in 0 .. Len(data) - 1 :
                  out' = out \o SubSeq(data, 1, m) /\ written' = written + m
    <3>1. PICK m \in 0 .. Len(data) - 1 :
            out' = out \o SubSeq(data, 1, m) /\ written' = written + m
      BY <2>2
    <3>2. m \in 0 .. Len(data)
      BY <1>3
    <3> QED BY <1>6, <2>2, <3>1, <3>2
  <2> QED BY <1>8, <2>1, <2>2 DEF RejectChunk
<1> QED BY <1>7, <1>8 DEF b

(* At first nothing has been written.                                       *)
LEMMA InitChunksWritten == Init => ChunksWritten
<1> SUFFICES ASSUME Init PROVE ChunksWritten
  OBVIOUS
<1> USE DEF Init, Begin
<1>1. /\ Offs \in [1 .. Len(plan) + 1 -> Nat] /\ Offs[1] = 0 /\ Len(plan) \in Nat
  <2>1. Len(Lengths(plan)) = Len(plan) /\ Len(plan) \in Nat
        /\ \A n \in 1 .. Len(Lengths(plan)) : Lengths(plan)[n] \in Nat
    BY JobsAssumption, JobFacts DEF Lengths
  <2>2. 1 \in 1 .. Len(Lengths(plan)) + 1
    BY <2>1
  <2> QED BY <2>1, <2>2, OffsetsUnfold DEF Offs
<1>2. job.body \in Seq(Byte) /\ Len(job.body) \in Nat
  BY BodyFacts, LenProperties
<1>3. SubSeq(job.body, 1, 0) = <<>> /\ Len(<<>>) = 0
  BY SubSeqEmpty, EmptySeq
<1>4. OutIsAPrefixOfTheBody
  BY <1>2, <1>3 DEF OutIsAPrefixOfTheBody
<1> QED BY <1>1, <1>3, <1>4 DEF ChunksWritten

(* The arguments of a call do not change.                                   *)
LEMMA JobIsFixed == [Next]_vars => job' = job
BY DEF Next, Main, Validate, Launch, SkipEmpty, CopyLocal, AwaitRun, SplitRun,
       NextAfterRun, EndOfSources, Return, Worker, Acquire, Fetch, CloseReady,
       Release, WorkerDone, Step, Terminated, vars

(* Every step of the caller leaves a prefix of the body behind; those of    *)
(* the goroutines do not touch what it has written.                         *)
LEMMA StepChunksWritten ==
  job \in Jobs /\ CallInv /\ ChunksWritten /\ [Next]_vars => ChunksWritten'
<1> SUFFICES ASSUME job \in Jobs, CallInv, ChunksWritten, [Next]_vars PROVE ChunksWritten'
  OBVIOUS
<1>1. /\ i \in Nat \ {0} /\ c \in Nat /\ ProperJob(job)
      /\ Len(plan) \in Nat /\ DOMAIN plan = 1 .. Len(plan)
  <2>1. i \in Nat \ {0} /\ c \in Nat /\ ProperJob(job)
    BY DEF CallInv, TypeOK
  <2> QED BY <2>1, JobFacts
<1>2. job' = job /\ plan' = plan /\ Offs' = Offs
  <2>1. job' = job
    BY JobIsFixed
  <2> QED BY <2>1 DEF plan, Offs
<1>3. ASSUME out' = out, written' = written PROVE OutIsAPrefixOfTheBody'
  BY <1>2, <1>3 DEF ChunksWritten, OutIsAPrefixOfTheBody
<1>4. ASSUME NEW n \in 1 .. Len(plan) PROVE n + 1 \in 1 .. Len(plan) + 1
  BY <1>1
<1>5. CASE Validate \/ Launch \/ Return
  <2>1. /\ (i + c)' = i + c /\ out' = out /\ written' = written
        /\ err' = "nil" => err = "nil"
        /\ pc' \in {"wait", "returned"} /\ err' = "nil" => pc \in {"wait", "returned"}
    BY <1>5 DEF Validate, Launch, Return, WorkersDone
  <2> QED BY <1>2, <1>3, <2>1 DEF ChunksWritten
<1>6. CASE SkipEmpty
  <2>1. /\ i \in DOMAIN plan /\ plan[i].length = 0 /\ pc' = "loop" /\ err = "nil" /\ c = 0
        /\ i' = i + 1 /\ c' = c /\ out' = out /\ written' = written
    BY <1>6 DEF SkipEmpty, AtChunk, SourcesLeft, CallInv, BetweenChunks
  <2>2. i + c = i /\ (i + c)' = i + 1 /\ Offs[i] \in Nat /\ i + 1 \in 1 .. Len(plan) + 1
    <3>1. i \in 1 .. Len(plan) + 1
      BY <1>1, <2>1
    <3> QED BY <1>1, <1>4, <2>1, <3>1, OffsFacts
  <2>3. Offs[i + 1] = Offs[i]
    <3>1. Offs[i + 1] = Offs[i] + 0
      BY <1>1, <2>1, OffsFacts
    <3> QED BY <2>2, <3>1
  <2> QED BY <1>2, <1>3, <2>1, <2>2, <2>3 DEF ChunksWritten
<1>7. CASE CopyLocal
  <2>1. pc = "loop" /\ i \in DOMAIN plan /\ err = "nil" /\ c = 0 /\ c' = c
    BY <1>7 DEF CopyLocal, AtChunk, SourcesLeft, CallInv, BetweenChunks
  <2>2. i + c = i /\ i + c + 1 = i + 1
    BY <1>1, <2>1
  <2>3. CASE /\ pc' = "panic" /\ UNCHANGED <<i, written, err, out>>
    BY <1>2, <1>3, <2>1, <2>3 DEF ChunksWritten
  <2>4. ASSUME ~Overflows(plan[i].length), NEW data \in Seq(Byte),
               \/ Fail("local read") /\ UNCHANGED <<i, out, written>>
               \/ Len(data) = plan[i].length /\ RejectChunk(i, data) /\ UNCHANGED i
               \/ Len(data) = plan[i].length /\ AcceptChunk(i, data) /\ i' = i + 1
        PROVE  ChunksWritten'
    <3>0. plan[i].length > 0
      BY <1>7 DEF CopyLocal
    <3>5. CASE Fail("local read") /\ UNCHANGED <<i, out, written>>
      BY <1>3, <3>5 DEF ChunksWritten, Fail
    <3>6. CASE Len(data) = plan[i].length /\ RejectChunk(i, data) /\ UNCHANGED i
      <4>1. OutIsAPrefixOfTheBody'
        BY <1>2, <2>1, <2>2, <2>4, <3>0, <3>6, ChunkWrites
      <4>2. err' \in {"digest", "write"}
        BY <2>4, <3>0, <3>6, ChunkSteps DEF CallInv
      <4> QED BY <4>1, <4>2 DEF ChunksWritten
    <3>7. CASE Len(data) = plan[i].length /\ AcceptChunk(i, data) /\ i' = i + 1
      <4>1. OutIsAPrefixOfTheBody' /\ Len(out') = Offs[i + 1]
        BY <1>2, <2>1, <2>2, <2>4, <3>0, <3>7, ChunkWrites
      <4>2. pc' = "loop" /\ (i + c)' = i + 1 /\ i + 1 \in 1 .. Len(plan) + 1
        BY <1>1, <1>4, <2>1, <2>4, <3>0, <3>7, ChunkSteps DEF CallInv
      <4> QED BY <1>2, <4>1, <4>2 DEF ChunksWritten
    <3> QED BY <2>4, <3>5, <3>6, <3>7
  <2> QED BY <1>7, <2>3, <2>4, CopyLocalCases
<1>8. CASE AwaitRun
  <2>1. /\ pc = "loop" /\ i' = i /\ c = 0 /\ out' = out /\ written' = written /\ err = "nil"
        /\ (pc' = "split" /\ c' = 0) \/ err' # "nil"
    BY <1>8 DEF AwaitRun, AtChunk, SourcesLeft, CallInv, BetweenChunks, Fail
  <2> QED BY <1>2, <1>3, <2>1 DEF ChunksWritten
<1>9. CASE SplitRun
  <2> DEFINE length == plan[i + c].length
  <2>1. pc = "split" /\ err = "nil" /\ c < RemoteRun(plan, run).count /\ i' = i
    BY <1>9 DEF SplitRun, CallInv, BetweenChunks
  <2>2. i + c \in DOMAIN plan /\ length \in Nat /\ length > 0
    BY <2>1, SplitInRange
  <2>3. CASE /\ pc' = "panic" /\ UNCHANGED <<c, pos, written, err, out>>
    BY <1>2, <1>3, <2>1, <2>3 DEF ChunksWritten
  <2>4. ASSUME pos' = pos + length, ~Overflows(pos'), NEW data \in Seq(Byte),
               Len(data) = length,
               \/ RejectChunk(i + c, data) /\ UNCHANGED c
               \/ AcceptChunk(i + c, data) /\ c' = c + 1
        PROVE  ChunksWritten'
    <3>1. ~Overflows(length)
      <4>1. pos \in Nat /\ Word \in Nat
        BY WordAssumption DEF CallInv, TypeOK
      <4> HIDE DEF length
      <4> QED BY <2>2, <2>4, <4>1 DEF Overflows
    <3>2. CASE RejectChunk(i + c, data) /\ UNCHANGED c
      <4>1. OutIsAPrefixOfTheBody'
        BY <1>2, <2>1, <2>2, <2>4, <3>1, <3>2, ChunkWrites
      <4>2. err' \in {"digest", "write"}
        BY <2>4, <3>2, ChunkSteps DEF CallInv
      <4> QED BY <4>1, <4>2 DEF ChunksWritten
    <3>3. CASE AcceptChunk(i + c, data) /\ c' = c + 1
      <4>1. OutIsAPrefixOfTheBody' /\ Len(out') = Offs[i + c + 1]
        BY <1>2, <2>1, <2>2, <2>4, <3>1, <3>3, ChunkWrites
      <4>2. pc' = "split"
        BY <2>1, <2>4, <3>3, ChunkSteps DEF CallInv
      <4>3. (i + c)' = i + c + 1 /\ i + c + 1 \in 1 .. Len(plan) + 1
        BY <1>1, <1>4, <2>1, <2>2, <3>3
      <4> QED BY <1>2, <4>1, <4>2, <4>3 DEF ChunksWritten
    <3> QED BY <2>4, <3>2, <3>3
  <2> QED BY <1>9, <2>3, <2>4, SplitRunCases
<1>10. CASE NextAfterRun
  <2>1. /\ pc' = "loop" /\ i' = i + c /\ c' = 0
        /\ out' = out /\ written' = written /\ err' = err
    BY <1>10 DEF NextAfterRun, Advance
  <2>2. (i + c)' = i + c
    BY <1>1, <2>1
  <2> QED BY <1>2, <1>3, <2>1, <2>2 DEF ChunksWritten
<1>11. CASE EndOfSources
  <2>1. /\ (i + c)' = i + c /\ c = 0 /\ i <= Len(plan) + 1 /\ i \notin DOMAIN plan
        /\ out' = out /\ written' = written /\ err' = err
    BY <1>11 DEF EndOfSources, SourcesLeft, CallInv, BetweenChunks
  <2>2. i + c = Len(plan) + 1
    BY <1>1, <2>1
  <2> QED BY <1>2, <1>3, <2>1, <2>2 DEF ChunksWritten
<1>12. CASE (\E k \in Runs : Worker(k)) \/ Terminated \/ UNCHANGED vars
  <2>1. UNCHANGED mainVars
    BY <1>12 DEF Worker, Acquire, Fetch, CloseReady, Release, WorkerDone, Step, Terminated, vars
  <2> QED BY <1>2, <1>3, <2>1 DEF ChunksWritten, mainVars
<1> QED BY <1>5, <1>6, <1>7, <1>8, <1>9, <1>10, <1>11, <1>12 DEF Next, Main

(* The invariant that TLC checks holds for all jobs: with what the caller   *)
(* and the goroutines keep goes what the caller has written.                *)
THEOREM InductiveInvariant == Spec => []IInv
<1>1. Init => IInv
  BY InitCallInv, InitChunksWritten DEF IInv, Init
<1>2. IInv /\ [Next]_vars => IInv'
  BY StepCallInv, StepChunksWritten, JobIsFixed DEF IInv
<1> QED BY <1>1, <1>2, PTL DEF Spec

(* The writer has received a prefix of the body, and the returned count is  *)
(* its length, whatever the local file and the server turn out to hold.     *)
THEOREM OutIsAPrefix == Spec => []OutIsAPrefixOfTheBody
<1>1. IInv => OutIsAPrefixOfTheBody
  BY DEF IInv, ChunksWritten
<1> QED BY <1>1, InductiveInvariant, PTL

(* A call that returns no error has written the body, all of it.            *)
THEOREM SuccessIsWhole == Spec => []SuccessIsTheWholeBody
<1>1. IInv => SuccessIsTheWholeBody
  <2> SUFFICES ASSUME IInv, pc = "returned", err = "nil" PROVE out = job.body
    BY DEF SuccessIsTheWholeBody
  <2>1. job \in Jobs
    BY DEF IInv
  <2>2. Len(out) = Len(job.body) /\ out = SubSeq(job.body, 1, Len(out))
    <3>1. Len(job.body) <= Len(out)
      BY <2>1, BodyFacts DEF IInv, ChunksWritten
    <3>2. Len(out) <= Len(job.body) /\ out = SubSeq(job.body, 1, Len(out))
      BY DEF IInv, ChunksWritten, OutIsAPrefixOfTheBody
    <3>3. Len(out) \in Nat /\ Len(job.body) \in Nat
      BY <2>1, BodyFacts, LenProperties DEF IInv, CallInv, TypeOK
    <3> QED BY <3>1, <3>2, <3>3
  <2> QED BY <2>1, <2>2, BodyFacts, SubSeqFull
<1> QED BY <1>1, InductiveInvariant, PTL

----------------------------------------------------------------------------
(* The refinement *)

(* A chunk that is accepted is delivered to the stream.                     *)
LEMMA DeliverStep ==
  ASSUME CallInv, target' = target, Status = "open", Status' = "open",
         i + c \in DOMAIN target.chunks, (i + c)' = i + c + 1,
         NEW data \in Seq(Byte), out' = out \o data,
         Len(data) = target.chunks[i + c].compLength, Verifies(i + c, data)
  PROVE  Stream!Deliver
<1>1. SubSeq(out', Len(out) + 1, Len(out')) = data
  BY AppendedSuffix DEF CallInv, TypeOK
<1> QED BY <1>1 DEF Stream!Deliver, Stream!Open, Stream!Gained, Verifies, Status

(* An error breaks the stream, inside the next chunk at most.               *)
LEMMA BreakStep ==
  ASSUME CallInv, target' = target, Status = "open", Status' = "failed",
         (i + c)' = i + c,
         NEW g \in Seq(Byte), out' = out \o g,
         \/ g = <<>>
         \/ i + c \in DOMAIN target.chunks /\ Len(g) < target.chunks[i + c].compLength
  PROVE  Stream!Break
<1>1. SubSeq(out', Len(out) + 1, Len(out')) = g
  BY AppendedSuffix DEF CallInv, TypeOK
<1> QED BY <1>1 DEF Stream!Break, Stream!Open, Stream!Gained, Status

LEMMA BreakWithoutBytes ==
  ASSUME CallInv, target' = target, Status = "open", Status' = "failed",
         (i + c)' = i + c, out' = out
  PROVE  Stream!Break
<1>1. out' = out \o <<>> /\ <<>> \in Seq(Byte)
  BY ConcatEmptySeq, EmptySeq DEF CallInv, TypeOK
<1> QED BY <1>1, BreakStep

LEMMA StreamInit == Init => Stream!Init
BY DEF Init, Begin, Stream!Init, target, Status

LEMMA StreamUnchanged ==
  ASSUME target' = target, (i + c)' = i + c, out' = out, Status' = Status
  PROVE  UNCHANGED Stream!vars
BY DEF Stream!vars, Status

LEMMA CopyLocalRefines == CallInv /\ CopyLocal => [Stream!Next]_Stream!vars
<1> SUFFICES ASSUME CallInv, CopyLocal PROVE [Stream!Next]_Stream!vars
  OBVIOUS
<1>1. /\ pc = "loop" /\ i \in DOMAIN plan /\ c' = c /\ c = 0 /\ err = "nil" /\ TypeOK
      /\ target' = target /\ i + c = i /\ i \in Nat
      /\ DOMAIN target.chunks = DOMAIN plan /\ plan[i].length = target.chunks[i].compLength
  <2>1. /\ pc = "loop" /\ i \in DOMAIN plan /\ c' = c /\ c = 0 /\ err = "nil" /\ TypeOK
        /\ target' = target
    BY DEF CopyLocal, AtChunk, SourcesLeft, CallInv, BetweenChunks, target
  <2>2. i \in Nat /\ ProperJob(job)
    BY <2>1 DEF TypeOK
  <2> QED BY <2>1, <2>2, JobFacts
<1>2. CASE pc' = "panic" /\ UNCHANGED <<i, written, err, out>>
  <2>1. (i + c)' = i + c /\ Status' = Status
    BY <1>1, <1>2 DEF Status
  <2> QED BY <1>1, <1>2, <2>1, StreamUnchanged
<1>3. ASSUME NEW data \in Seq(Byte),
             \/ Fail("local read") /\ UNCHANGED <<i, out, written>>
             \/ Len(data) = plan[i].length /\ RejectChunk(i, data) /\ UNCHANGED i
             \/ Len(data) = plan[i].length /\ AcceptChunk(i, data) /\ i' = i + 1
      PROVE  Stream!Next
  <2>4. CASE Fail("local read") /\ UNCHANGED <<i, out, written>>
    BY <1>1, <2>4, BreakWithoutBytes DEF Fail, Status, Stream!Next
  <2>5. CASE Len(data) = plan[i].length /\ RejectChunk(i, data) /\ UNCHANGED i
    <3>1. pc' = "wait" /\ err' \in {"digest", "write"}
      BY <1>1, <1>3, <2>5, ChunkSteps
    <3>2. PICK g \in Seq(Byte) : out' = out \o g /\ (g = <<>> \/ Len(g) < Len(data))
      BY <1>1, <1>3, <2>5, ChunkSteps
    <3> QED BY <1>1, <2>5, <3>1, <3>2, BreakStep DEF Status, Stream!Next
  <2>6. CASE Len(data) = plan[i].length /\ AcceptChunk(i, data) /\ i' = i + 1
    <3>1. /\ pc' = pc /\ err' = err /\ out' = out \o data /\ Verifies(i, data)
      BY <1>1, <1>3, <2>6, ChunkSteps
    <3> QED BY <1>1, <1>3, <2>6, <3>1, DeliverStep DEF Status, Stream!Next
  <2> QED BY <1>3, <2>4, <2>5, <2>6
<1> QED BY <1>2, <1>3, CopyLocalCases

LEMMA SplitRunRefines == CallInv /\ SplitRun => [Stream!Next]_Stream!vars
<1> SUFFICES ASSUME CallInv, SplitRun PROVE [Stream!Next]_Stream!vars
  OBVIOUS
<1> DEFINE n == i + c
<1>1. /\ pc = "split" /\ err = "nil" /\ TypeOK /\ target' = target /\ i' = i
      /\ c < RemoteRun(plan, run).count
  BY DEF SplitRun, CallInv, BetweenChunks, target
<1>2. n \in DOMAIN plan /\ plan[n].length \in Nat /\ plan[n].length > 0
  BY <1>1, SplitInRange
<1>3. DOMAIN target.chunks = DOMAIN plan /\ plan[n].length = target.chunks[n].compLength
  BY <1>1, <1>2, JobFacts DEF TypeOK
<1>4. c \in Nat /\ i \in Nat
  BY <1>1 DEF TypeOK
<1>5. CASE pc' = "panic" /\ UNCHANGED <<c, pos, written, err, out>>
  <2>1. (i + c)' = i + c /\ Status' = Status
    BY <1>1, <1>5 DEF Status
  <2> QED BY <1>1, <1>5, <2>1, StreamUnchanged
<1>6. ASSUME NEW data \in Seq(Byte), Len(data) = plan[n].length,
             RejectChunk(n, data), UNCHANGED c
      PROVE  Stream!Next
  <2>1. pc' = "wait" /\ err' \in {"digest", "write"}
    BY <1>1, <1>6, ChunkSteps
  <2>2. PICK g \in Seq(Byte) : out' = out \o g /\ (g = <<>> \/ Len(g) < Len(data))
    BY <1>1, <1>6, ChunkSteps
  <2> QED BY <1>1, <1>2, <1>3, <1>6, <2>1, <2>2, BreakStep DEF Status, Stream!Next
<1>7. ASSUME NEW data \in Seq(Byte), Len(data) = plan[n].length,
             AcceptChunk(n, data), c' = c + 1
      PROVE  Stream!Next
  <2>1. /\ pc' = pc /\ err' = err /\ out' = out \o data /\ Verifies(n, data)
    BY <1>1, <1>7, ChunkSteps
  <2>2. (i + c)' = i + c + 1
    BY <1>1, <1>4, <1>7
  <2> QED BY <1>1, <1>2, <1>3, <1>7, <2>1, <2>2, DeliverStep DEF Status, Stream!Next
<1> QED BY <1>5, <1>6, <1>7, SplitRunCases

LEMMA StepRefines == CallInv /\ [Next]_vars => [Stream!Next]_Stream!vars
<1> SUFFICES ASSUME CallInv, [Next]_vars PROVE [Stream!Next]_Stream!vars
  OBVIOUS
<1>1. i \in Nat /\ c \in Nat /\ out \in Seq(Byte) /\ ProperJob(job)
  BY DEF CallInv, TypeOK
<1>2. CASE Validate
  <2>1. target' = target /\ (i + c)' = i + c /\ out' = out /\ Status = "open"
    BY <1>2 DEF Validate, target, Status, CallInv, BetweenChunks
  <2>2. Status' \in {"open", "failed"}
    BY <1>2 DEF Validate, Status
  <2> QED BY <2>1, <2>2, StreamUnchanged, BreakWithoutBytes DEF Stream!Next
<1>3. CASE Launch
  <2>1. target' = target /\ (i + c)' = i + c /\ out' = out /\ Status' = Status
    BY <1>3 DEF Launch, target, Status
  <2> QED BY <2>1, StreamUnchanged
<1>4. CASE SkipEmpty
  <2>1. /\ i \in DOMAIN plan /\ plan[i].length = 0 /\ pc = "loop" /\ pc' = pc /\ err = "nil" /\ err' = err
        /\ c = 0 /\ c' = c /\ i' = i + 1 /\ out' = out /\ target' = target
    BY <1>4 DEF SkipEmpty, AtChunk, SourcesLeft, CallInv, BetweenChunks, target
  <2>2. i \in DOMAIN target.chunks /\ target.chunks[i].compLength = 0
    BY <1>1, <2>1, JobFacts
  <2>3. i + c = i /\ (i + c)' = i + c + 1 /\ Status = "open" /\ Status' = Status
    BY <1>1, <2>1 DEF Status
  <2>4. Stream!SkipEmpty
    BY <2>1, <2>2, <2>3 DEF Stream!SkipEmpty, Stream!Open
  <2> QED BY <2>4 DEF Stream!Next
<1>5. CASE AwaitRun
  <2>1. /\ target' = target /\ i' = i /\ c = 0 /\ out' = out /\ Status = "open"
    BY <1>5 DEF AwaitRun, AtChunk, SourcesLeft, target, Status, CallInv, BetweenChunks
  <2>2. \/ Status' = "failed" /\ c' = c
        \/ Status' = "open" /\ c' = 0
    BY <1>5, <2>1 DEF AwaitRun, AtChunk, SourcesLeft, Status, Fail
  <2>3. (i + c)' = i + c
    BY <2>1, <2>2
  <2> QED BY <2>1, <2>2, <2>3, StreamUnchanged, BreakWithoutBytes DEF Stream!Next
<1>6. CASE NextAfterRun
  <2>1. target' = target /\ i' = i + c /\ c' = 0 /\ out' = out /\ Status' = Status
    BY <1>6 DEF NextAfterRun, Advance, target, Status
  <2> QED BY <1>1, <2>1, StreamUnchanged
<1>7. CASE EndOfSources
  <2>1. /\ target' = target /\ (i + c)' = i + c /\ out' = out /\ c = 0
        /\ Status = "open" /\ Status' = "complete"
        /\ i <= Len(plan) + 1 /\ i \notin DOMAIN plan
    BY <1>7 DEF EndOfSources, SourcesLeft, target, Status, CallInv, BetweenChunks
  <2>2. i \in Nat \ {0} /\ Len(plan) \in Nat /\ DOMAIN plan = 1 .. Len(plan)
        /\ Len(target.chunks) = Len(plan)
    BY <1>1, JobFacts DEF CallInv, TypeOK
  <2>3. i + c = Len(target.chunks) + 1
    BY <2>1, <2>2
  <2> QED BY <2>1, <2>3 DEF Stream!Next, Stream!Complete, Status
<1>8. CASE Return
  <2>1. target' = target /\ (i + c)' = i + c /\ out' = out /\ Status' = Status
    BY <1>8 DEF Return, WorkersDone, target, Status
  <2> QED BY <2>1, StreamUnchanged
<1>9. CASE \E k \in Runs : Worker(k)
  <2>1. UNCHANGED <<job, mainVars>>
    BY <1>9 DEF Worker, Acquire, Fetch, CloseReady, Release, WorkerDone, Step
  <2>2. target' = target /\ (i + c)' = i + c /\ out' = out /\ Status' = Status
    BY <2>1 DEF mainVars, target, Status
  <2> QED BY <2>2, StreamUnchanged
<1>10. CASE Terminated \/ UNCHANGED vars
  <2>1. target' = target /\ (i + c)' = i + c /\ out' = out /\ Status' = Status
    BY <1>10 DEF Terminated, vars, mainVars, target, Status
  <2> QED BY <2>1, StreamUnchanged
<1> QED BY <1>2, <1>3, <1>4, <1>5, <1>6, <1>7, <1>8, <1>9, <1>10,
           CopyLocalRefines, SplitRunRefines DEF Next, Main

(* For every job AssembleBody implements VerifiedStream: the writer gets    *)
(* the chunks of the target in order, each after its digest was compared,   *)
(* and a nil error only after the last of them.                             *)
THEOREM RefinesVerifiedStream == Spec => ImplementsVerifiedStream
BY StreamInit, StepRefines, CallInvariant, PTL
   DEF Spec, ImplementsVerifiedStream, Stream!Spec
=============================================================================

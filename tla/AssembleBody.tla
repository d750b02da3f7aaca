---------------------------- MODULE AssembleBody ----------------------------
(***************************************************************************)
(* DeltaPlan.AssembleBody (internal/zchunk/download.go): the body of the   *)
(* target file is written to out in order by the calling goroutine, from   *)
(* chunks read from the local body and from ranges that one goroutine per  *)
(* remote run fetches, at most FetchConcurrency at a time.                 *)
(*                                                                         *)
(* A job is one call: the target index, the plan, the bodies the local     *)
(* file may turn out to have when it is read, the contents the server may  *)
(* hold when it answers a range request, the offset of the body in those,  *)
(* and whether reads, requests and writes may fail outright.  Runs are     *)
(* named by their first chunk.                                             *)
(*                                                                         *)
(* What the calling goroutine does with one chunk (read, verify, write) is *)
(* one step: no other goroutine touches out, the local body or the         *)
(* reused local-read buffer.                                               *)
(***************************************************************************)
EXTENDS Delta, FiniteSets

CONSTANTS
  Jobs,                \* the calls under study
  Byte,                \* the bytes bodies are made of
  KnownChecksumTypes,  \* the types ChecksumType.Size accepts
  Sum(_, _),           \* ChecksumType.Sum: the digest of some bytes
  FetchConcurrency     \* defaultFetchConcurrency (4 in the code)

Plans == Seq([local : BOOLEAN, offset : Nat, length : Nat])

(* The plan has been produced from the target, as the doc comment demands:  *)
(* here only that its sources match the target's chunks one by one.  The    *)
(* lengths are whatever the target's header gives, any uint64 each.         *)
ProperJob(j) ==
  /\ j.plan \in Plans
  /\ DOMAIN j.plan = DOMAIN j.target.chunks
  /\ Len(j.plan) = Len(j.target.chunks)
  /\ \A i \in DOMAIN j.plan :
       /\ j.plan[i].length = j.target.chunks[i].compLength
       /\ j.plan[i].length < Word
  /\ j.localBodies \in SUBSET Seq(Byte)
  /\ j.contents \in SUBSET Seq(Byte)
  /\ j.base \in Nat
  /\ j.faulty \in BOOLEAN

ASSUME JobsAssumption == \A j \in Jobs : ProperJob(j)

(* No int64 is that large.                                                  *)
Overflows(n) == 2 * n >= Word

(* The body is made of the target's chunks, as far as there are such chunks,*)
(* and a digest stands for the chunk it was computed from: no other bytes   *)
(* of that length have it.                                                  *)
ASSUME BodyAssumption ==
  \A j \in Jobs :
    LET lens == CompLengths(j.target)
        off  == Offsets(lens)
    IN  /\ j.body \in Seq(Byte)
        /\ Len(j.body) <= Total(lens)
        /\ \A n \in NonEmpty(j.target) : ~Overflows(lens[n]) =>
             \A data \in [1 .. lens[n] -> Byte] :
               Sum(j.target.ckType, data) = j.target.chunks[n].digest =>
                 /\ off[n + 1] <= Len(j.body)
                 /\ data = SubSeq(j.body, off[n] + 1, off[n + 1])

ASSUME ConcurrencyAssumption == FetchConcurrency \in Nat \ {0}

VARIABLES
  job,      \* the arguments of the call
  pc,       \* where the calling goroutine is
  i,        \* the loop variable: the next position in Sources
  run,      \* the run being split, in "split"
  c,        \* chunks of that run already written; 0 outside of a run
  pos,      \* bytes of that run already consumed, in "split"
  written,  \* the count AssembleBody returns
  err,      \* the error it returns
  out,      \* the bytes the writer has received
  worker,   \* where each run's goroutine is
  results,  \* results[k]: the bytes or the error of run k
  sem,      \* len(sem): the tokens in the semaphore channel
  wg        \* the counter of the WaitGroup

mainVars   == <<pc, i, run, c, pos, written, err, out>>
workerVars == <<worker, results, sem, wg>>
vars       == <<job, mainVars, workerVars>>

plan   == job.plan
target == job.target
Runs   == RunStarts(plan)

NoResult == [data |-> <<>>, err |-> FALSE]

Errors == {"nil", "checksum type", "local read", "fetch", "digest", "write"}

----------------------------------------------------------------------------
(* The call *)

Begin ==
  /\ pc = "called"
  /\ i = 1 /\ run = 1 /\ c = 0 /\ pos = 0
  /\ written = 0 /\ err = "nil" /\ out = <<>>
  /\ worker  = [k \in Runs |-> "none"]
  /\ results = [k \in Runs |-> NoResult]
  /\ sem = 0 /\ wg = 0

Init == job \in Jobs /\ Begin

(* The checksum type is validated before any goroutine is started and       *)
(* before the deferred wg.Wait is in place.                                 *)
Validate ==
  /\ pc = "called"
  /\ IF target.ckType \in KnownChecksumTypes
     THEN pc' = "launch" /\ UNCHANGED err
     ELSE pc' = "returned" /\ err' = "checksum type"
  /\ UNCHANGED <<job, i, run, c, pos, written, out, workerVars>>

(* wg.Add(1); go func(k) ... for the runs in order, then the loop.          *)
Launch ==
  /\ pc = "launch"
  /\ LET pending == {k \in Runs : worker[k] = "none"}
     IN  IF pending = {}
         THEN pc' = "loop" /\ UNCHANGED <<worker, wg>>
         ELSE \E k \in pending :
                /\ \A l \in pending : k <= l
                /\ worker' = [worker EXCEPT ![k] = "started"]
                /\ wg' = wg + 1
                /\ UNCHANGED pc
  /\ UNCHANGED <<job, i, run, c, pos, written, err, out, results, sem>>

----------------------------------------------------------------------------
(* One goroutine per run *)

Step(k, from, to) ==
  /\ worker[k] = from
  /\ worker' = [worker EXCEPT ![k] = to]
  /\ UNCHANGED <<job, mainVars>>

(* Fault: the semaphore channel is made one place too large.                *)
RoomForOneMore == sem <= FetchConcurrency

Room == sem < FetchConcurrency

(* sem <- struct{}{} blocks while the channel is full.                      *)
Acquire(k) ==
  /\ Step(k, "started", "fetching")
  /\ Room
  /\ sem' = sem + 1
  /\ UNCHANGED <<results, wg>>

(* The answers to run k's request, which offsetRange has moved to the body: *)
(* the bytes of some content the server may hold, fewer than asked for      *)
(* where it ends; or, from a server that does not keep to the request, all  *)
(* of it (httprange.go hands on whatever a 206 response holds); or an error.*)
Answers(k) ==
  LET r == RemoteRun(plan, k)
  IN  {[data |-> Slice(b, Int64(job.base + r.offset), r.length), err |-> FALSE] :
         b \in job.contents}
        \cup (IF job.faulty
              THEN {[data |-> b, err |-> FALSE] : b \in job.contents}
                     \cup {[data |-> <<>>, err |-> TRUE]}
              ELSE {})

(* Fault: the length of the answer is not compared with the run's.          *)
FailedUnchecked(k, a) == a.err

Failed(k, a) == a.err \/ Len(a.data) # RemoteRun(plan, k).length

(* results[k] = runResult{data, err}; a wrong length is an error.           *)
Fetch(k) ==
  /\ Step(k, "fetching", "fetched")
  /\ \E a \in Answers(k) :
       results' = [results EXCEPT ![k] = [data |-> a.data, err |-> Failed(k, a)]]
  /\ UNCHANGED <<sem, wg>>

(* close(ready[k]) *)
CloseReady(k) ==
  /\ Step(k, "fetched", "ready")
  /\ UNCHANGED <<results, sem, wg>>

(* Fault: the token is given back only when the fetch succeeded.            *)
TokensBackOnSuccess(k) == IF results[k].err THEN 0 ELSE 1

TokensBack(k) == 1

(* The deferred <-sem, then the deferred wg.Done().                         *)
Release(k) ==
  /\ Step(k, "ready", "released")
  /\ sem' = sem - TokensBack(k)
  /\ UNCHANGED <<results, wg>>

WorkerDone(k) ==
  /\ Step(k, "released", "done")
  /\ wg' = wg - 1
  /\ UNCHANGED <<results, sem>>

Worker(k) ==
  Acquire(k) \/ Fetch(k) \/ CloseReady(k) \/ Release(k) \/ WorkerDone(k)

Settled == {"ready", "released", "done"}

(* Fault: the results are looked at without waiting for the channel.        *)
ReadyClosedNot(k) == TRUE

ReadyClosed(k) == worker[k] \in Settled

----------------------------------------------------------------------------
(* The loop over Sources *)

(* return written, err: the deferred wg.Wait still has to be passed.        *)
Fail(e) == pc' = "wait" /\ err' = e

(* Fault: the bytes are taken for the chunk if they are as many.            *)
VerifiesLength(n, data) == Len(data) = target.chunks[n].compLength

Verifies(n, data) == Sum(target.ckType, data) = target.chunks[n].digest

(* verifyWriteChunk on chunk n, when it succeeds.                           *)
AcceptChunk(n, data) ==
  /\ Verifies(n, data)
  /\ out' = out \o data
  /\ written' = written + Len(data)
  /\ UNCHANGED <<pc, err>>

(* verifyWriteChunk when it fails: a digest mismatch writes nothing; a      *)
(* failing Write may have taken some of the bytes, which written counts.    *)
RejectChunk(n, data) ==
  \/ /\ ~Verifies(n, data)
     /\ Fail("digest")
     /\ UNCHANGED <<out, written>>
  \/ /\ Verifies(n, data)
     /\ job.faulty
     /\ \E m \in 0 .. Len(data) - 1 :
          out' = out \o SubSeq(data, 1, m) /\ written' = written + m
     /\ Fail("write")

(* Fault: the loop ends one chunk early.                                    *)
SourcesLeftButOne == i + 1 \in DOMAIN plan

SourcesLeft == i \in DOMAIN plan

AtChunk == pc = "loop" /\ SourcesLeft

(* An empty chunk: nothing to copy, fetch or write.                         *)
SkipEmpty ==
  /\ AtChunk /\ plan[i].length = 0
  /\ i' = i + 1
  /\ UNCHANGED <<job, pc, run, c, pos, written, err, out, workerVars>>

(* What local.ReadAt may read: bytes of a content the file may have, short  *)
(* where the file ends, or nothing.                                         *)
LocalReads ==
  {Slice(b, Int64(plan[i].offset), plan[i].length) : b \in job.localBodies}
    \cup (IF job.faulty THEN {<<>>} ELSE {})

(* Memory is not modelled, but make panics for what no int64 holds.         *)
CopyLocal ==
  /\ AtChunk /\ plan[i].length > 0 /\ plan[i].local
  /\ \/ /\ Overflows(plan[i].length)
        /\ pc' = "panic"
        /\ UNCHANGED <<i, written, err, out>>
     \/ /\ ~Overflows(plan[i].length)
        /\ \E data \in LocalReads :
             \/ /\ Len(data) # plan[i].length
                /\ Fail("local read")
                /\ UNCHANGED <<i, out, written>>
             \/ /\ Len(data) = plan[i].length
                /\ RejectChunk(i, data)
                /\ UNCHANGED i
             \/ /\ Len(data) = plan[i].length
                /\ AcceptChunk(i, data)
                /\ i' = i + 1
  /\ UNCHANGED <<job, run, c, pos, workerVars>>

(* runAt[i]: the run that starts at i, or the map's zero value, the first   *)
(* run, if none does.                                                       *)
RunAt(n) == IF n \in Runs THEN n ELSE CHOOSE k \in Runs : \A l \in Runs : k <= l

(* <-ready[k], then the error of the fetch if there is one.                 *)
AwaitRun ==
  /\ AtChunk /\ plan[i].length > 0 /\ ~plan[i].local
  /\ ReadyClosed(RunAt(i))
  /\ \/ /\ results[RunAt(i)].err
        /\ Fail("fetch")
        /\ UNCHANGED <<run, c, pos>>
     \/ /\ ~results[RunAt(i)].err
        /\ pc' = "split"
        /\ run' = RunAt(i) /\ c' = 0 /\ pos' = 0
        /\ UNCHANGED err
  /\ UNCHANGED <<job, i, written, out, workerVars>>

(* data[low:high]: past the end of data it shows what the array that holds  *)
(* data has there.                                                          *)
Sliced(data, low, high) ==
  {SubSeq(data \o spare, low + 1, high) : spare \in [1 .. high - Len(data) -> Byte]}

(* data[pos : pos+length] of the run's bytes is chunk i + c of the target.  *)
(* Slicing panics if pos+length has wrapped, and past the end of the array, *)
(* which may be the end of the bytes.                                       *)
SplitRun ==
  /\ pc = "split" /\ c < RemoteRun(plan, run).count
  /\ LET bytes == results[run].data
         high  == Int64(pos + plan[i + c].length)
     IN  \/ /\ high < pos \/ high > Len(bytes)
            /\ pc' = "panic"
            /\ UNCHANGED <<c, pos, written, err, out>>
         \/ /\ high >= pos
            /\ pos' = high
            /\ \E data \in Sliced(bytes, pos, high) :
                 \/ RejectChunk(i + c, data) /\ UNCHANGED c
                 \/ AcceptChunk(i + c, data) /\ c' = c + 1
  /\ UNCHANGED <<job, i, run, workerVars>>

(* Fault: i advances by one chunk, whatever the run's count.                *)
AdvanceByOne == 1

Advance == RemoteRun(plan, run).count

NextAfterRun ==
  /\ pc = "split" /\ c = RemoteRun(plan, run).count
  /\ pc' = "loop"
  /\ i' = i + Advance /\ c' = 0
  /\ UNCHANGED <<job, run, pos, written, err, out, workerVars>>

EndOfSources ==
  /\ pc = "loop" /\ ~SourcesLeft
  /\ pc' = "wait"
  /\ UNCHANGED <<job, i, run, c, pos, written, err, out, workerVars>>

(* Fault: the call does not wait for the goroutines after an error.         *)
WorkersDoneOrError == err # "nil" \/ wg = 0

WorkersDone == wg = 0

(* The deferred wg.Wait: no goroutine outlives the call.  A panic passes it *)
(* too, then ends the process.                                              *)
Return ==
  /\ pc = "wait" /\ WorkersDone
  /\ pc' = "returned"
  /\ UNCHANGED <<job, i, run, c, pos, written, err, out, workerVars>>

Main ==
  \/ Validate \/ Launch \/ SkipEmpty \/ CopyLocal \/ AwaitRun
  \/ SplitRun \/ NextAfterRun \/ EndOfSources \/ Return

Terminated ==
  /\ pc \in {"returned", "panic"}
  /\ \A k \in Runs : worker[k] \in {"none", "done"}
  /\ UNCHANGED vars

Next == Main \/ (\E k \in Runs : Worker(k)) \/ Terminated

Spec == Init /\ [][Next]_vars

(* The Go scheduler does not idle while a goroutine can run, and a request  *)
(* that was sent is answered or fails: the latter is up to the RangeReader. *)
Fairness == WF_vars(Main \/ \E k \in Runs : Worker(k))

FairSpec == Spec /\ Fairness

----------------------------------------------------------------------------
(* Properties *)

TypeOK ==
  /\ ProperJob(job)
  /\ pc \in {"called", "launch", "loop", "split", "wait", "returned", "panic"}
  /\ i \in Nat \ {0} /\ run \in Nat /\ c \in Nat /\ pos \in Nat
  /\ written \in Nat /\ err \in Errors /\ out \in Seq(Byte)
  /\ worker \in [Runs -> {"none", "started", "fetching", "fetched", "ready", "released", "done"}]
  /\ results \in [Runs -> [data : Seq(Byte), err : BOOLEAN]]
  /\ sem \in Nat /\ wg \in Nat

(* At most defaultFetchConcurrency range requests are in flight at once     *)
(* (download.go:19-21), however the goroutines interleave.                  *)
FetchBound ==
  Cardinality({k \in Runs : worker[k] = "fetching"}) <= FetchConcurrency

(* Once AssembleBody has returned, also with an early error, every          *)
(* goroutine it started has ended: "Wait for all workers before returning,  *)
(* even on an early error, so none outlives the call" (download.go:80-82).  *)
NoWorkerOutlivesTheCall ==
  pc = "returned" =>
    \A k \in Runs : worker[k] = IF err = "checksum type" THEN "none" ELSE "done"

(* The loop reads results[k], unlocked, only for the run that starts at its *)
(* position, after that run's goroutine wrote it for the last time, and     *)
(* only if it is as long as the run (download.go:117-128).                  *)
SplitReadsASettledResult ==
  pc = "split" =>
    /\ run = i /\ run \in Runs
    /\ worker[run] \in Settled
    /\ ~results[run].err
    /\ Len(results[run].data) = RemoteRun(plan, run).length

(* Whatever the server answers, be it too few bytes or too many, the call   *)
(* panics (download.go:103, 129) only for what the target's header says: a  *)
(* length, or the sum of a run's lengths, that no int64 holds.              *)
PanicsOnlyOnOverflow ==
  pc = "panic" =>
    IF plan[i].local THEN Overflows(plan[i].length) ELSE Overflows(RunLength(plan, run))

(* A run "is fetched in one request and split back into its constituent     *)
(* chunks" (download.go:24-26) or the call returns an error: the slice      *)
(* expression that splits it (download.go:129) does not panic.              *)
NeverPanics == pc # "panic"

(* The writer has received a prefix of the target's body at all times, be   *)
(* the local file and the server honest or not, and the returned count is   *)
(* the number of bytes it received, a partial write included                *)
(* (download.go:40-48).                                                     *)
OutIsAPrefixOfTheBody ==
  /\ Len(out) <= Len(job.body)
  /\ out = SubSeq(job.body, 1, Len(out))
  /\ written = Len(out)

(* A nil error means that the whole body has been written.                  *)
SuccessIsTheWholeBody == pc = "returned" /\ err = "nil" => out = job.body

(* The local chunks still are what the plan took them for, the server holds *)
(* the target file, whose body an int64 measures, and nothing fails.        *)
Honest ==
  /\ ~job.faulty
  /\ Fits(Lengths(plan))
  /\ target.ckType \in KnownChecksumTypes
  /\ \A b \in job.contents : Slice(b, job.base, Len(job.body)) = job.body
  /\ \A n \in DOMAIN plan, b \in job.localBodies :
       plan[n].local /\ plan[n].length > 0 =>
         Verifies(n, Slice(b, Int64(plan[n].offset), plan[n].length))

(* With honest sources the call delivers the body: the runs, their          *)
(* splitting and the plan's offsets fit together.                           *)
HonestCallDelivers ==
  Honest => <>(pc = "returned" /\ err = "nil" /\ out = job.body)

(* The call returns, after an error too, or panics: no goroutine waits      *)
(* forever for a semaphore token, a ready channel or the WaitGroup.         *)
Termination == <>(pc \in {"returned", "panic"})

(* The caller's view of the call so far.                                    *)
Status == IF err # "nil" THEN "failed"
          ELSE IF pc \in {"wait", "returned"} THEN "complete"
          ELSE "open"

Stream == INSTANCE VerifiedStream WITH
  Targets <- {j.target : j \in Jobs},
  next    <- i + c,
  status  <- Status

(* What AssembleBody promises its caller: the target's chunks, verified, in *)
(* order, or a prefix of them and an error.                                 *)
ImplementsVerifiedStream == Stream!Spec

----------------------------------------------------------------------------
(* The inductive invariant *)

Offs == Offsets(Lengths(plan))

(* No goroutine exists before the launch, every run has one after it.       *)
Launched ==
  /\ pc = "called" => \A k \in Runs : worker[k] = "none"
  /\ pc \in {"loop", "split", "wait"} => \A k \in Runs : worker[k] # "none"
  /\ err = "checksum type" => pc = "returned"

HoldsToken == {"fetching", "fetched", "ready"}

(* The semaphore holds one token for each goroutine between its two ends.   *)
TokensHeld ==
  /\ sem = Cardinality({k \in Runs : worker[k] \in HoldsToken})
  /\ sem <= FetchConcurrency

Alive == {"started", "fetching", "fetched", "ready", "released"}

(* The WaitGroup counts the goroutines that have not called Done.           *)
WaitGroupCounts == wg = Cardinality({k \in Runs : worker[k] \in Alive})

(* A result that has been stored is an error or as long as its run.         *)
ResultsSettled ==
  \A k \in Runs :
    worker[k] \in {"fetched", "ready", "released", "done"} =>
      results[k].err \/ Len(results[k].data) = RemoteRun(plan, k).length

(* Between chunks no error is pending, and a chunk to fetch starts a run.   *)
BetweenChunks ==
  /\ pc \in {"called", "launch", "loop", "split"} => err = "nil"
  /\ pc \in {"called", "launch", "loop"} =>
       /\ c = 0
       /\ i <= Len(plan) + 1
       /\ i \in DOMAIN plan /\ Remote(plan, i) => i \in Runs

(* Inside a run pos is the length of the chunks already written, an int64.  *)
InsideRun ==
  pc = "split" =>
    /\ run + c <= RunEnd(plan, run)
    /\ pos = Offs[run + c] - Offs[run]
    /\ ~Overflows(pos)

CallInv ==
  /\ TypeOK
  /\ Launched
  /\ TokensHeld
  /\ WaitGroupCounts
  /\ ResultsSettled
  /\ BetweenChunks
  /\ SplitReadsASettledResult
  /\ InsideRun
  /\ NoWorkerOutlivesTheCall
  /\ PanicsOnlyOnOverflow

(* The chunks before i + c have been written, and nothing of the others     *)
(* unless the call fails; without an error the loop ends behind the last.   *)
ChunksWritten ==
  /\ OutIsAPrefixOfTheBody
  /\ err = "nil" => i + c \in 1 .. Len(plan) + 1 /\ Len(out) = Offs[i + c]
  /\ err = "nil" /\ pc \in {"wait", "returned"} => i + c = Len(plan) + 1

IInv == job \in Jobs /\ CallInv /\ ChunksWritten
=============================================================================

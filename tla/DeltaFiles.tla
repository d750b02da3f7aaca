----------------------------- MODULE DeltaFiles -----------------------------
(***************************************************************************)
(* Every pair of files, grown chunk by chunk, for the planning operators of *)
(* Delta.  A chunk is its compressed bytes and the digest is ideal: the     *)
(* bytes themselves.                                                        *)
(***************************************************************************)
EXTENDS Delta, FiniteSets, SequencesExt

CONSTANTS Blobs,      \* the compressed chunks files are made of
          MaxLocal,   \* bound: chunks of the local file
          MaxTarget   \* bound: chunks of the target file

(* The bytes of chunks.                                                     *)
Bytes == UNION {{b[k] : k \in DOMAIN b} : b \in Blobs}

ASSUME BlobsAssumption ==
  Blobs \subseteq Seq(Bytes) /\ MaxLocal \in Nat /\ MaxTarget \in Nat

VARIABLES local, target  \* the two files, as sequences of chunks

vars == <<local, target>>

IndexOf(file) ==
  [ckType |-> "SHA256",
   chunks |-> [i \in DOMAIN file |->
                 [digest |-> file[i], compLength |-> Len(file[i])]]]

Body(file) == FlattenSeq(file)

Init == local = <<>> /\ target = <<>>

AddLocal ==
  /\ Len(local) < MaxLocal
  /\ \E b \in Blobs : local' = Append(local, b)
  /\ UNCHANGED target

AddTarget ==
  /\ Len(target) < MaxTarget
  /\ \E b \in Blobs : target' = Append(target, b)
  /\ UNCHANGED local

Complete ==
  /\ Len(local) = MaxLocal /\ Len(target) = MaxTarget
  /\ UNCHANGED vars

Next == AddLocal \/ AddTarget \/ Complete

Spec == Init /\ [][Next]_vars

plan == PlanDelta(IndexOf(local), IndexOf(target))

----------------------------------------------------------------------------
(* The inductive invariant; what the properties say of the two files is     *)
(* proved of any two sequences of chunks.                                   *)
FilesAreChunks == local \in Seq(Blobs) /\ target \in Seq(Blobs)

(* A source marked local, read from the local body at its offset and        *)
(* length, yields exactly the target chunk's bytes, although the offset was *)
(* computed from other chunks' lengths in another file (delta.go:42-54), as *)
(* long as the local file's lengths add up to an int64.                     *)
ReuseReadsTheChunk ==
  Fits(CompLengths(IndexOf(local))) =>
    \A i \in DOMAIN plan :
      plan[i].local =>
        Slice(Body(local), Int64(plan[i].offset), plan[i].length) = target[i]

(* One range request per run returns, back to back, the bytes of the run's  *)
(* chunks, so that splitting it by the chunk lengths yields each of them    *)
(* (download.go:23-32, 152-158), as long as the target's lengths add up to  *)
(* an int64.                                                                *)
RunReadsItsChunks ==
  Fits(Lengths(plan)) =>
    \A s \in RunStarts(plan) :
      LET run == RemoteRun(plan, s)
      IN  Slice(Body(target), run.offset, run.length)
            = Body(SubSeq(target, s, s + run.count - 1))

(* The runs cover every must-fetch chunk once and no other chunk, and two   *)
(* runs are never adjacent: no request could have been saved without        *)
(* asking for bytes that are not needed (download.go:143-161).              *)
RunsPartitionTheFetches ==
  LET covered(s) == s .. RunEnd(plan, s) - 1
  IN  /\ \A i \in DOMAIN plan :
           Cardinality({s \in RunStarts(plan) : i \in covered(s)})
             = IF Remote(plan, i) THEN 1 ELSE 0
      /\ \A s, t \in RunStarts(plan) : RunEnd(plan, s) # t

(* What delta-size reports is what a download would do: the chunks to fetch *)
(* are those that occur nowhere in the local file, the bytes to fetch are   *)
(* those its range requests ask for, and with the bytes to reuse they add   *)
(* up to the body (delta.go:78-100, main.go:181-202).  Sums that are too    *)
(* large are off by multiples of 2^64 and by nothing else.                  *)
BytesAccountedFor ==
  LET missing == {i \in DOMAIN target : target[i] # <<>> /\ target[i] \notin Range(local)}
      sizes   == [i \in DOMAIN target |-> Len(target[i])]
      report  == DeltaSize(plan)
  IN  /\ report.fetchChunks = Cardinality(missing)
      /\ report.fetchChunks + report.reuseChunks = Len(target)
      /\ report.fetch = Uint64(SumFunctionOnSet(sizes, missing))
      /\ report.fetch = Uint64(Requested(plan))
      /\ report.total = Uint64(Len(Body(target)))
=============================================================================

------------------------------- MODULE Delta -------------------------------
(***************************************************************************)
(* Delta planning (internal/zchunk/delta.go) and the grouping of the       *)
(* must-fetch chunks into range requests (remoteRuns in download.go).      *)
(*                                                                         *)
(* An index is [ckType, chunks]; an entry of chunks is                     *)
(* [digest, compLength], the two fields planning reads.  A nil local index *)
(* is an index without chunks: the code treats the two alike.  Positions   *)
(* count from 1 here and from 0 in the code; body offsets count from 0 in  *)
(* both.  Lengths and offsets are uint64 in an index and in a plan, int64  *)
(* in a request: their sums wrap as those do.                              *)
(***************************************************************************)
EXTENDS Integers, Sequences, Functions, RunningTotals

CONSTANT Word   \* the values of a uint64: 2^64

ASSUME WordAssumption == Word \in Nat \ {0}

Uint64(n) == n % Word

(* int64(n): the upper half of the uint64 values are the negative ones.     *)
Int64(n) == IF 2 * Uint64(n) < Word THEN Uint64(n) ELSE Uint64(n) - Word

(* Every sum over these lengths is an int64.                                *)
Fits(lens) == 2 * Total(lens) < Word

(* The chunks of an index as ReadIndex yields them.                         *)
ProperIndex(idx) ==
  /\ Len(idx.chunks) \in Nat /\ DOMAIN idx.chunks = 1 .. Len(idx.chunks)
  /\ \A n \in DOMAIN idx.chunks : idx.chunks[n].compLength \in Nat

CompLengths(idx) == [i \in DOMAIN idx.chunks |-> idx.chunks[i].compLength]
Lengths(plan)    == [i \in DOMAIN plan |-> plan[i].length]

(* ReadAt of at most length bytes at offset: short at the end of the body,  *)
(* nothing at a negative offset.                                            *)
Slice(body, offset, length) ==
  IF offset < 0 THEN <<>>
  ELSE SubSeq(body, offset + 1,
              IF offset + length <= Len(body) THEN offset + length ELSE Len(body))

----------------------------------------------------------------------------
(* Planning *)

TypeMismatch(local, target) ==
  /\ local.chunks # <<>>
  /\ local.ckType # target.ckType

NonEmpty(idx) == {j \in DOMAIN idx.chunks : idx.chunks[j].compLength > 0}

(* Fault: the offset is recorded after off was advanced past the chunk.     *)
ChunkOffsetLate(idx, i) == Uint64(Offsets(CompLengths(idx))[i + 1])

(* off, when the loop over the index is at chunk i.                         *)
ChunkOffset(idx, i) == Uint64(Offsets(CompLengths(idx))[i])

(* The map localOffsets: compressed digest of a non-empty local chunk to    *)
(* the body offset of its first occurrence.                                 *)
LocalOffsets(local) ==
  LET At(d) == {j \in NonEmpty(local) : local.chunks[j].digest = d}
  IN  [d \in {local.chunks[j].digest : j \in NonEmpty(local)} |->
         ChunkOffset(local, CHOOSE j \in At(d) : \A k \in At(d) : j <= k)]

(* The ChunkSource of target chunk i: an empty chunk is local at offset 0,  *)
(* a chunk whose digest is known locally is copied, any other is fetched    *)
(* from its offset in the target body.                                      *)
Source(local, target, i) ==
  LET e       == target.chunks[i]
      offsets == LocalOffsets(local)
      reused  == e.digest \in DOMAIN offsets
  IN  [local  |-> e.compLength = 0 \/ reused,
       offset |-> IF e.compLength = 0 THEN 0
                  ELSE IF reused THEN offsets[e.digest]
                  ELSE ChunkOffset(target, i),
       length |-> e.compLength]

(* DeltaPlan.Sources; defined when ~TypeMismatch(local, target).            *)
PlanDelta(local, target) ==
  [i \in DOMAIN target.chunks |-> Source(local, target, i)]

(* The sum over the sources that are local, or over those that are not.     *)
SumOver(plan, isLocal) ==
  Uint64(Total([i \in DOMAIN plan |->
                  IF plan[i].local = isLocal THEN plan[i].length ELSE 0]))

FetchBytes(plan) == SumOver(plan, FALSE)

(* Fault: what is not fetched is taken from the local file, all of it.      *)
ReuseBytesAll(plan) == SumOver(plan, TRUE) + SumOver(plan, FALSE)

ReuseBytes(plan) == SumOver(plan, TRUE)

(* What delta-size reports: the chunks and the bytes of each kind.          *)
DeltaSize(plan) ==
  LET Count(isLocal) ==
        Total([i \in DOMAIN plan |-> IF plan[i].local = isLocal THEN 1 ELSE 0])
  IN  [reuseChunks |-> Count(TRUE), fetchChunks |-> Count(FALSE),
       reuse |-> ReuseBytes(plan), fetch |-> FetchBytes(plan),
       total |-> Uint64(ReuseBytes(plan) + FetchBytes(plan))]

----------------------------------------------------------------------------
(* Range requests *)

Remote(plan, i) == ~plan[i].local /\ plan[i].length > 0

(* A remoteRun is named by the position of its first chunk (remoteRun.first).*)
RunStarts(plan) ==
  {i \in DOMAIN plan : Remote(plan, i) /\ (i = 1 \/ ~Remote(plan, i - 1))}

(* Fault: an empty chunk does not end the run it interrupts.                *)
RunChunksOverEmpty(plan, s) ==
  {i \in DOMAIN plan : s <= i /\ \A j \in s .. i : Remote(plan, j) \/ plan[j].length = 0}

(* The chunks a run covers: as long as chunks are remote without a gap.     *)
RunChunks(plan, s) ==
  {i \in DOMAIN plan : s <= i /\ \A j \in s .. i : Remote(plan, j)}

(* The position after the last chunk of the run: first + count.             *)
RunEnd(plan, s) ==
  CHOOSE e \in s + 1 .. Len(plan) + 1 :
    e - 1 \in RunChunks(plan, s) /\ e \notin RunChunks(plan, s)

(* Fault: the length of the last chunk of the run is left out.              *)
RunLengthShort(plan, s) ==
  Offsets(Lengths(plan))[RunEnd(plan, s) - 1] - Offsets(Lengths(plan))[s]

RunLength(plan, s) ==
  Offsets(Lengths(plan))[RunEnd(plan, s)] - Offsets(Lengths(plan))[s]

RemoteRun(plan, s) ==
  [offset |-> Int64(plan[s].offset),
   length |-> Int64(RunLength(plan, s)),
   count  |-> RunEnd(plan, s) - s]

(* What all the requests ask for.                                           *)
Requested(plan) == SumFunction([s \in RunStarts(plan) |-> RemoteRun(plan, s).length])
=============================================================================

--------------------------- MODULE MCAssembleBody ---------------------------
(***************************************************************************)
(* Calls of AssembleBody for TLC.  A file is a sequence of chunks; the      *)
(* digest is ideal.  The plan is the one PlanDelta makes.                   *)
(***************************************************************************)
EXTENDS AssembleBody, SequencesExt

MCByte == 1 .. 4
MCSum(t, data) == <<t, data>>

IndexOf(file, ck) ==
  [ckType |-> ck,
   chunks |-> [n \in DOMAIN file |->
                 [digest |-> MCSum(ck, file[n]), compLength |-> Len(file[n])]]]

(* The remote file: a header of one byte, which no chunk holds, and the body.*)
Content(body) == <<4>> \o body

(* A call for target, planned against local.                                *)
Job(local, file, localBodies, remoteBodies, faulty) ==
  [target |-> IndexOf(file, "SHA256"),
   plan   |-> PlanDelta(IndexOf(local, "SHA256"), IndexOf(file, "SHA256")),
   body   |-> FlattenSeq(file),
   localBodies  |-> localBodies,
   contents |-> {Content(b) : b \in remoteBodies},
   base     |-> Len(Content(<<>>)),
   faulty |-> faulty]

HonestJob(local, file) ==
  Job(local, file, {FlattenSeq(local)}, {FlattenSeq(file)}, FALSE)

(* Files change under the call: each read and each request may see the old  *)
(* or the new content, a shorter content, or fail.                          *)
HostileJob(local, file) ==
  LET body == FlattenSeq(file)
      kept == FlattenSeq(local)
  IN  Job(local, file, {kept, Reverse(kept)},
          {body, [n \in DOMAIN body |-> 4], SubSeq(body, 1, Len(body) - 1)}, TRUE)

(* A header may say of its chunks that they are of any length: here the     *)
(* chunks of file, which the server does not hold, said to be of lens.      *)
LyingJob(local, file, lens) ==
  LET idx  == IndexOf(file, "SHA256")
      said == [idx EXCEPT !.chunks =
                 [n \in DOMAIN file |->
                    [digest |-> idx.chunks[n].digest, compLength |-> lens[n]]]]
  IN  [Job(local, file, {FlattenSeq(local)}, {<<1, 2, 3, 1, 2, 3>>}, FALSE) EXCEPT
         !.target = said, !.plan = PlanDelta(IndexOf(local, "SHA256"), said)]

Blobs == {<<>>, <<1>>, <<2, 3>>}

(* Three runs, one of them of two chunks, around local and empty chunks.    *)
ThreeRuns == <<<<2>>, <<1>>, <<2, 3>>, <<3>>, <<>>, <<2>>>>

(* Every target of up to three chunks, and the longer one, with or without  *)
(* the local file holding the chunk <<1>> behind another one.               *)
HonestJobs ==
  {HonestJob(local, file) : local \in {<<>>, <<<<4>>, <<1>>>>},
                            file \in BoundedSeq(Blobs, 3) \cup {ThreeRuns}}

HostileJobs ==
  {HostileJob(<<<<4>>, <<1>>>>, ThreeRuns),
   HostileJob(<<>>, <<<<1>>, <<2, 3>>>>),
   HostileJob(<<<<1>>>>, <<<<1>>, <<1>>>>),
   [HonestJob(<<>>, <<<<1>>>>) EXCEPT !.target.ckType = "unknown"]}

(* Lengths whose sum wraps to 5, with the longest int64 passed at once or   *)
(* only by the second chunk; to 0; to -1.                                   *)
WrappingJobs ==
  {LyingJob(<<>>, <<<<1>>, <<2>>>>, <<63, 6>>),
   LyingJob(<<>>, <<<<1, 2, 3, 1, 2, 4>>, <<1>>>>, <<6, 63>>),
   LyingJob(<<>>, <<<<1>>, <<2>>>>, <<1, 63>>),
   LyingJob(<<>>, <<<<1>>, <<2>>>>, <<1, 62>>)}

(* The same, and a local chunk said to be longer than an int64 holds.       *)
LyingJobs == WrappingJobs \cup {LyingJob(<<<<1>>>>, <<<<1>>>>, <<63>>)}

MCJobs == HonestJobs \cup HostileJobs \cup LyingJobs
=============================================================================

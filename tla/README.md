# zchunk in TLA+

Models, model-checking configurations and proofs for `go-deltasync/zchunk`: a Go
implementation of the zchunk file format with a delta downloader. A zchunk file
is a header (lead, preface, index, signatures) followed by a body of
independently compressed chunks whose digests are in the index. A download
compares the remote index with that of a local file, copies the chunks that are
already there and asks the server for the others with HTTP range requests.

`PROJECT.json` is the machine-readable companion of this file: components, runs,
mutants (one plausible bug of the code per property, which TLC has to find), the
source lines of every definition, findings, hazards and theorems.

## 1. The system

| component | state it keeps | operations | module |
| --- | --- | --- | --- |
| **Body assembly** (`download.go`) | semaphore channel, one `ready` channel and one `runResult` per run, a WaitGroup; loop position, count, error; what the writer got | `AssembleBody`, its goroutines, `verifyWriteChunk` | `AssembleBody` |
| **Delta planning** (`delta.go`, `remoteRuns`) | none: functions of two indexes | `PlanDelta`, `FetchBytes`, `ReuseBytes`, `remoteRuns` | `Delta` |
| **Delta download** (`remote.go`, `httprange.go`, `download`, `delta-size` and `header` in `cmd/zchunk/main.go`) | files on disk, the server's file, the open local file, the fetched header | `openLocal`, `ReadRemoteHeader`, `ReadDetachedHeader`, `DownloadDelta(WithHeader)`, `reportDeltaSize`, `writeDetachedHeader` | `Download`, `ConcurrentDownload` |
| **Header layout** (`lead.go`, `preface.go`, `index.go`, `signatures.go`, `file.go`, `checksum.go`) | a reader's position and the structure it fills | `WriteFile`, `WriteDetachedHeader`, `Read*`, `parseHeader`, `VerifyHeader` | `Header` |
| **Compressed integers** (`zchunk.go`) | none | `AppendCompressedInt`, `ReadCompressedInt` | `CompressedInt` |
| **Archive** (`builder.go`, `extract.go`, `compress.go`, `create`, `extract`, `gen-zdict`) | index and body being built; body position, reused decoder buffers, output | `NewBuilder`, `AddChunk`, `create`, `Index.Extract`, `readChunk`, `collectChunkSamples`, `GenerateDict` | `Archive` |
| **Dictionary selection** (`zdict.go`) | dmer frequencies, sliding window and its score, selected content | `selectDictContent`, `bestSegment` | `DictSelect` |
| read-only commands (`info`, `delta-size`) | none | read and print | `delta-size` in `Download`; `info` reads like `Header`'s stream reader, its printing is not modelled |
| command line | none | flags, `parseCompression` | no state; `Archive` has the compressions that it knows |
| public package (`zchunk.go` at the root) | none | aliases and forwarding | not modelled |
| zstd codec, `BuildDict` (klauspost/compress) | external | | an ideal codec in `Archive` |

How they interact:

* `download` opens the local file (`openLocal`: stream reader over lead, preface,
  index and signatures), **truncates OUT**, reads the remote header by two range
  requests or from a detached header file, plans, writes the header verbatim with
  the embedded magic, and calls `AssembleBody` with the same writer and reader.
* `AssembleBody` shares `results` between the calling goroutine and the fetching
  ones, without a lock; closing `ready[k]` publishes `results[k]`.
* Files survive processes. The output of one command, complete or not, is the
  local copy, the header or the input of the next.
* `Index.Extract` shares one reused buffer per decoder with its own loop.

What is hard, and what makes each part correct:

* *Concurrency* is in `AssembleBody` only: results complete in any order and must
  be written in order; an early error must not leave goroutines behind; nobody may
  wait forever; at most four requests are in flight.
* *Failure and time* are in the download: requests fail or answer too little or
  too much, the server's file is replaced between two requests, writes are cut
  short, the process is killed, the user retries with whatever is on disk. Nothing
  may be written unverified, and exit status 0 must mean a complete file.
* *Offsets* of three kinds (in the body, in the local section, in the remote file)
  are computed from lengths in two different indexes and must fit together.
* *Layout*: sizes and counts bound the same bytes in several ways; three readers
  must agree on where the body begins.
* *Buffers and input boundaries* are what extract and create can get wrong:
  a decoder's buffer is overwritten by the next call, an input ends inside a chunk,
  after one, or at once.
* *Wrapping integers*: offsets and lengths are `uint64` in an index and `int64` in a
  request, scores are `uint32`; sums of lengths a header gives must be right as far
  as they can be measured.
* *Incremental scores*: the dictionary search updates a score byte by byte which
  has to stay equal to its definition.

## 2. Modules

```
VerifiedStream      the contract of a body reconstruction        (abstract)
RunningTotals       the sums of lengths over an index
Delta               the plan and the runs, as operators      EXTENDS RunningTotals
DeltaFiles          Delta over any two files of given chunks
AssembleBody        one call with its goroutines   EXTENDS Delta, implements VerifiedStream
Download            commands, files, server        EXTENDS Delta, uses VerifiedStream
ConcurrentDownload  Download + AssembleBody        EXTENDS Download, implements Download
CompressedInt       the integer codec
IntegerInput        every byte string, for the codec  EXTENDS CompressedInt
Header              writers and readers            EXTENDS CompressedInt
Archive             create, extract, gen-zdict     EXTENDS RunningTotals
DictSelect          the search for a dictionary

SequenceLemmas      parts of sequences, running totals, remainders, sums over sets, chunks in a
                    row, recursive functions
DeltaProofs         facts about Delta's operators  EXTENDS Delta, SequenceLemmas
DeltaFilesProofs    theorems                       EXTENDS DeltaFiles, DeltaProofs
AssembleBodyProofs  theorems                       EXTENDS AssembleBody, DeltaProofs
DownloadProofs      theorems                       EXTENDS ConcurrentDownload, DeltaProofs,
                                                   uses AssembleBodyProofs
HeaderProofs        theorems                       EXTENDS Header, IntegerInput, SequenceLemmas
ArchiveProofs       theorems                       EXTENDS Archive, SequenceLemmas
DictSelectProofs    theorems                       EXTENDS DictSelect, SequenceLemmas

MC*                 the instances that TLC checks; MCFiles: files for both downloads
```

Definitions whose comment starts with `Fault:` are the mutants: forms of the
definition next to them with one bug. No behaviour of a specification uses them.

### VerifiedStream and AssembleBody

`VerifiedStream` says what the writer sees: chunks of the target in order, each
after its digest matched, then completion; or failure with at most a part of one
more chunk. It knows nothing of plans, sources or goroutines.

`AssembleBody` has one variable per piece of the call's state: `sem` and `wg` are
the semaphore channel's fill and the WaitGroup's counter, `worker[k]` the place of
run `k`'s goroutine (`started`, `fetching` after the semaphore, `fetched` after
`results[k]` was stored, `ready` after the channel was closed, `released` after
the token was given back, `done` after `wg.Done`: the deferred calls in the order
they run), `pc`, `i`, `run`, `c`, `pos` the caller's place. `Launch` starts one
goroutine per step, `Acquire`, `Fetch`, `CloseReady`, `Release`, `WorkerDone` are
the goroutine, `SkipEmpty`, `CopyLocal`, `AwaitRun`, `SplitRun`, `NextAfterRun`,
`EndOfSources`, `Return` the caller. What the caller does with one chunk is one
step, because no other goroutine touches what it uses. A run is named by its first
chunk. The local file may have any of a set of contents each time it is read, the
server each time it answers; an answer is the range, what there is of it, all of
the file, or an error. `Verifies` compares digests; the writer takes all of a
write or, with an error, less. The lengths in a plan are what the target's header says,
any `uint64`. So the sums of `remoteRuns` and of the split wrap as `int64` in the model
too, `make` and a slice whose end has wrapped or is past the array are a `panic`, and a
slice that ends past the fetched bytes, but within the array that holds them, shows
whatever stands there (`Sliced`). A panic ends the process, after the deferred `wg.Wait`.

### Delta and DeltaFiles

`PlanDelta`, its sums and `remoteRuns` over records for index entries. Lengths and
offsets are `Uint64` in an index and a plan and become `Int64` where the code
converts them: `Word` is 2^64 in the code and small in the runs, and every sum
wraps where the code's does. The running totals are recursive functions
(`Offsets`), not RECURSIVE operators, so that the provers can use them. The local
offset of a digest that occurs more than once is the first occurrence's; an empty
chunk is marked local without looking its digest up, and an empty local chunk
offers nothing to copy, as in the code. `Fits` says that a body is no longer than
an `int64` measures. That is what the code needs for its offsets to be right, and what it
never checks: a run of one byte more has a negative length. The properties of
`DeltaFiles` about offsets have it as a hypothesis, and `Honest` and `Quiet`, which say
when a call and a download must succeed, ask for it. The safety of a call does not
(`AssembleBody`); of the composition, see `LengthsAssumption` in section 4.

`DeltaFiles` chooses a local and a target file, sequences of blobs, and states what
plan and runs must be: its states are the pairs of files, its only step stutters.
`Blobs` are the compressed chunks; `BlobsAssumption` says only that they are
sequences. `MCDelta` gives it four of them.

### Download

A file is a sequence of units: lead, header (preface, index and signatures), then
one unit per byte of the body. One action per operation that can fail or let
another process, the server or a kill in: `Start`, `OpenLocal`, `Create`,
`ReadFile`, `EmitHeader`, `ReadDetachedHeader`, `FetchLead`, `FetchHeader`,
`Report`, `WriteHeader`, `SkipChunk`, `DeliverChunk`, `BreakBody`, `Abandon`,
`CompleteBody`, `CheckData`, `Close`. `delta-size` goes the way of `download`
without an OUT and ends in `Report`. The body is delivered chunk by chunk as the *verified
stream* that `AssembleBody` was shown to implement, with what a source may yield
(`ChunkData`) read from the local section or cut out of a whole answer to the
request of the chunk's run, at the run's absolute offset (`RunOffset`); `seen` collects what the
server has held since the body's requests began, because a chunk delivered now may
have been fetched at any time since. `Republish` and `Kill` are the surroundings.
A command that dies loses its memory and keeps its files. A missing path is an
empty file: opening the one and parsing the other both fail.

### ConcurrentDownload

The composition: the commands of `Download` with `AssembleBody`, instantiated under
the names `A!...`, in place of the abstract stream. `CallAssembleBody` is
`WriteHeader` with the call of `AssembleBody`; `StepOfBody` is any step of its
goroutines or of its caller, and what its writer gets is appended to OUT;
`BodyReturns` is the return into `DownloadDeltaWithHeader`. `Begin` is what a call
finds, whatever its arguments; `ProperJob` says what those have to be. A republication changes
what the running requests may be answered with, and a kill ends all goroutines at
once. `ImplementsDownload` is the refinement: with `pc` read as "check" or
"abandon" as soon as the caller only waits for its goroutines (`PcOfDownload`), every
behaviour is one of `Download`. What is checked of `Download` therefore holds of the program
with its goroutines. OUT does not name the local copy here, because `AssembleBody`
reads a local body that its own caller does not change; that clash is in
`Download`.

### CompressedInt and Header

`CompressedInt` is the codec with its group size (7 bits in the code) and longest
length (10 bytes) as parameters; arithmetic wraps at the width these leave to a
`uint64`, which is one bit of the last group. The loops are recursive functions: of
the group reached (`Reading`), of the groups accumulated (`Accumulated`), of the value
left to write (`Groups`). `IntegerInput` grows every byte string for them.

`Header` builds headers unit by unit as `buildHeader` does (an entry's second digest
only when the flag asks for it), and reads each file
with the three readers in turn: the stream reader (`extract`, `openLocal`, `info`,
`gen-zdict`), `ReadRemoteHeader` (first 89 bytes, then the header from an offset
computed from the *values* of the lead) and `ReadDetachedHeader`. One action reads
one field; a section that ends early, a count that lies, a digest that does not
match, are rejections. `EmptyOptional` names the one header that is accepted and
cannot be written again (the optional-elements flag with no element). A digest is as
many units as its size, each with the hash in its tag: what is misread as a digest,
or a digest cut and shifted, is not taken for one.

### Archive

`create` with its `Builder` chunk by chunk (`AddChunk` reads a chunk and acts on
`EOF` and `ErrUnexpectedEOF` like the code), one `Write` of the file that may be
cut anywhere. On its way the file may be damaged in its body (`DamageBody`: cut off
or a unit changed) and in its index (`DamageIndex`: a length or a digest changed,
which no reader but the remote ones would notice), or be one of another writer, with
uncompressed digests (`OtherWriter`). Then `extract` or `gen-zdict`, which share
`ReadChunk`, with the decoders' buffers explicit (`bufs`, `Buffer`): `data` is a
reference to a buffer, and what it shows is the buffer's content when it is used.
`gen-zdict` ends in `Train`, which fails or writes its OUT, whole or in part.

### DictSelect

`FirstWindow` and `Slide` are the loops of `bestSegment`, `active` and `score` its
incrementally kept multiset and sum; `Pick` is the body of the greedy loop.
Frequencies and scores wrap at `Word` (2^32 in the code), so a window's score is its
definition modulo `Word` in every state, and `NothingWraps` says where the two
properties that compare scores need it not to.

## 3. Runs

| run | instance | what it shows |
| --- | --- | --- |
| `delta` | every local file of up to 3 and target of up to 4 chunks over four blobs, one empty, repetitions included, with 12 values of a `uint64` | offsets read the right bytes, runs cover the fetches exactly once and are never adjacent, reported counts are what is requested |
| `assemble` | hostile sources: a target with three runs around local and empty chunks, one with nothing local, one all local, one of unknown checksum type; honest sources: every target of up to 3 chunks over three blobs and the one with three runs, with and without a local copy; lying headers: a run whose lengths wrap, at its first chunk or its second, to 5, 0 and -1, and a local chunk of such a length, with 64 values of a `uint64`; two tokens | safety, `IInv` (which includes `TypeOK`), refinement and termination under every interleaving; with honest sources the body arrives; a panic only for lengths that no `int64` holds |
| `assemble_overflow` | the runs whose lengths wrap | *violation*, see section 6 |
| `download` | three commands, one republication, one kill, failing requests and writes, paths that coincide | disk never holds what its header does not describe; only OUT changes, and a bad `--local` costs nothing |
| `download_quiet` | three commands, all combinations of local copy, detached header, OUT and four published files, nothing failing | the download equals the server's file, and fetches what `delta-size` reported |
| `download_concurrent` | one command with its goroutines, two runs, colliding chunk digests, a stale header, one republication, one kill | implements `Download`; exit 0 means the whole file; commands end |
| `download_resume` | one kill, one retry | *violation*, see section 6 |
| `compressed_int` | every byte string of up to 5 bytes of 3 bits | no bit lost, nothing that fits refused, shortest form written |
| `header` | about 5300 files: written by this code, one byte changed, or from other writers | written headers are read back, changes refused, what is accepted loses nothing and could be written again, readers agree |
| `header_trailing` | the foreign files | *violation*, see section 6 |
| `archive` | seven contents of up to 4 bytes, chunks of 1 to 3, three dictionaries, one damage to the body and one to the index, another writer's digests | index describes body; extract writes a prefix or all, and only whole chunks in order when the index changed; intact files are read; the dictionary is trained from the content, and OUT is kept until then; commands end |
| `dict_select` | every pair of samples of up to 3 and 5 bytes over two letters, four targets, sums modulo 4 | incremental score, best window, decreasing picks, end of the search |

### Bounds, and why they are enough

* *Chunks.* Three or four chunks give every pattern of local, remote and empty
  neighbours that a run's ends can meet, and a chunk repeated on either side; a
  target of six chunks has three runs in one call.
* *Goroutines.* Three goroutines on two tokens: one has to wait, and may get its
  token before or after the caller fails. More of them add no new relation between
  two; the theorems cover every number.
* *Commands.* Three commands and one kill or republication are enough for: make a
  file, spoil it, use what is left. Longer histories only reach files of the same
  kinds, and `DiskHoldsVerifiedPrefixes` says what those are.
* *Composition.* One command, two runs of which the first has two chunks, one token:
  the second request waits for the first, and each can be answered from either
  published file. More commands in a row are `Download`'s, which the refinement
  brings over.
* *Word.* Twelve values of a `uint64` with bodies of up to eight bytes: there are
  targets below, at and above the largest length that an `int64` measures. Modulo
  four, a dmer that fills both samples wraps, and so do sums over a window.
* *Three-bit bytes.* The codec's code depends on the group size and the longest
  length only through the constants, and the overflow test, the last group's one
  bit, is at the same place for both.
* *Headers.* None to two chunks, two digest sizes, flags of every kind: each
  loop runs zero times, once and twice, and each integer has one group or two.
* *Archive.* Chunk sizes 1 to 3 over contents of 0 to 4 bytes: an input that ends
  at a chunk's end, inside one, and before the first.

### Fairness

`AssembleBody` assumes weak fairness of *some* step of the call: the Go scheduler
does not idle while a goroutine can run. It does not favour any goroutine.
That a request which was sent is answered or fails is an assumption about the
`RangeReader`. `http.DefaultClient` has no timeout, so for the command line it is
an assumption about the server and TCP; without it `AssembleBody` does not return,
after an early error either, since it waits for its goroutines. `ConcurrentDownload`
assumes the same of the running process, goroutines included, and `Archive` of the
steps of a sequential program; nothing is assumed of users, servers or kills, and a
failing input or a damaged file is never forced. `Download` itself states no
fairness: its liveness is checked where its goroutines are.
`DictSelect` is a sequential loop.

Deadlock is checked in every run; the only states without a next command are those
where a model has an explicit stuttering step for "all done" (`Terminated`,
`Finished`, `Done`, `Complete`, `Full`).

## 4. Proofs

The theorems hold for every value of the constants: any number of chunks, runs,
goroutines, commands, files and paths, any lengths and contents. A run of section 3
shows the same property on a small instance.

| theorem | says | the code it is about |
| --- | --- | --- |
| *AssembleBodyProofs* | | |
| `InductiveInvariant` | `Spec => []IInv` | |
| `TypeCorrect` | `TypeOK`; neither the WaitGroup nor the semaphore goes below zero | `AssembleBody` |
| `FetchesBounded` | at most `FetchConcurrency` requests in flight | the semaphore |
| `WorkersEndBeforeTheCall` | a call that returned left no goroutine behind | `wg.Wait` |
| `SplitsSettledResults` | the unlocked read of `results[k]` sees a final and complete result | `close(ready[k])` |
| `PanicsNeedAnOverflow` | whatever the header and the server say, the caller panics only at a chunk or a run whose length no `int64` holds | `make` for a local chunk, the split of a run |
| `OutIsAPrefix` | the writer got a beginning of the body, whatever the sources gave | `verifyWriteChunk` |
| `SuccessIsWhole` | a call without an error wrote all of the body | `AssembleBody` |
| `RefinesVerifiedStream` | `Spec => Stream!Spec` under `next <- i + c`, `status <- Status` | |
| *DeltaFilesProofs* | | |
| `ReuseIsRight` | a source marked local reads exactly the target's chunk | `PlanDelta` |
| `RunsAreRight` | the range of a run is the bytes of its chunks, back to back | `remoteRuns` |
| `RunsAreAPartition` | the runs cover every chunk to fetch once, nothing else, and no two are adjacent | `remoteRuns` |
| `EveryByteIsAccountedFor` | what `delta-size` counts and adds up is what is missing, what the requests ask for and the whole body, modulo 2^64 | `FetchBytes`, `reportDeltaSize` |
| *DownloadProofs* | | |
| `InductiveInvariant` | `Spec => []IInv` | |
| `DiskIsVerified` | every file on disk is empty, or begins like a file whose header describes it | all commands |
| `SuccessIsWholeFile` | a download that exits 0 wrote a complete file with the data checksum of its header | `DownloadDelta` |
| `OnlyOutIsWritten` | only OUT changes, and not before the local copy was found to be a zchunk file | `download` |
| `ReportIsRight` | a download asks for what the last `delta-size` has reported, while the local copy and the header are the same | `deltaSize`, `download` |
| `QuietDownloadIsRight` | a download that ends when nothing fails or changes has written the server's file and exits 0, with or without a local copy or a detached header | `download`, `PlanDelta`, `AssembleBody` |
| `ConcurrentInvariant` | `ConcurrentSpec => []ConcurrentInv` | |
| `ConcurrencyIsHidden` | `ConcurrentSpec => D!Spec`: with any number of requests at a time, answered in any order and from any content the server has had, the commands behave as `Download` says | `AssembleBody` in `DownloadDeltaWithHeader` |
| *HeaderProofs* | | |
| `NoBitIsEverLost` | an integer that is read is the one its bytes denote: the accumulation never wraps | `ReadCompressedInt` |
| `WhatFitsIsRead` | an integer that fits, in at most the longest length, is read | `ReadCompressedInt` |
| `AppendedIsNeverLonger` | what is appended reads as its value, and no encoding of the value is shorter | `AppendCompressedInt` |
| `ReadingInvariant` | `Spec => []ReadInv` | |
| `NothingIsLost` | whatever header a reader accepts, of any writer, it would write as it was read or, where integers were padded, shorter | `ReadLead`, `ReadPreface`, `ReadIndex`, `ReadSignatures`, `parseHeader` |
| `AgreeingInvariant` | `Spec => []AgreeInv` | |
| `ReadersAlwaysAgree` | `ReadersAgree` for every file whose lead is not padded: no reader accepts what `extract` refuses, finds other fields, or places the body before the end of the header; for the detached reader with any lead | `ReadRemoteHeader`, `ReadDetachedHeader`, `parseHeader` |
| `WrittenInvariant` | `Spec => []WrittenInv` | |
| `WrittenIsReadBack` | whatever header this code writes, each of the three readers accepts it, reads the fields that were passed to the writer, and places the body where the header ends | `buildHeader`, `ReadLead`, `ReadPreface`, `ReadIndex`, `parseHeader` |
| *ArchiveProofs* | | |
| `InductiveInvariant` | `Spec => []IInv` | |
| `IndexIsRight` | the builder's index describes its body and accounts for every byte read | `Builder.AddChunk` |
| `ExtractWritesAPrefix` | OUT of `extract` is a beginning of the content, whatever became of the body | `Index.Extract` |
| `ExtractWritesAll` | and all of it when `extract` exits 0 | `Index.Extract` |
| `IntactFilesAreNotRefused` | a file that arrives as it was written is read | `readChunk` |
| `OnlyChunks` | with an entry of the index changed, `extract` writes chunks of the content, in order, none altered | `readChunk` |
| `DictionaryIsRight` | `gen-zdict` trains from the content, and keeps OUT until then | `collectChunkSamples` |
| *DictSelectProofs* | | |
| `InductiveInvariant` | `Spec => []IInv` | |
| `ScoreIsRight` | the score kept byte by byte is the window's value by its definition, wrapped or not | `bestSegment` |
| `BestIsRight` | what `bestSegment` returns is a window, and none beats it | `bestSegment` |
| `PicksFall` | a later pick is not worth more, if no score wraps | `selectDictContent` |
| `NothingLeft` | the content fits, and is short of its target only when no dmer is worth anything, if no score wraps | `selectDictContent` |

### What they assume

* `ConcurrencyAssumption`: `FetchConcurrency`, a constant of the code, is positive.
* `JobsAssumption`: plan and target have the same length, and a source's length is its
  chunk's (the doc comment of `AssembleBody` demands that the plan was produced from
  the target). A length is any `uint64`. Nothing is assumed of the sum of the lengths, of
  the plan's offsets, of the local file, of the server, or of the digest function.
  `OutIsAPrefix` and `SuccessIsWhole` are about a body that the
  target describes, and need `BodyAssumption`: bytes of a chunk's length that have its
  digest are that chunk, for the chunks whose length an `int64` holds: no others are ever
  verified, and the body need not reach as far as the header says. That is what a digest is
  for; `VerifiedStream`, which
  `RefinesVerifiedStream` establishes, says what holds without it.
* `BlobsAssumption` and `WordAssumption`: chunks are sequences of bytes, `Word` is
  positive. That the body fits in an `int64` is a hypothesis of the properties.
* `CommandsAssumption`: a command has the arguments that the flags require.
* `FilesAssumption`: files are sequences of units; a lead has the fields that `ReadLead`
  reads, its magic one of two; an index holds as many entries, with
  as natural lengths, as `parseIndex` yields; and what is on disk *at first* begins like
  published files, if at all. The last is what `DiskIsVerified` shows to be preserved; a
  file of another origin that is garbage after a good header stays what it is until it is
  an OUT. Nothing of the kind is assumed of what the server holds.
* `OutAssumption`, `LengthsAssumption` and `FetchConcurrencyAssumption`, for the two
  theorems about `ConcurrentDownload` only: OUT is not the local copy, the lengths of a
  header add up to an `int64`, and there is a token. `Download` knows no panic; for
  longer bodies the composition would have to end a command by one, and what can be
  said then is `PanicsNeedAnOverflow` of the call and the finding of section 6.
* `CompressedIntAssumption`: a byte has at least one value bit, an integer may be longer
  than a byte.
* `HeaderAssumption`: files are sequences of bytes, digests have at least one byte and one
  type's are the longest. Nothing is assumed of `Hash`.
* `OriginAssumption`, for `WrittenIsReadBack` only: a file that is said to be written is
  what `WriteFile` or `WriteDetachedHeader` make of a structure that they accept
  (`Writable`), whose numbers and lengths fit into a `uint64`, whose digests are bytes,
  and whose entries have a second digest only if the flag is set, as the comment on
  `IndexEntry` demands (the writer drops one that is there without the flag). Other files
  may come from anywhere.
* `ArchiveAssumption`: contents and dictionaries are bytes, chunk sizes positive
  (`create` refuses others). Digests are injective by definition there.
* `DictSelectAssumption`: samples are sequences of bytes, a dmer has at least one byte
  and a segment at least one dmer (8 and 256 in the code), `Word` is at least two.

### The arguments

**One call.** None of the properties is inductive. That the bound on
requests holds needs `TokensHeld`: the semaphore's fill *is* the number of
goroutines between its two ends. That no goroutine is left needs
`WaitGroupCounts`: the counter is the number of those that have not called
`Done`. That a split reads a settled result needs `ResultsSettled` (stored results
are errors or as long as their run), `Launched`, and `BetweenChunks`: where the
loop stands at a chunk to fetch, a run begins. The last part is why `runAt[i]`
may be used without a test for presence, and it follows from the shape of runs:
after a run comes a local or empty chunk or the end. `PanicsOnlyOnOverflow` needs
`InsideRun`: `pos` is the length of the chunks already written, and an `int64`. So if the
length of the run does not wrap, the next end `pos+length` does not either (`LengthFits`),
and is within the bytes, which are as many as the run's length (`SlicedInside`). If it does
wrap, a slice that does not panic still has the length of its chunk (`SlicedFacts`), and
is written only if it has its digest. These make up `CallInv`. `ChunksWritten` adds what the writer got: as long as there is no error,
exactly the chunks before `i + c`. A verified chunk extends a beginning of the body to
a longer one, and so does a part of it (`PrefixExtends`), so a failed write leaves
a beginning too.

**Its refinement.** Every step of a goroutine is a stutter of the stream. `CopyLocal`
and `SplitRun` are `Deliver` or `Break`, `AwaitRun` a stutter or a `Break` without
bytes, `EndOfSources` is `Complete`, a failed `Validate` a `Break`. The
invariant is needed to know that `i + c` is within the target and that
no step changes a stream that has ended.

**Sums.** A run's length, `pos` and every offset are values of `Offsets`, a recursive
function. `SequenceLemmas` shows that the recursion has a solution, that it
satisfies its equation, that it grows, and that it is the only solution. The induction
is by least counterexample (`NatMin`, from the well-foundedness of `<`), since the
library's induction rules take an operator as a parameter, which the provers cannot
instantiate. `RunLengthFits` shows that under `Fits` no run's length wraps.
`CountStep` does the counting for both counters: moving one goroutine changes the
cardinality of a set of goroutines by at most one.

**Sums over sets** are the community modules' folds, which take the elements in an order
left open; `SumRemove` shows, by least counterexample among the subsets of a finite set,
that any may come first. From it follow what the rest needs: sums may be added
(`SumAdds`), selected from (`SumSelected`), taken by parts (`SumOfParts`), reduced early
(`SumModulo`), and the sum over an interval is a difference of running totals
(`SumOfInterval`). `RequestedIsFetched` puts them together: a run asks for the sum over
its chunks, whose conversion to `int64` is off by a multiple of the word at most; the runs
are disjoint and cover what is to be fetched.

**Files as chunks.** A body is `FlattenSeq` of its chunks; `BodyChunks` shows that chunk
`j` of it lies between the running totals `j` and `j + 1`, by the same kind of
induction. From it follow `ReuseIsRight` (the offset in a plan is a running total of
the local index, and digests name blobs) and `RunsAreRight` (the total between two
ends of a run, as `Fits` keeps it from wrapping). `RunsAreAPartition` is about
the first and the last chunk of a run, least and greatest elements of sets of positions.

**Integers.** `RecursionExists` shows, again by least counterexample, that a function
defined by recursion along any descent exists, so that the loops of the codec can be
unfolded one group at a time (`ReadingUnfold`, `AppendUnfold`). What the first `n` groups
denote is less than the `n`-th power of the radix (`DenotedBound`); all groups but the
last and one bit of it are below `Values`, so a reader that stops where `Reading` does has
not wrapped (`ReadEnds`), and one that refuses had more than fits (`ReadOnlyEnds`). A value
determines its groups (`DivUnique`, `FirstGroup`, `RestOfGroups`), and its leading group is
not zero; so what is appended is the shortest that reads as the value (`Shortest`).

**What a reader accepts.** `Covers(c, w)` relates bytes that were read to bytes that would
be written: the same octets, or longer ones that contain a padded integer. It holds of
one integer (`IntRead`, from the codec's lemmas: what is appended for a value is the
shortest that reads as it), of a digest or an element's data, which are copied, and of two
parts one after the other (`CoversConcat`). `ReadSoFar` says at each field that the bytes
since the preface began cover what is written for the fields read from them; one lemma
per field takes it over that field. The size of the index needs more, since it
stands before what it counts: if the index is padded, the size that is written is a smaller
one. So while the index is read its size and its entries are covered separately, and
`SizeCovers` adds that the bytes of the size are long enough for every smaller value
(`CIntGrows`). When the index has been consumed, `IndexCovered` joins the parts.
`Elements` says how many elements and chunks there are at each field; that an accepted
header is `Writable`, but for the empty list of optional elements, is `ValuesOK`. The
comparison is of octets: the tags of digests, which stand for ideal hashing, are not in a
file.

**The readers agree.** The units of a file determine the way of the stream reader through
them: a path of places (`GoesOn`, `NextPlace`), where a place is the field to be read, the
position in the file, the end of the section and the fields read so far. `AgreeInv` says
that every reader, its position counted in the file (`place`, `shift`), is at a place on
that path. A step of the stream reader is the next place by definition; a step of the
others is, because what they read from is a part of the file (`SourceOK`), and an integer or a digest
that is found complete in a part is what stands there in the whole (`SameInt`,
`SameTaken`). The path is one, so it has one end (`OneEnd`): the fields that another
reader accepts are those at the end of the stream reader's path, which is `results[1]`. The
remote reader takes the lead to end where a lead of these values would end if it were written
as short as possible. On a file whose lead is padded it looks for the header somewhere else
(`Astray`), and so the theorem leaves that case to TLC. What makes it refuse such a file is
that no checksum is found one byte early, in bytes that it would have to be the checksum of: that is no fact
about the code, and an ideal hash of tagged bytes excludes it by construction only on the
files of an instance.

**What is written is read back.** `WrittenInv` says that what is ahead of a reader (`At`) is
what was written from its field on: the rest of the lead (`LeadRest`), then the rest of
preface, index and signatures after what has been read (`Rest`), which ends where the
declared header ends, as the index ends where its size says. That is what makes the
invariant inductive: a reader takes the first part of the rest and leaves the next field's
(`AtFacts`), and it needs to know that the section is long enough for both. What has
been read is what was written (`LeadAsWritten`, `PrefaceAsWritten`, `IndexAsWritten`): of the
lists, a beginning. The integers are read because any `uint64` fits the longest length
(`WordsFit`) and what is appended reads as its value, whatever follows
(`WrittenIntIsRead`). The lead of a written file fits into what the remote reader fetches
first, and its integers are as short as they can be, so the remote reader finds the
header (`LeadFacts`). The checksum matches, with either magic, since `HeaderChecksum` is
taken with the embedded one on both sides; no property of the hash is used.

**Download.** The disk is verified because OUT is, at every step of the one command that
writes it: empty until its header was checked, then that header and the chunks before
`next` (`OutHoldsTheChunks`), each appended after its digest matched
(`VerifiedGrows`). It is invariant only together with `HeaderVerified` (what
is in memory of a header was verified when it was read, whoever replaces the file it
came from) and `CommandAtWork`, which says that `openLocal` succeeded before OUT is
created. The local copy and the detached header may be OUT itself, truncated or half
written: the invariant says nothing of what a source yields, since nothing needs to be
known. `SuccessIsWholeFile` is `OutHoldsTheChunks` at the end, where `next` is behind the
last chunk and `CheckData` has compared the data checksum. `ReportIsRight` needs to know
in addition that a command plans with the index its local copy still has
(`LocalIsOpened`) and that a report is of the files it was made from
(`ReportIsOfItsFiles`). It excepts a local copy that is OUT: that one was truncated
after it was opened, and the equality with what `delta-size` has seen would be a
coincidence of contents.

**A quiet download.** `QuietProgress` says how far a download has come when nothing fails:
no error yet, the local copy that was opened is the file still on disk, the header in
memory is the server's, and OUT is the server's file up to chunk `next`. That every source
then yields the server's chunk is `PlanDelta` at work: an offset is the running total of
the lengths before it (`SourceOffsets`), it does not wrap, a request lies inside the file
(`OffsetFits`), a part of the answer is the chunk (`SliceOfSlice`), and a
source is local only if a chunk of the local copy has the same digest. `Quiet` asks for
what a promise of success cannot do without: the server's file is complete and
matches its header, both files are shorter than an `int64` measures, the checksum types
are the same, and no chunk of the one file has the digest of a different chunk of the other
(`DigestsTell`). It is about one download from its start to its end, and holds for every
server, local copy and header that satisfy it.

**Download with its goroutines.** `ConcurrentDownload` instantiates `AssembleBody` with a
call whose arguments are made from the command's state, and whose set of possible
answers grows while it runs. The theorems of `AssembleBodyProofs` are about one job, so
it is its lemmas that are cited, instantiated like the module (`AP!...`, with the
definitions of the two instances shown equal in `SameMain`, `SameWorker`, `SameCall`): a
proper call that begins satisfies `CallInv` (`BeginCallInv`), each step keeps it
(`StepCallInv`), and so does a server that has more contents (`ContentsMayChange`).
`ConcurrentInv` ties the call to the command. `CallIsOfThePlan`: target, plan, local
section and contents are those at hand, and `next` is the chunk that the call is at;
the local section stays what it was because OUT is another file (`StepOfBodyKeeps`).
`ResultsAreAnswers`: what a goroutine stored is an answer that `RunAnswers` knows, or an
error with a cause, and stays one when the server changes, since `seen` only grows.
`CommandAtWork`, which is `Download`'s, and `ReadyToWrite` say that a header was verified
and a body's writer is behind it. The rest of `Download`'s invariant is not needed: the
refinement asks nothing of the bytes on disk.
Every step of a goroutine, `Validate`, `Launch`, `NextAfterRun` and `Return` change
nothing that `Download` sees (`HiddenSteps`); `SkipEmpty` is `SkipChunk`; `CopyLocal` and
`SplitRun` are `DeliverChunk` or `BreakBody`, `AwaitRun` a stutter or `BreakBody`,
`EndOfSources` is `CompleteBody`. The step that needs most is `SplitRun`: that the bytes it
cuts are a member of `ChunkData` (`CutOutOfAnAnswer`) takes `SplitInRange`, the run
that covers `next` being the one at hand (`RunsAreDisjoint`), and `pos` being the
difference of running totals by which `Download` finds the chunk in its answer.

**Archive.** `BuilderHoldsTheChunks` says what `create` has built when it has read
`taken` bytes: entry `k` is `Recorded(k)`, the body is the coded chunks one after the
other, and no chunk of the input is empty, wherever the input ends. A file has that
index and, unless damaged, a beginning of that body (`FileIsTheBuilders`). A reader that
may rely on the index (`Reliable`) is at `pos`, the running total of the entries that it
consumed, and finds chunk `k` of the content or refuses the file (`ChunksAreRead`): for
`extract` because the digest is that of the coded chunk only, for `gen-zdict`, which
compares none, because nothing was damaged. `ChunksAreRead` also says that the
dictionary stays in a buffer of its own, and `ChunksAreUsed` that the buffers of
`gen-zdict`, of which there is one for each chunk, still hold the chunks when it trains.
`CodecFacts` shows that what was coded is decoded; `ContentOfChunks` that the
chunks, one after the other, are the content. The last chunk, which may be shorter, and
a chunk size longer than the content are in `UpToFacts`.

**A changed index.** `OnlyChunks` is about the files `Reliable` leaves out. `PickInv` says
what a changed field leaves right (`IndexIsNearlyRight`): a digest is that of
its chunk or the digest of an empty one, and all compressed lengths but one are as
written. So what `readChunk` decodes is the chunk, or its compressed length is
zero and it is passed over. What remains is the dictionary: if its entry was set to length
zero, a decoder without a dictionary meets the chunks. `SkippedIsRefused` shows that
none gets that far: the lengths of the others are right then, so the next chunk, which is not empty
(`SkippedFacts`), is sought where the dictionary's frame begins, and its digest fails.

**Dictionary selection.** `SlideFacts` compares three sets of dmers: those of the window,
of the window without its first byte, and of the next one. The multiset counts the places
at which a dmer begins (`Places`), so its count is zero after the removal exactly when the
dmer is in none of the places left, and only then the score loses its frequency; the
same for the dmer that comes. `WorthWithOne` and `WorthWithoutOne` say that a sum modulo
`Word` may be adjusted by one summand, since `Minus` adds the word before it subtracts.
`NoneIsBetter` carries the best window over the windows tried. That picks get
worse, and that nothing is left at the end, needs `WorthDecreases`: frequencies only
fall, so every window's worth does (`SumMonotonic`), and a sum below the word is its own
remainder (`WorthUnwrapped`). At the end every dmer is in some window
(`EveryDmerIsShown`), and a sum of natural numbers that is zero has only zeros. 
TLC checked `IInv` of `AssembleBody` in the run `assemble`, and those of `Download`,
`Archive` and `DictSelect` on the instances of `download`, `archive` and `dict_select` with
`INVARIANT IInv` added to the configuration, `PickInv` on that of `archive`,
`ConcurrentInv` on that of `download_concurrent`, `QuietInv` on that of `download_quiet`, and
`IndexesAgree` on those of `download` and `download_quiet`, and `ReadInv`, `WrittenInv` and
`AgreeInv`, the last but for the existence of a path, on that of `header`.

### What is only model-checked

* Liveness (`Termination`, `HonestCallDelivers`, `EveryCommandEnds`, `SelectionEnds`),
  which is out of the prover's reach.
* `ChangedHeadersAreRefused` of `Header`, and `ReadersAgree` for the remote reader of a
  padded lead. They are about an ideal hash: they need that no change of a header
  leaves its digest as it was, or moves it to where a digest would then be read, which is
  what they say.

## 5. What is left out

* *Bodies longer than an `int64` measures.* The widths are modelled, and the safety of
  a call is checked and proved for every header, with the panic that such lengths cause
  (section 6). The properties of offsets (`DeltaFiles`), the promises of success and the
  composition `ConcurrentDownload` are stated for bodies that an `int64` measures.
* *Memory and time.* No model has a limit on memory: `make` panics only for a length that
  no `int64` holds. Requests have no timeout in the code and none here.
* *Hash functions and zstd.* Digests are ideal, except where collisions are the
  point (`download_concurrent`); `Header`'s are computed by a small hash so that units
  stay small, checked not to collide on the inputs by the properties themselves. A
  zstd frame that is damaged is refused or decodes to something else.
* *Layers kept apart.* `Download` and `Archive` treat the header as one unit:
  a header is written and read whole. That a header may be cut off inside is
  covered by `Header` refusing it.
* *OUT and FILE naming the same file* for `create` and `extract`, which truncate
  OUT first. For `download` the clash is modelled.
* *Callers of the package.* The commands always give `WriteFile` a preface that suits
  the builder; a program that uses the package may not.
* *The public package* re-exports `internal/zchunk` name by name. *`info`'s* printing
  and the command line's flags have no state.

## 6. Where the code and its comments disagree

1. `LocalMeansPresent` (`download_resume`). A source is `Local` "when the chunk's
   compressed bytes are already present in the local file" (`delta.go:10-13`).
   `PlanDelta` marks it so when the local *index* lists the digest. After a
   download was killed, its OUT has the whole index and a part of the body; given as
   `--local`, the next download fails with "read local chunk" where fetching would
   have succeeded. Nothing wrong is written.
2. `NeverPanics` (`assemble_overflow`). A run "is a single contiguous byte range: it is
   fetched in one request and split back into its constituent chunks"
   (`download.go:24-26`). `parseIndex` takes any `uint64` for a chunk's length
   (`index.go:91`), and `remoteRuns` adds the lengths of a run up as `int64`, which wraps
   (`download.go:154`). With two chunks to fetch of lengths 2^64-1 and 6 the run's length is
   5; an answer of 5 bytes passes the comparison at `download.go:73`, and splitting it slices
   `data[0:-1]`, which panics. No caller recovers, so the command ends without the error that
   `AssembleBody` returns for every other header it cannot follow. Nothing wrong is
   written. `PanicsNeedAnOverflow` says that this and `make` of a local chunk of such a
   length are the only panics.
3. `DownloadedFilesExtract` (`header_trailing`). `DownloadDelta`'s output
   "round-trips through the readers and Extract" (`remote.go:137-139`).
   `parseHeader` does not check that the sections fill the declared header. For a
   header with bytes after its signatures (and a matching checksum) the downloaded
   file has its body behind them, and `extract` takes them for the first chunk.

One more disagreement has no run, as it is seen by reading two lines: a `RangeReader`
"must return exactly length bytes or a non-nil error" (`download.go:12-13`), and
`HTTPRangeReader` returns what a 206 answer holds (`httprange.go:46`). `ReadRemoteHeader`
depends on it, since it asks for 89 bytes of files that may be shorter. `Answers` of
`Download` and of `AssembleBody` have such short answers.

## 7. Plan

Order of work: the concurrent call first (done, with its proofs), then what
surrounds it (download, done, and composed with the call), then the layers below
(integers, header, archive, dictionary, done as models). The proofs followed
the same order: the call, the plan, the download, the archive, the dictionary, the integers,
the composition, and the readers of the header: that they lose nothing, agree with
each other, and read back what the writer wrote. Of the safety properties, only those that
rest on an ideal hash are left to TLC (section 4).

## 8. Running it

```
tlc -config MCAssembleBody.cfg MCAssembleBody
for m in SequenceLemmas DeltaProofs DeltaFilesProofs AssembleBodyProofs \
         DownloadProofs HeaderProofs ArchiveProofs DictSelectProofs; do tlapm $m.tla; done
```

Every run of section 3 takes between a second and a few minutes with two workers.

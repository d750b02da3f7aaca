------------------------------- MODULE Archive -------------------------------
(***************************************************************************)
(* A content becomes a zchunk file and comes out of it again: the create    *)
(* command with its Builder (builder.go), and the two commands that         *)
(* decompress a file, extract (Index.Extract) and gen-zdict, which trains a *)
(* dictionary from the chunks (collectChunkSamples, GenerateDict).  In      *)
(* between the body or the index may be damaged.  A behavior is one create  *)
(* and then one of the other commands.                                      *)
(*                                                                         *)
(* The header is there or not (Header models its layout); of its sections   *)
(* only the index is looked into.  A compressed chunk is a sequence of      *)
(* units [frame, at]: a stored byte, or a part of the zstd frame of a       *)
(* plaintext under a dictionary.  Digests are ideal.                        *)
(***************************************************************************)
EXTENDS Integers, Sequences, SequencesExt, RunningTotals

CONSTANTS
  Inputs,       \* the contents that create is given: sequences of bytes
  Dicts,        \* the dictionaries it is given, <<>> for none
  Malformed,    \* those of them that zstd does not load
  ChunkSizes,   \* the values of --chunk-size
  Damage        \* the parts of a file that may change on the way, once each

Byte == 0 .. 255

ASSUME ArchiveAssumption ==
  /\ Inputs \cup Dicts \subseteq Seq(Byte)
  /\ Malformed \subseteq Dicts \ {<<>>}
  /\ ChunkSizes \subseteq Nat \ {0}
  /\ Damage \subseteq {"body", "index"}

VARIABLES
  input,    \* what create reads
  options,  \* [ct, dict, chunkSize]
  pc,       \* the step that comes next
  command,  \* the command that runs
  status,   \* how it ended: "refused" by its own checks, "failed" by its input or output
  taken,    \* bytes of the input that create has read
  builder,  \* [idx, body]
  file,     \* what create's OUT holds: [header, idx, body]
  damaged,  \* the parts of it that changed
  chunk,    \* the entry of the index that is read next
  pos,      \* units of the body consumed
  bufs,     \* what the decoders' buffers hold
  data,     \* the buffer that holds the decompressed chunk, with its length
  samples,  \* the slices that gen-zdict keeps
  out       \* what OUT of extract or gen-zdict holds

vars == <<input, options, pc, command, status, taken, builder, file, damaged, chunk, pos,
          bufs, data, samples, out>>

creating == <<taken, builder>>
reading  == <<chunk, pos, bufs, data, samples, out>>

----------------------------------------------------------------------------
(* The codec *)

Stored(plain)      == [k \in DOMAIN plain |-> [frame |-> <<>>, at |-> plain[k]]]
Frame(dict, plain) == [k \in 1 .. Len(plain) + 1 |-> [frame |-> <<dict, plain>>, at |-> k]]

(* chunkEncoder.compress; the encoder makes nothing of nothing.             *)
Compress(ct, dict, plain) ==
  IF ct = "none" THEN Stored(plain)
  ELSE IF plain = <<>> THEN <<>> ELSE Frame(dict, plain)

Outcome(plain) == [ok |-> TRUE, plain |-> plain]
Broken         == [ok |-> FALSE, plain |-> <<>>]
Garbage(n)     == Outcome([k \in 1 .. n |-> 0])

(* chunkDecoder.decompress, but for the length: what it may return.  A      *)
(* frame that is damaged or was made with another dictionary is refused, or *)
(* decodes to something else.                                               *)
Decode(ct, dict, comp) ==
  IF ct = "none" THEN {Outcome([k \in DOMAIN comp |-> comp[k].at])}
  ELSE IF comp = <<>> THEN {Outcome(<<>>)}
  ELSE LET f == comp[1].frame
       IN  IF f # <<>> /\ comp = Frame(f[1], f[2]) /\ f[1] \in {<<>>, dict}
           THEN {Outcome(f[2])}
           ELSE {Broken, Garbage(Len(comp) - 1)}

(* Fault: the destination is not emptied before it is used again.           *)
DecodedAfter(buffer, plain) == buffer \o plain

(* What a decoder's buffer holds then: DecodeAll(src, dst[:0]).             *)
Decoded(buffer, plain) == plain

Sum(x) == <<x>>
ZeroDigest == <<>>

(* An encoder that is bound to a dictionary loads it, and so does a decoder.*)
EncoderLoads(ct, dict) == ct = "zstd" => dict \notin Malformed
DecoderLoads(ct, dict) == ct = "zstd" => dict \notin Malformed

(* The builder records no uncompressed digest.                              *)
Entry(comp, plain) ==
  [digest |-> Sum(comp), compLength |-> Len(comp), length |-> Len(plain), uDigest |-> <<>>]

----------------------------------------------------------------------------
(* create *)

Nothing == [header |-> FALSE, idx |-> <<>>, body |-> <<>>]

Old == <<0>>   \* what OUT of extract or gen-zdict holds before

Compressions == {"none", "zstd"}   \* the names that parseCompression knows

Init ==
  /\ input \in Inputs
  /\ options \in [ct : Compressions, dict : Dicts, chunkSize : ChunkSizes]
  /\ pc = "builder" /\ command = "create" /\ status = "none"
  /\ taken = 0 /\ builder = [idx |-> <<>>, body |-> <<>>]
  /\ file = Nothing /\ damaged = {}
  /\ chunk = 0 /\ pos = 0 /\ bufs = <<>> /\ data = [buffer |-> 0, length |-> 0]
  /\ samples = <<>> /\ out = Old

Exit(s) == pc' = "exited" /\ status' = s

(* NewBuilder: chunk 0 is the dictionary, coded without one.                *)
NewBuilder ==
  /\ pc = "builder"
  /\ LET comp == Compress(options.ct, <<>>, options.dict)
     IN  IF ~EncoderLoads(options.ct, options.dict) THEN Exit("refused") /\ UNCHANGED builder
         ELSE /\ pc' = "add" /\ UNCHANGED status
              /\ builder' = IF options.dict = <<>>
                            THEN [idx  |-> <<[Entry(<<>>, <<>>) EXCEPT !.digest = ZeroDigest]>>,
                                  body |-> <<>>]
                            ELSE [idx |-> <<Entry(comp, options.dict)>>, body |-> comp]
  /\ UNCHANGED <<input, options, command, taken, file, damaged>> /\ UNCHANGED reading

(* How much io.ReadFull reads: a chunk, or what is left.                    *)
ReadFull ==
  LET left == Len(input) - taken
  IN  IF left < options.chunkSize THEN left ELSE options.chunkSize

(* Fault: the end of the input is only noticed inside a chunk.              *)
AtEndInAChunk(n) == 0 < n /\ n < options.chunkSize

(* It says EOF or ErrUnexpectedEOF.                                         *)
AtEnd(n) == n < options.chunkSize

(* Fault: only full chunks are added.                                       *)
IsChunkFull(n) == n = options.chunkSize

IsChunk(n) == n > 0

(* One pass of create's loop: io.ReadFull, Builder.AddChunk.                *)
AddChunk ==
  /\ pc = "add"
  /\ LET n     == ReadFull
         plain == SubSeq(input, taken + 1, taken + n)
         comp  == Compress(options.ct, options.dict, plain)
     IN  /\ taken' = taken + n
         /\ builder' = IF IsChunk(n)
                       THEN [idx  |-> Append(builder.idx, Entry(comp, plain)),
                             body |-> builder.body \o comp]
                       ELSE builder
         /\ pc' = IF AtEnd(n) THEN "write" ELSE "add"
  /\ UNCHANGED <<input, options, command, status, file, damaged>> /\ UNCHANGED reading

ReadInputFails ==
  /\ pc = "add"
  /\ Exit("failed")
  /\ UNCHANGED <<input, options, command, file, damaged>> /\ UNCHANGED creating
  /\ UNCHANGED reading

(* Builder.WriteFile: one Write, which may end anywhere.                    *)
WriteFile ==
  /\ pc = "write"
  /\ \/ /\ file' = [header |-> TRUE, idx |-> builder.idx, body |-> builder.body]
        /\ Exit("ok")
     \/ \E n \in 0 .. Len(builder.body) :
          /\ file' \in {Nothing, [header |-> TRUE, idx |-> builder.idx,
                                  body |-> SubSeq(builder.body, 1, n)]}
          /\ Exit("failed")
  /\ UNCHANGED <<input, options, command, damaged>> /\ UNCHANGED creating
  /\ UNCHANGED reading

----------------------------------------------------------------------------
(* The file on its way *)

(* The bytes of the input in its first n chunks.                            *)
UpTo(n) == IF n * options.chunkSize < Len(input) THEN n * options.chunkSize ELSE Len(input)

(* Chunk k of the content, 1 being the dictionary.                          *)
Chunk(k) == IF k = 1 THEN options.dict ELSE SubSeq(input, UpTo(k - 2) + 1, UpTo(k - 1))

OnItsWay == pc = "exited" /\ command = "create" /\ file.header

(* The body is cut off, or a unit of it changes.                            *)
DamageBody ==
  /\ OnItsWay /\ "body" \in Damage \ damaged /\ file.body # <<>>
  /\ \E k \in DOMAIN file.body :
       file' \in {[file EXCEPT !.body = SubSeq(@, 1, k - 1)],
                  [file EXCEPT !.body[k] = [frame |-> <<>>, at |-> 0]]}
  /\ damaged' = damaged \cup {"body"}
  /\ UNCHANGED <<input, options, pc, command, status>> /\ UNCHANGED creating
  /\ UNCHANGED reading

(* A field of an entry of the index changes; only the remote readers would  *)
(* compare the header's checksum.                                           *)
DamageIndex ==
  /\ OnItsWay /\ "index" \in Damage \ damaged
  /\ \E k \in DOMAIN file.idx, n \in 0 .. 2 :
       file' \in {[file EXCEPT !.idx[k].compLength = n], [file EXCEPT !.idx[k].length = n],
                  [file EXCEPT !.idx[k].digest = ZeroDigest]} \ {file}
  /\ damaged' = damaged \cup {"index"}
  /\ UNCHANGED <<input, options, pc, command, status>> /\ UNCHANGED creating
  /\ UNCHANGED reading

(* Another writer's file, with the uncompressed digests.                    *)
OtherWriter ==
  /\ OnItsWay /\ damaged = {} /\ \A k \in DOMAIN file.idx : file.idx[k].uDigest = <<>>
  /\ file' = [file EXCEPT !.idx = [k \in DOMAIN @ |-> [@[k] EXCEPT !.uDigest = Sum(Chunk(k))]]]
  /\ UNCHANGED <<input, options, pc, command, status, damaged>> /\ UNCHANGED creating
  /\ UNCHANGED reading

----------------------------------------------------------------------------
(* extract and gen-zdict *)

(* The decoder of the dictionary chunk is one of its own; extract has one   *)
(* for all other chunks, gen-zdict one for each.                            *)
DictBuffer == 1

(* Fault: the samples share a decoder, as the chunks of extract do.         *)
BufferShared(i) == IF i = 1 THEN DictBuffer ELSE 2

Buffer(i) ==
  IF i = 1 THEN DictBuffer
  ELSE IF command = "extract" THEN 2 ELSE i

(* extract truncates OUT, then both commands read the header, and stop if   *)
(* it is not all there.                                                     *)
OpenFile ==
  /\ pc = "exited" /\ command = "create"
  /\ command' \in {"extract", "gen-zdict"}
  /\ out' = IF command' = "extract" THEN <<>> ELSE out
  /\ IF ~file.header THEN pc' = "exited" /\ status' = "refused" /\ UNCHANGED <<chunk, bufs>>
     ELSE /\ pc' = "chunk" /\ status' = "none" /\ chunk' = 1
          /\ bufs' = [k \in 1 .. Len(file.idx) + 1 |-> <<>>]
  /\ UNCHANGED <<input, options, file, damaged, pos, data, samples>>
  /\ UNCHANGED creating

(* Fault: the digest of a chunk is not compared.                            *)
VerifiedNot(e, comp) == TRUE

(* readChunk compares the digest of what it read; collectChunkSamples has   *)
(* no such check.                                                           *)
Verified(e, comp) == command = "extract" => Sum(comp) = e.digest

(* Fault: an uncompressed digest is wanted of every index.                  *)
VerifiedPlainAlways(e, plain) == command = "extract" => Sum(plain) = e.uDigest

(* The uncompressed digest, where the index has one.                        *)
VerifiedPlain(e, plain) ==
  command = "extract" /\ e.uDigest # <<>> => Sum(plain) = e.uDigest

(* Fault: the loop stops one entry early.                                   *)
ChunksLeftButOne == chunk < Len(file.idx)

ChunksLeft == chunk <= Len(file.idx)

(* readChunk, and its like in collectChunkSamples: the compressed bytes,    *)
(* their digest, the plaintext, its length and digest.  An empty chunk is   *)
(* not looked at by extract.                                                *)
ReadChunk ==
  /\ pc = "chunk" /\ ChunksLeft
  /\ LET e     == file.idx[chunk]
         left  == Len(file.body) - pos
         comp  == SubSeq(file.body, pos + 1,
                         pos + (IF left < e.compLength THEN left ELSE e.compLength))
         dict  == IF chunk = 1 THEN <<>> ELSE bufs[DictBuffer]
         b     == Buffer(chunk)
         whole == Len(comp) = e.compLength
         empty == e.compLength = 0 /\ command = "extract"
     IN  /\ pos' = pos + Len(comp)
         /\ \/ /\ empty
               /\ pc' = "loaded" /\ data' = [buffer |-> b, length |-> 0]
               /\ UNCHANGED <<status, bufs>>
            \/ /\ ~empty /\ ~(whole /\ Verified(e, comp))
               /\ Exit("refused") /\ UNCHANGED <<bufs, data>>
            \/ /\ ~empty /\ whole /\ Verified(e, comp)
               /\ \E o \in Decode(options.ct, dict, comp) :
                    /\ bufs' = [bufs EXCEPT ![b] = Decoded(@, o.plain)]
                    /\ IF o.ok /\ Len(o.plain) = e.length /\ VerifiedPlain(e, o.plain)
                       THEN /\ pc' = "loaded" /\ UNCHANGED status
                            /\ data' = [buffer |-> b, length |-> Len(bufs'[b])]
                       ELSE Exit("refused") /\ UNCHANGED data
  /\ UNCHANGED <<input, options, command, file, damaged, chunk, samples, out>>
  /\ UNCHANGED creating

(* A decoder is bound to the dictionary that was read.  gen-zdict makes one *)
(* only when there is a chunk to decode.                                    *)
BindDict ==
  /\ pc = "loaded" /\ chunk = 1
  /\ LET dict == SubSeq(bufs[data.buffer], 1, data.length)
     IN  IF DecoderLoads(options.ct, dict) \/ (command = "gen-zdict" /\ Len(file.idx) = 1)
         THEN pc' = "chunk" /\ chunk' = 2 /\ UNCHANGED status
         ELSE Exit("refused") /\ UNCHANGED chunk
  /\ UNCHANGED <<input, options, command, file, damaged, pos, bufs, data, samples, out>>
  /\ UNCHANGED creating

(* extract writes the chunk before it reads the next one; a failed write    *)
(* may have written a part.                                                 *)
WriteChunk ==
  /\ pc = "loaded" /\ chunk > 1 /\ command = "extract"
  /\ LET plain == SubSeq(bufs[data.buffer], 1, data.length)
     IN  \/ out' = out \o plain /\ pc' = "chunk" /\ chunk' = chunk + 1 /\ UNCHANGED status
         \/ /\ \E n \in 0 .. Len(plain) : out' = out \o SubSeq(plain, 1, n)
            /\ Exit("failed") /\ UNCHANGED chunk
  /\ UNCHANGED <<input, options, command, file, damaged, pos, bufs, data, samples>>
  /\ UNCHANGED creating

(* The end of the index; what follows in the file is not looked at.         *)
LastWritten ==
  /\ pc = "chunk" /\ ~ChunksLeft /\ command = "extract"
  /\ Exit("ok")
  /\ UNCHANGED <<input, options, command, file, damaged>> /\ UNCHANGED creating
  /\ UNCHANGED reading

(* gen-zdict keeps the slice it got.                                        *)
KeepSample ==
  /\ pc = "loaded" /\ chunk > 1 /\ command = "gen-zdict"
  /\ samples' = Append(samples, data)
  /\ pc' = "chunk" /\ chunk' = chunk + 1
  /\ UNCHANGED <<input, options, command, status, file, damaged, pos, bufs, data, out>>
  /\ UNCHANGED creating

(* What the samples hold when the training begins.                          *)
Sample(d) == SubSeq(bufs[d.buffer], 1, IF Len(bufs[d.buffer]) < d.length
                                       THEN Len(bufs[d.buffer]) ELSE d.length)
Sampled   == FlattenSeq([k \in DOMAIN samples |-> Sample(samples[k])])

(* GenerateDict: the dictionary is one of the samples' content.             *)
Dictionary(content) == <<0, 0>> \o content

(* gen-zdict trains, which fails when there is too little to train from,    *)
(* and writes OUT: os.WriteFile may fail to open it, or anywhere after it   *)
(* was truncated.                                                           *)
Train ==
  /\ pc = "chunk" /\ ~ChunksLeft /\ command = "gen-zdict"
  /\ LET dict == Dictionary(Sampled)
     IN  \/ Exit("refused") /\ UNCHANGED out
         \/ out' = dict /\ Exit("ok")
         \/ Exit("failed") /\ out' \in {out} \cup {SubSeq(dict, 1, n) : n \in 0 .. Len(dict)}
  /\ UNCHANGED <<input, options, command, file, damaged, chunk, pos, bufs, data, samples>>
  /\ UNCHANGED creating

Finished == pc = "exited" /\ command # "create" /\ UNCHANGED vars

Next ==
  \/ NewBuilder \/ AddChunk \/ ReadInputFails \/ WriteFile
  \/ DamageBody \/ DamageIndex \/ OtherWriter
  \/ OpenFile \/ ReadChunk \/ BindDict \/ WriteChunk \/ LastWritten \/ KeepSample \/ Train
  \/ Finished

(* The commands are sequential programs that nothing holds up.              *)
Run ==
  \/ NewBuilder \/ AddChunk \/ WriteFile
  \/ ReadChunk \/ BindDict \/ WriteChunk \/ LastWritten \/ KeepSample \/ Train

Spec == Init /\ [][Next]_vars /\ WF_vars(Run)

----------------------------------------------------------------------------
(* Properties *)

Ended(c) == pc = "exited" /\ command = c

(* Where chunk k of the index begins in the body.                           *)
Begins(idx, k) == Offsets([j \in DOMAIN idx |-> idx[j].compLength])[k]

(* At every moment the builder's index describes the body: each entry       *)
(* digests the bytes it covers, they follow one another without a gap, and  *)
(* the lengths add up to the dictionary and what was read of the input      *)
(* (builder.go:64-76).                                                      *)
IndexDescribesBody ==
  pc \in {"add", "write"} =>
    LET idx == builder.idx
    IN  /\ Begins(idx, Len(idx) + 1) = Len(builder.body)
        /\ \A k \in DOMAIN idx :
             LET from == Begins(idx, k)
                 comp == SubSeq(builder.body, from + 1, from + idx[k].compLength)
             IN  idx[k].digest = (IF comp = <<>> THEN ZeroDigest ELSE Sum(comp))
        /\ idx[1].length = Len(options.dict)
        /\ taken = Total([j \in 1 .. Len(idx) - 1 |-> idx[j + 1].length])

(* Whatever happened to the file's body, and wherever writing it or writing *)
(* to OUT was cut off, extract has never written anything but the beginning *)
(* of the content that was archived (extract.go:9-16).                      *)
ExtractedIsAPrefix ==
  command = "extract" /\ "index" \notin damaged => IsPrefix(out, input)

(* extract exits 0 only when OUT holds the content, all of it.              *)
ExtractedIsAll ==
  Ended("extract") /\ status = "ok" /\ "index" \notin damaged => out = input

(* Those of the first n chunks that are in S, one after the other.          *)
Picked(S, n) == FlattenSeq([k \in 1 .. n |-> IF k \in S THEN Chunk(k) ELSE <<>>])

(* Even with an entry of the index changed, which no checksum of the header *)
(* gives away to extract, it writes chunks of the content in their order:   *)
(* one may be missing, none is altered (main.go:469-489, extract.go:67-73). *)
OnlyChunksAreWritten ==
  command = "extract" =>
    \E S \in SUBSET (2 .. Len(builder.idx)) : IsPrefix(out, Picked(S, Len(builder.idx)))

(* Nothing that create wrote in full, and that arrived as it was, is        *)
(* refused: every chunk of it is read, under every dictionary, chunk size   *)
(* and compression, with uncompressed digests or without.                   *)
IntactFilesAreRead ==
  /\ pc = "exited" /\ command # "create" /\ status = "refused"
  /\ file.header /\ file.body = builder.body /\ damaged = {}
  => command = "gen-zdict" /\ chunk > Len(file.idx)

(* gen-zdict writes the dictionary of the content, or a part of it when     *)
(* writing fails: no later chunk has been decoded over an earlier one       *)
(* (main.go:88-139).  There is no digest check, so only for a file that is  *)
(* intact.  Whatever the file, OUT keeps what it had until there is a       *)
(* dictionary to write (main.go:66-81).                                     *)
DictionaryIsOfTheContent ==
  Ended("gen-zdict") =>
    /\ status = "refused" => out = Old
    /\ status = "failed" /\ damaged = {} => out = Old \/ IsPrefix(out, Dictionary(input))
    /\ status = "ok" /\ damaged = {} => out = Dictionary(input)

----------------------------------------------------------------------------
(* Why the properties hold, when the index is as it was written: the        *)
(* inductive invariant.                                                     *)

(* Chunk k as it is coded, and its entry.                                   *)
DictOf(k) == IF k = 1 THEN <<>> ELSE options.dict
Coded(k)  == Compress(options.ct, DictOf(k), Chunk(k))

Recorded(k) ==
  IF k = 1 /\ options.dict = <<>> THEN [Entry(<<>>, <<>>) EXCEPT !.digest = ZeroDigest]
  ELSE Entry(Coded(k), Chunk(k))

Units == [frame : {<<>>} \cup (Seq(Byte) \X Seq(Byte)), at : Nat]

CommandTypes ==
  /\ input \in Inputs
  /\ options \in [ct : Compressions, dict : Dicts, chunkSize : ChunkSizes]
  /\ \/ pc \in {"builder", "add", "write"} /\ command = "create"
     \/ pc \in {"chunk", "loaded"} /\ command \in {"extract", "gen-zdict"}
     \/ pc = "exited" /\ command \in {"create", "extract", "gen-zdict"}
  /\ status \in {"none", "refused", "failed", "ok"}
  /\ damaged \subseteq {"body", "index"}

(* The builder holds the chunks that were read, and none that is empty.     *)
BuilderHoldsTheChunks ==
  LET n == Len(builder.idx)
  IN  /\ n \in Nat
      /\ builder.idx = [k \in 1 .. n |-> Recorded(k)]
      /\ builder.body = FlattenSeq([k \in 1 .. n |-> Coded(k)])
      /\ \A k \in 2 .. n : (k - 2) * options.chunkSize < Len(input)
      /\ IF n = 0 THEN taken = 0 /\ pc # "add" /\ pc # "write"
         ELSE taken = UpTo(n - 1) /\ EncoderLoads(options.ct, options.dict) /\ pc # "builder"
      /\ pc = "add" => taken = (n - 1) * options.chunkSize
      /\ pc = "write" => taken = Len(input)

(* A file has the builder's index, and its body or the beginning of it.     *)
FileIsTheBuilders ==
  /\ DOMAIN file = {"header", "idx", "body"}
  /\ pc \in {"builder", "add", "write"} => ~file.header
  /\ pc \in {"chunk", "loaded"} => file.header
  /\ command = "create" => out = Old /\ samples = <<>> /\ pos = 0
  /\ file.header =>
       /\ taken = Len(input) /\ builder.idx # <<>>
       /\ Len(file.idx) = Len(builder.idx) /\ DOMAIN file.idx = DOMAIN builder.idx
       /\ file.body \in Seq(Units)
       /\ "index" \notin damaged =>
            \A k \in DOMAIN file.idx :
              \E u \in {<<>>, Sum(Chunk(k))} : file.idx[k] = [Recorded(k) EXCEPT !.uDigest = u]
       /\ damaged = {} =>
            \E n \in 0 .. Len(builder.body) : file.body = SubSeq(builder.body, 1, n)

(* Nothing stands between the reader and the chunks: extract compares the   *)
(* digests of the index, gen-zdict none.                                    *)
Reliable == "index" \notin damaged /\ (command = "gen-zdict" => damaged = {})

(* Chunks are read one after the other, from where they begin, into their   *)
(* buffers; the dictionary stays in its own.                                *)
ChunksAreRead ==
  pc \in {"chunk", "loaded"} =>
    /\ chunk \in 1 .. Len(file.idx) + 1
    /\ pc = "loaded" => chunk <= Len(file.idx)
    /\ Reliable =>
         /\ DOMAIN bufs = 1 .. Len(file.idx) + 1
         /\ pos = Begins(builder.idx, IF pc = "chunk" THEN chunk ELSE chunk + 1)
         /\ pos <= Len(file.body)
         /\ chunk = 1 /\ pc = "chunk" => bufs[DictBuffer] = <<>>
         /\ chunk > 1 => bufs[DictBuffer] = options.dict
         /\ pc = "loaded" =>
              /\ data = [buffer |-> Buffer(chunk), length |-> Len(Chunk(chunk))]
              /\ bufs[Buffer(chunk)] = Chunk(chunk)

(* What was made of the chunks before the one that is read.                 *)
ChunksAreUsed ==
  /\ pc \in {"chunk", "loaded"} /\ command = "extract" /\ Reliable =>
       out = IF chunk = 1 THEN <<>> ELSE SubSeq(input, 1, UpTo(chunk - 2))
  /\ pc \in {"chunk", "loaded"} /\ command = "gen-zdict" =>
       /\ out = Old
       /\ Reliable =>
            /\ \A k \in 2 .. chunk - 1 : bufs[k] = Chunk(k)
            /\ samples = [k \in 1 .. chunk - 2 |->
                            [buffer |-> k + 1, length |-> Len(Chunk(k + 1))]]

IInv ==
  /\ CommandTypes /\ BuilderHoldsTheChunks /\ FileIsTheBuilders
  /\ ChunksAreRead /\ ChunksAreUsed
  /\ ExtractedIsAPrefix /\ ExtractedIsAll /\ IntactFilesAreRead
  /\ DictionaryIsOfTheContent

----------------------------------------------------------------------------
(* Why nothing but chunks is written, when an entry of the index changed:   *)
(* what is added to the invariant.                                          *)

(* A digest never becomes that of something else, no more than one entry    *)
(* has a wrong length, and the body begins as it did or with the damage.    *)
IndexIsNearlyRight ==
  file.header =>
    /\ file.body # <<>> => file.body[1] \in {builder.body[1], [frame |-> <<>>, at |-> 0]}
    /\ \A k \in DOMAIN file.idx : file.idx[k].digest \in {Recorded(k).digest, ZeroDigest}
    /\ \E k \in DOMAIN file.idx :
         \A j \in DOMAIN file.idx \ {k} : file.idx[j].compLength = Len(Coded(j))

(* The dictionary was passed over as an empty chunk, which it is not.       *)
DictIsSkipped ==
  bufs[DictBuffer] = <<>> /\ pos = 0 /\ file.idx[1].compLength # Len(Coded(1))

(* The dictionary is bound to the decoder, unless it was skipped: then the  *)
(* next chunk would begin where the dictionary does, and is refused.        *)
DictIsBound ==
  \/ bufs[DictBuffer] = options.dict
  \/ options.ct = "none" /\ chunk > 1
  \/ DictIsSkipped /\ (chunk > 1 => chunk = 2 /\ pc = "chunk")

(* Each chunk is written, or was taken for empty.                           *)
ChunksArePicked ==
  command = "extract" /\ pc \in {"chunk", "loaded"} =>
    /\ DOMAIN bufs = 1 .. Len(file.idx) + 1 /\ bufs[2] \in Seq(Byte)
    /\ \E S \in SUBSET (2 .. chunk - 1) : out = Picked(S, chunk - 1)
    /\ IF chunk = 1 /\ pc = "chunk" THEN bufs[DictBuffer] = <<>> /\ pos = 0 ELSE DictIsBound
    /\ pc = "loaded" => data.buffer = Buffer(chunk)
    /\ pc = "loaded" /\ chunk > 1 =>
         SubSeq(bufs[data.buffer], 1, data.length) \in {<<>>, Chunk(chunk)}

PickInv == IndexIsNearlyRight /\ ChunksArePicked /\ OnlyChunksAreWritten

----------------------------------------------------------------------------
(* Every command ends: create's loop at the end of the input, wherever it   *)
(* falls in a chunk, and the others at the end of the index.                *)
EveryCommandEnds == [](pc # "exited" => <>(pc = "exited"))
=============================================================================

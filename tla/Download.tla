------------------------------ MODULE Download ------------------------------
(***************************************************************************)
(* The commands `zchunk download`, `zchunk delta-size` and `zchunk header`  *)
(* (cmd/zchunk/main.go) with the delta download behind them                 *)
(* (internal/zchunk/remote.go, httprange.go), run one after the other on    *)
(* the same files while the server republishes the file and processes are   *)
(* killed.                                                                  *)
(*                                                                         *)
(* A file is a sequence of units: a lead, a header (preface, index and      *)
(* signatures) and the bytes of the body, so an absolute offset counts the  *)
(* lead and the header as one each.  A path that does not exist reads as    *)
(* the empty file: opening the one and parsing the other both fail.         *)
(*                                                                         *)
(* Assembling the body is the VerifiedStream that AssembleBody implements;  *)
(* the plan says which source each chunk is taken from.  The module         *)
(* ConcurrentDownload has AssembleBody itself in its place.                 *)
(***************************************************************************)
EXTENDS Delta

CONSTANTS
  Paths,           \* the files of the user
  Commands,        \* the commands that may be run
  InitialDisks,    \* what the files may hold at first
  ServerContents,  \* what the server may hold at the URL
  Sum(_, _),       \* ChecksumType.Sum: the digest of some units
  LeadPrefix,      \* maxLeadPrefix: how much is fetched for the lead
  Faulty,          \* whether requests, writes and closing may fail
  MaxCommands,     \* bound: commands run
  MaxRepublish,    \* bound: times the server's file is replaced
  MaxKills         \* bound: processes killed

ASSUME CommandsAssumption ==
  \A c \in Commands :
    /\ c.kind \in {"download", "delta-size", "header"}
    /\ c.kind # "header" => c.local \in Paths \cup {"none"}
    /\ c.kind # "delta-size" => c.out \in Paths
    /\ c.kind = "download" => c.header \in Paths \cup {"none"}
    /\ c.kind = "header" => c.file \in Paths

ASSUME BoundsAssumption ==
  /\ LeadPrefix \in Nat \ {0} /\ Faulty \in BOOLEAN
  /\ MaxCommands \in Nat /\ MaxRepublish \in Nat /\ MaxKills \in Nat

VARIABLES
  disk,     \* the content of every path
  server,   \* the content the server holds
  pc,       \* where the running command is
  cmd,      \* its arguments
  err,      \* "nil", or what made it fail
  loc,      \* openLocal: the index, and the file its body is read from
  prefix,   \* the answer to the lead request; or the header to be emitted
  rh,       \* the RemoteHeader
  next,     \* the chunk of the body that comes next
  seen,     \* what the server has held since the body's requests began
  report,   \* what delta-size has printed last, and from what it was made
  commands, republished, kills  \* counters for the bounds

callVars == <<loc, prefix, seen>>
bounds   == <<commands, republished, kills>>
vars     == <<disk, server, pc, cmd, err, rh, next, report, callVars, bounds>>

LeadLen    == 1
HeaderSize == 1
BodyOffset == LeadLen + HeaderSize

IsLead(u)   == "detached" \in DOMAIN u
IsHeader(u) == "index" \in DOMAIN u

NilIndex == [ckType |-> "none", chunks |-> <<>>]
NoLocal  == [index |-> NilIndex, path |-> "none", size |-> 0]
NoHeader == <<>>
NoReport == [local |-> "none", rh |-> NoHeader]

(* ReadLead, ReadPreface, ReadIndex and ReadSignatures, one after another.  *)
Parses(content) ==
  Len(content) >= BodyOffset /\ IsLead(content[1]) /\ IsHeader(content[2])

(* Fault: the header is not compared with the checksum of its lead.         *)
VerifyHeaderNot(lead, header) == TRUE

(* Lead.VerifyHeader; the digest does not depend on the lead's magic.       *)
VerifyHeader(lead, header) == Sum(lead.ckType, <<header>>) = lead.checksum

BodyOf(content) == SubSeq(content, BodyOffset + 1, Len(content))

target == rh[2].index
plan   == PlanDelta(loc.index, target)

----------------------------------------------------------------------------
(* Commands *)

Init ==
  /\ disk \in InitialDisks
  /\ server \in ServerContents
  /\ pc = "idle" /\ cmd = [kind |-> "none"] /\ err = "nil"
  /\ loc = NoLocal /\ prefix = <<>> /\ rh = NoHeader /\ next = 1 /\ seen = {}
  /\ report = NoReport
  /\ commands = 0 /\ republished = 0 /\ kills = 0

(* The process ends: what it kept in memory is gone.                        *)
Exit(e) ==
  /\ pc' = "exited" /\ err' = e
  /\ loc' = NoLocal /\ prefix' = <<>> /\ seen' = {}

(* Fault: download creates OUT before it opens the local file.              *)
FirstStepCreates(c) ==
  CASE c.kind = "header" -> "read file"
    [] c.kind = "download" -> "create"
    [] OTHER -> "open local"

FirstStep(c) == IF c.kind = "header" THEN "read file" ELSE "open local"

Start(c) ==
  /\ pc \in {"idle", "exited"}
  /\ commands < MaxCommands
  /\ cmd' = c
  /\ pc' = FirstStep(c)
  /\ err' = "nil" /\ rh' = NoHeader
  /\ commands' = commands + 1
  /\ UNCHANGED <<disk, server, next, report, callVars, republished, kills>>

(* delta-size opens no OUT.                                                 *)
AfterLocal == IF cmd.kind = "delta-size" THEN "lead" ELSE "create"

(* openLocal: the file's header is parsed, not verified; its body is a      *)
(* section of the open file, as long as the file is now.                    *)
OpenLocal ==
  /\ pc = "open local"
  /\ LET content == disk[cmd.local]
     IN  \/ /\ cmd.local = "none"
            /\ pc' = AfterLocal
            /\ UNCHANGED <<err, callVars>>
         \/ /\ cmd.local # "none" /\ Parses(content)
            /\ loc' = [index |-> content[2].index, path |-> cmd.local,
                       size |-> Len(content) - BodyOffset]
            /\ pc' = AfterLocal
            /\ UNCHANGED <<err, prefix, seen>>
         \/ /\ cmd.local # "none" /\ ~Parses(content)
            /\ Exit("local")
  /\ UNCHANGED <<disk, server, cmd, rh, next, report, bounds>>

(* os.Create truncates OUT, whatever it held; so does os.WriteFile.         *)
Create ==
  /\ pc = "create"
  /\ \/ /\ disk' = [disk EXCEPT ![cmd.out] = <<>>]
        /\ pc' = IF cmd.kind = "header" THEN "emit"
                 ELSE IF cmd.header # "none" THEN "detached" ELSE "lead"
        /\ UNCHANGED <<err, callVars>>
     \/ /\ Faulty
        /\ Exit("create")
        /\ UNCHANGED disk
  /\ UNCHANGED <<server, cmd, rh, next, report, bounds>>

(* writeDetachedHeader: the lead says how much of FILE is its header, which *)
(* is read as it is and gets the detached magic.                            *)
ReadFile ==
  /\ pc = "read file"
  /\ LET content == disk[cmd.file]
     IN  \/ /\ Len(content) >= BodyOffset /\ IsLead(content[1])
            /\ prefix' = <<[content[1] EXCEPT !.detached = TRUE], content[2]>>
            /\ pc' = "create"
            /\ UNCHANGED <<err, loc, seen>>
         \/ /\ ~(Len(content) >= BodyOffset /\ IsLead(content[1]))
            /\ Exit("read")
  /\ UNCHANGED <<disk, server, cmd, rh, next, report, bounds>>

(* A write appends units to OUT: all of them, or fewer if it fails.         *)
AppendOut(units) == disk' = [disk EXCEPT ![cmd.out] = @ \o units]

WriteFails(units) ==
  /\ Faulty
  /\ \E n \in 0 .. Len(units) - 1 : AppendOut(SubSeq(units, 1, n))

EmitHeader ==
  /\ pc = "emit"
  /\ \/ AppendOut(prefix) /\ Exit("nil")
     \/ WriteFails(prefix) /\ Exit("write")
  /\ UNCHANGED <<server, cmd, rh, next, report, bounds>>

----------------------------------------------------------------------------
(* The header *)

(* HTTPRangeReader.ReadRange: the units of the range that content has; from *)
(* a server that does not keep to the range, all of content.                *)
Answers(content, offset, length) ==
  {Slice(content, offset, length)} \cup (IF Faulty THEN {content} ELSE {})

RequestFails(e) == Faulty /\ Exit(e)

ReadDetachedHeader ==
  /\ pc = "detached"
  /\ LET content == disk[cmd.header]
         valid   == Parses(content) /\ VerifyHeader(content[1], content[2])
     IN  \/ /\ valid
            /\ rh' = SubSeq(content, 1, BodyOffset)
            /\ pc' = "plan"
            /\ UNCHANGED <<err, callVars>>
         \/ /\ ~valid
            /\ Exit("header")
            /\ UNCHANGED rh
  /\ UNCHANGED <<disk, server, cmd, next, report, bounds>>

FetchLead ==
  /\ pc = "lead"
  /\ \/ \E data \in Answers(server, 0, LeadPrefix) :
          \/ /\ data # <<>> /\ IsLead(data[1])
             /\ prefix' = data
             /\ pc' = "header"
             /\ UNCHANGED <<err, loc, seen>>
          \/ /\ ~(data # <<>> /\ IsLead(data[1]))
             /\ Exit("lead")
     \/ RequestFails("lead")
  /\ UNCHANGED <<disk, server, cmd, rh, next, report, bounds>>

(* The second request; its answer has to be of the length the lead states,  *)
(* and to match the lead's checksum before it is parsed.                    *)
FetchHeader ==
  /\ pc = "header"
  /\ \/ \E data \in Answers(server, LeadLen, HeaderSize) :
          LET valid == /\ Len(data) = HeaderSize
                       /\ VerifyHeader(prefix[1], data[1])
                       /\ IsHeader(data[1])
          IN  \/ /\ valid
                 /\ rh' = <<prefix[1]>> \o data
                 /\ pc' = "plan"
                 /\ UNCHANGED <<err, callVars>>
              \/ /\ ~valid
                 /\ Exit("header")
                 /\ UNCHANGED rh
     \/ RequestFails("header") /\ UNCHANGED rh
  /\ UNCHANGED <<disk, server, cmd, next, report, bounds>>

----------------------------------------------------------------------------
(* The file *)

(* Fault: the plan is made for downloading the local file.                  *)
ReportedPlanSwapped == PlanDelta(target, loc.index)

ReportedPlan == plan

(* delta-size ends with the plan: reportDeltaSize prints its sums.          *)
Report ==
  /\ pc = "plan" /\ cmd.kind = "delta-size"
  /\ \/ /\ TypeMismatch(loc.index, target)
        /\ Exit("plan")
        /\ UNCHANGED report
     \/ /\ ~TypeMismatch(loc.index, target)
        /\ report' = [local |-> cmd.local, rh |-> rh, size |-> DeltaSize(ReportedPlan),
                      held |-> IF cmd.local = "none" THEN <<>> ELSE disk[cmd.local]]
        /\ Exit("nil")
  /\ UNCHANGED <<disk, server, cmd, rh, next, bounds>>

(* The magic of a detached header is swapped for the embedded one.          *)
EmbeddedHeader(h) == <<[h[1] EXCEPT !.detached = FALSE], h[2]>>

(* PlanDelta, then the header is written and the body's requests begin.     *)
WriteHeader ==
  /\ pc = "plan" /\ cmd.kind = "download"
  /\ \/ /\ TypeMismatch(loc.index, target)
        /\ Exit("plan")
        /\ UNCHANGED <<disk, next>>
     \/ /\ ~TypeMismatch(loc.index, target)
        /\ AppendOut(EmbeddedHeader(rh))
        /\ pc' = "body" /\ next' = 1 /\ seen' = {server}
        /\ UNCHANGED <<err, loc, prefix>>
     \/ /\ ~TypeMismatch(loc.index, target)
        /\ WriteFails(EmbeddedHeader(rh))
        /\ Exit("write")
        /\ UNCHANGED next
  /\ UNCHANGED <<server, cmd, rh, report, bounds>>

(* What has been written of the body, which is what the hash has seen.      *)
Body == BodyOf(disk[cmd.out])

Status == IF pc = "body" THEN "open" ELSE IF err = "nil" THEN "complete" ELSE "failed"

Indexes == {c[2].index : c \in {s \in ServerContents : Len(s) >= BodyOffset}}

(* AssembleBody, by what it promises.                                       *)
Stream == INSTANCE VerifiedStream WITH
  Targets <- Indexes, out <- Body, status <- Status

(* The body of the local file, within the section that was opened.          *)
LocalBody == IF loc = NoLocal THEN <<>> ELSE Slice(disk[loc.path], BodyOffset, loc.size)

(* Fault: a run is asked for at its offset in the body, not in the file.    *)
RunOffsetInBody(s) == RemoteRun(plan, s).offset

(* offsetRange.ReadRange *)
RunOffset(s) == Int64(BodyOffset + RemoteRun(plan, s).offset)

(* The answers to the request of run s, which was made when the body began  *)
(* and is answered by any content held since.                               *)
RunAnswers(s) ==
  UNION {Answers(content, RunOffset(s), RemoteRun(plan, s).length) : content \in seen}

AtChunk == next \in DOMAIN plan /\ plan[next].length > 0

(* What the source of the next chunk may yield: bytes of the local body, or *)
(* its part of a complete answer to the request of its run.                 *)
ChunkData ==
  LET src == plan[next]
      s   == CHOOSE r \in RunStarts(plan) : next \in RunChunks(plan, r)
      at  == Offsets(Lengths(plan))[next] - Offsets(Lengths(plan))[s]
  IN  IF src.local
      THEN {Slice(LocalBody, Int64(src.offset), src.length)}
      ELSE {Slice(a, at, src.length) :
              a \in {b \in RunAnswers(s) : Len(b) = RemoteRun(plan, s).length}}

Genuine(data) ==
  Len(data) = plan[next].length /\ Sum(target.ckType, data) = target.chunks[next].digest

SkipChunk ==
  /\ pc = "body"
  /\ UNCHANGED <<disk, server, pc, cmd, err, rh, report, callVars, bounds>>
  /\ Stream!SkipEmpty

DeliverChunk ==
  /\ pc = "body" /\ AtChunk
  /\ \E data \in ChunkData : AppendOut(data)
  /\ UNCHANGED <<server, pc, cmd, err, rh, report, callVars, bounds>>
  /\ Stream!Deliver

(* Where the body stops: the chunk cannot be read or fetched, the request   *)
(* of the run it begins is answered too short, it does not verify, or it is *)
(* not written completely.  AssembleBody still waits for its goroutines.    *)
BreakBody ==
  /\ pc = "body" /\ AtChunk
  /\ \/ /\ \/ Faulty
           \/ \E data \in ChunkData : ~Genuine(data)
           \/ /\ next \in RunStarts(plan)
              /\ \E a \in RunAnswers(next) : Len(a) # RemoteRun(plan, next).length
        /\ UNCHANGED disk
     \/ \E data \in ChunkData : Genuine(data) /\ WriteFails(data)
  /\ pc' = "abandon" /\ err' = "body"
  /\ UNCHANGED <<server, cmd, rh, report, callVars, bounds>>
  /\ Stream!Break

Abandon ==
  /\ pc = "abandon"
  /\ Exit(err)
  /\ UNCHANGED <<disk, server, cmd, rh, next, report, bounds>>

CompleteBody ==
  /\ pc = "body"
  /\ pc' = "check"
  /\ UNCHANGED <<disk, server, cmd, err, rh, next, report, callVars, bounds>>
  /\ Stream!Complete

(* Fault: the body is not compared with the preface's data checksum.        *)
DataIntactNot == TRUE

(* The hash of the body against the preface's data checksum, which a file   *)
(* with uncompressed source does not have.                                  *)
DataIntact == rh[2].uncompressed \/ Sum(rh[1].ckType, Body) = rh[2].dataChecksum

CheckData ==
  /\ pc = "check"
  /\ \/ /\ DataIntact
        /\ pc' = "close"
        /\ UNCHANGED <<err, callVars>>
     \/ /\ ~DataIntact
        /\ Exit("data")
  /\ UNCHANGED <<disk, server, cmd, rh, next, report, bounds>>

Close ==
  /\ pc = "close"
  /\ Exit("nil") \/ (Faulty /\ Exit("close"))
  /\ UNCHANGED <<disk, server, cmd, rh, next, report, bounds>>

Process ==
  \/ OpenLocal \/ Create \/ ReadFile \/ EmitHeader
  \/ ReadDetachedHeader \/ FetchLead \/ FetchHeader \/ Report \/ WriteHeader
  \/ SkipChunk \/ DeliverChunk \/ BreakBody \/ Abandon \/ CompleteBody
  \/ CheckData \/ Close

----------------------------------------------------------------------------
(* The surroundings *)

Running == pc \notin {"idle", "exited"}

Kill ==
  /\ Running /\ kills < MaxKills
  /\ Exit("killed")
  /\ kills' = kills + 1
  /\ UNCHANGED <<disk, server, cmd, rh, next, report, commands, republished>>

Republish ==
  /\ republished < MaxRepublish
  /\ server' \in ServerContents \ {server}
  /\ seen' = IF seen = {} THEN {} ELSE seen \cup {server'}
  /\ republished' = republished + 1
  /\ UNCHANGED <<disk, pc, cmd, err, rh, loc, prefix, next, report, commands, kills>>

Finished ==
  /\ ~Running /\ commands = MaxCommands
  /\ UNCHANGED vars

Next ==
  \/ \E c \in Commands : Start(c)
  \/ Process \/ Kill \/ Republish \/ Finished

Spec == Init /\ [][Next]_vars
----------------------------------------------------------------------------
(* Properties *)

Downloaded == pc = "exited" /\ cmd.kind = "download" /\ err = "nil"

(* Chunk n of the index lies within the first size bytes of the body.       *)
Reaches(index, n, size) == Offsets(CompLengths(index))[n + 1] <= size

(* The content starts like a file: a header that matches its lead, then a   *)
(* body of which every complete chunk matches its digest.                   *)
VerifiedPrefix(content) ==
  Len(content) >= BodyOffset =>
    LET index == content[2].index
        body  == BodyOf(content)
    IN  /\ Sum(content[1].ckType, <<content[2]>>) = content[1].checksum
        /\ Len(body) <= Total(CompLengths(index))
        /\ \A n \in DOMAIN index.chunks :
             index.chunks[n].compLength > 0 /\ Reaches(index, n, Len(body)) =>
               Sum(index.ckType, Slice(body, Offsets(CompLengths(index))[n],
                                       index.chunks[n].compLength))
                 = index.chunks[n].digest

(* The units of the files the user and the server may hold; and, of a lead, *)
(* what writing it with the other magic makes of it.                        *)
Held == ServerContents \cup UNION {{d[p] : p \in Paths} : d \in InitialDisks}
Unit ==
  LET held == UNION {{content[n] : n \in DOMAIN content} : content \in Held}
  IN  held \cup {[u EXCEPT !.detached = b] : u \in {h \in held : IsLead(h)}, b \in BOOLEAN}

(* Leads and headers have the fields ReadLead and ReadIndex fill in, and    *)
(* what the user starts with are published files, or the start of one.      *)
ASSUME FilesAssumption ==
  /\ ServerContents \subseteq Seq(Unit)
  /\ InitialDisks \subseteq [Paths -> Seq(Unit)]
  /\ \A u \in Unit :
       /\ IsLead(u) => u \in [detached : BOOLEAN, ckType : {u.ckType}, checksum : {u.checksum}]
       /\ IsHeader(u) => ProperIndex(u.index)
  /\ \A d \in InitialDisks, p \in Paths :
       /\ Len(d[p]) >= BodyOffset => Parses(d[p])
       /\ VerifiedPrefix(d[p])

(* Whatever fails, is killed, replaced on the server, or is written over    *)
(* the file it is read from, every file on disk starts like a published     *)
(* file: nothing is written before it is verified (remote.go:85-90,         *)
(* download.go:163-171), so a later command never finds a header that does  *)
(* not describe the bytes after it.                                         *)
DiskHoldsVerifiedPrefixes == \A p \in Paths : VerifiedPrefix(disk[p])

(* A download that exits without an error has written a complete file, with *)
(* the embedded magic, all chunks and the data checksum of the header it    *)
(* was given or fetched (remote.go:131-143, 152-158).                       *)
SuccessIsTheWholeFile ==
  Downloaded =>
    LET content == disk[cmd.out]
    IN  /\ Len(content) = BodyOffset + Total(CompLengths(target))
        /\ ~content[1].detached
        /\ content[2] = rh[2]
        /\ rh[2].uncompressed
             \/ Sum(content[1].ckType, BodyOf(content)) = rh[2].dataChecksum

Complete(content) ==
  Parses(content) /\ Len(content) = BodyOffset + Total(CompLengths(content[2].index))

ChunkOf(content, n) ==
  LET index == content[2].index
  IN  Slice(BodyOf(content), Offsets(CompLengths(index))[n], index.chunks[n].compLength)

(* Chunks of the two files that have one digest are the same.               *)
DigestsTell(a, b) ==
  \A n \in NonEmpty(a[2].index), m \in NonEmpty(b[2].index) :
    a[2].index.chunks[n].digest = b[2].index.chunks[m].digest => ChunkOf(a, n) = ChunkOf(b, m)

(* The server holds a complete and correct file, the local copy is a        *)
(* complete file too, with chunk checksums of the same type, the header     *)
(* given is the server's, and neither of the two is about to be             *)
(* overwritten.  The files are not longer than an int64 measures.           *)
Quiet ==
  /\ ~Faulty /\ MaxRepublish = 0 /\ MaxKills = 0
  /\ Complete(server) /\ 2 * Len(server) < Word
  /\ ~server[1].detached /\ VerifiedPrefix(server)
  /\ server[2].uncompressed
       \/ Sum(server[1].ckType, BodyOf(server)) = server[2].dataChecksum
  /\ cmd.local # "none" =>
       /\ cmd.local # cmd.out
       /\ Complete(disk[cmd.local]) /\ 2 * Len(disk[cmd.local]) < Word
       /\ ~TypeMismatch(disk[cmd.local][2].index, server[2].index)
       /\ DigestsTell(disk[cmd.local], server)
  /\ cmd.header # "none" =>
       /\ cmd.header # cmd.out
       /\ Len(disk[cmd.header]) >= BodyOffset
       /\ EmbeddedHeader(disk[cmd.header]) = EmbeddedHeader(server)

(* When nothing fails or changes, a download delivers exactly the file the  *)
(* server holds, with or without a local copy or a detached header made     *)
(* from either (remote.go:131-143): the offsets of the two files, of their  *)
(* bodies and of the plan fit together.                                     *)
QuietDownloadSucceeds ==
  pc = "exited" /\ cmd.kind = "download" /\ Quiet =>
    err = "nil" /\ disk[cmd.out] = server

(* A command touches no file but its OUT, delta-size none at all, and OUT   *)
(* is lost only once the local copy was found to be a zchunk file: a        *)
(* mistyped --local costs nothing (main.go:361-371, 155-172).               *)
OnlyOutIsLost ==
  [][\A p \in Paths : disk'[p] # disk[p] =>
       /\ cmd.kind \in {"download", "header"} /\ p = cmd.out
       /\ cmd.kind = "download" /\ cmd.local # "none" => loc.path = cmd.local]_vars

(* When the local copy, and the header the server sends, are still those of *)
(* the last delta-size, a download asks for exactly as many bytes as it     *)
(* reported, and takes the rest of the body from the local copy             *)
(* (main.go:147-150); sums that are too large are off by multiples of 2^64. *)
(* A local copy that is OUT is not the one it was when it was opened.       *)
ReportForetellsTheDownload ==
  /\ pc = "body" /\ report # NoReport /\ cmd.local = report.local /\ rh = report.rh
  /\ cmd.local = "none" \/ (cmd.local # cmd.out /\ disk[cmd.local] = report.held)
  =>
    /\ report.size.fetch = Uint64(Requested(plan))
    /\ report.size.total = Uint64(Total(CompLengths(target)))

(* A command ends, whatever the server and the files hold.                  *)
EveryCommandEnds == Running ~> ~Running

----------------------------------------------------------------------------
(* What the code says of itself and does not keep *)

(* "Local is true when the chunk's compressed bytes are already present in  *)
(* the local file" (delta.go:10-13).                                        *)
LocalMeansPresent ==
  pc = "body" =>
    \A n \in DOMAIN plan :
      plan[n].local /\ plan[n].length > 0 =>
        Sum(target.ckType, Slice(LocalBody, plan[n].offset, plan[n].length))
          = target.chunks[n].digest

----------------------------------------------------------------------------
(* The inductive invariant *)

(* A header as a command goes on with it: parsed and verified.              *)
Published(h) ==
  /\ h \in Seq(Unit) /\ Len(h) = BodyOffset
  /\ IsLead(h[1]) /\ IsHeader(h[2]) /\ VerifyHeader(h[1], h[2])

(* Files are units, and one that is long enough has a lead and a header.    *)
FilesParse ==
  /\ disk \in [Paths -> Seq(Unit)]
  /\ server \in ServerContents /\ seen \subseteq ServerContents
  /\ \A p \in Paths : Len(disk[p]) >= BodyOffset => Parses(disk[p])

(* Which commands get where, and that openLocal comes before the rest.      *)
CommandAtWork ==
  /\ pc # "idle" => cmd \in Commands
  /\ pc \in {"read file", "emit"} => cmd.kind = "header"
  /\ pc = "create" => cmd.kind \in {"download", "header"}
  /\ pc \in {"open local", "lead", "header", "plan"} => cmd.kind \in {"download", "delta-size"}
  /\ pc \in {"detached", "body", "abandon", "check", "close"} => cmd.kind = "download"
  /\ pc = "detached" => cmd.header # "none"
  /\ pc = "abandon" => err = "body"
  /\ ProperIndex(loc.index)
  /\ loc = NoLocal \/ (loc.path \in Paths /\ loc.size \in Nat)
  /\ /\ pc \in {"create", "detached", "lead", "header", "plan", "body"}
     /\ cmd.kind = "download" /\ cmd.local # "none"
     => loc.path = cmd.local

(* What a command holds in memory of a header has been verified before it   *)
(* is used or written.                                                      *)
HeaderVerified ==
  /\ pc \in {"create", "emit"} /\ cmd.kind = "header" => Published(prefix)
  /\ pc = "header" => prefix \in Seq(Unit) /\ prefix # <<>> /\ IsLead(prefix[1])
  /\ pc \in {"plan", "body", "check", "close"} \/ Downloaded => Published(rh)

(* Until a header is written OUT is empty; then it holds the header and the *)
(* chunks before next; at the end all of them, which the hash agrees with.  *)
OutHoldsTheChunks ==
  /\ pc = "emit" => disk[cmd.out] = <<>>
  /\ pc \in {"detached", "lead", "header", "plan"} /\ cmd.kind = "download" =>
       disk[cmd.out] = <<>>
  /\ pc \in {"body", "check", "close"} \/ Downloaded =>
       /\ next \in 1 .. Len(target.chunks) + 1
       /\ Len(disk[cmd.out]) = BodyOffset + Offsets(CompLengths(target))[next]
       /\ disk[cmd.out][1] = EmbeddedHeader(rh)[1] /\ disk[cmd.out][2] = rh[2]
  /\ pc \in {"check", "close"} \/ Downloaded => next = Len(target.chunks) + 1
  /\ pc = "close" \/ Downloaded => DataIntact

IInv ==
  /\ FilesParse
  /\ CommandAtWork
  /\ HeaderVerified
  /\ OutHoldsTheChunks
  /\ DiskHoldsVerifiedPrefixes

----------------------------------------------------------------------------
(* What a report says of a later download *)

IndexOfLocal(local, held) == IF local = "none" THEN NilIndex ELSE held[2].index

(* The index a command plans with is the one its local copy has on disk,    *)
(* unless the command writes over it.                                       *)
LocalIsOpened ==
  /\ pc \in {"idle", "exited", "open local", "read file"} => loc = NoLocal
  /\ /\ pc \in {"create", "detached", "lead", "header", "plan", "body"}
     /\ cmd.kind \in {"download", "delta-size"}
     => /\ cmd.local = "none" => loc.index = NilIndex
        /\ cmd.local # "none" /\ (cmd.kind = "delta-size" \/ cmd.local # cmd.out) =>
             loc.index = disk[cmd.local][2].index

(* What was reported is the size of the plan from the local copy as it was. *)
ReportIsOfItsFiles ==
  report # NoReport =>
    report.size = DeltaSize(PlanDelta(IndexOfLocal(report.local, report.held),
                                      report.rh[2].index))

IndexesAgree == LocalIsOpened /\ ReportIsOfItsFiles

----------------------------------------------------------------------------
(* How far a download has come when nothing fails or changes *)

Opened ==
  IF cmd.local = "none" THEN NoLocal
  ELSE [index |-> disk[cmd.local][2].index, path |-> cmd.local,
        size |-> Len(disk[cmd.local]) - BodyOffset]

QuietProgress ==
  /\ err = "nil" /\ pc # "abandon"
  /\ pc \in {"create", "detached", "lead", "header", "plan", "body"} => loc = Opened
  /\ pc = "header" => prefix[1] = server[1]
  /\ pc \in {"plan", "body", "check", "close"} => EmbeddedHeader(rh) = EmbeddedHeader(server)
  /\ pc = "body" =>
       /\ seen = {server}
       /\ disk[cmd.out] = SubSeq(server, 1, BodyOffset + Offsets(CompLengths(target))[next])
  /\ pc \in {"check", "close", "exited"} => disk[cmd.out] = server

QuietInv ==
  /\ republished \in Nat /\ kills \in Nat
  /\ pc # "idle" /\ cmd.kind = "download" /\ Quiet => QuietProgress
=============================================================================

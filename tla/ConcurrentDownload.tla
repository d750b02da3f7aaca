------------------------- MODULE ConcurrentDownload -------------------------
(***************************************************************************)
(* The commands of Download with AssembleBody itself assembling the body:   *)
(* its goroutines request ranges from a server that republishes, while the  *)
(* calling goroutine appends to OUT, and a kill ends all of them at once.   *)
(*                                                                         *)
(* The writer handed to AssembleBody is OUT, behind what the header has     *)
(* taken of it; the RangeReader is the HTTP reader shifted by BodyOffset.   *)
(* OUT is not the local copy here.                                          *)
(***************************************************************************)
EXTENDS Download

CONSTANT FetchConcurrency   \* defaultFetchConcurrency

ASSUME OutAssumption ==
  \A c \in Commands : c.kind = "download" => c.local # c.out

(* The lengths that a header gives add up to an int64.                      *)
ASSUME LengthsAssumption ==
  \A u \in Unit : IsHeader(u) => Fits(CompLengths(u.index))

ASSUME FetchConcurrencyAssumption == FetchConcurrency \in Nat \ {0}

VARIABLES
  call,                                            \* the arguments of AssembleBody
  bpc, bi, brun, bc, bpos, bwritten, berr, bout,   \* its calling goroutine
  worker, results, sem, wg                         \* the ones it starts

bodyVars == <<call, bpc, bi, brun, bc, bpos, bwritten, berr, bout, worker, results, sem, wg>>

(* ReadIndex has accepted the checksum types of the headers.                *)
ChecksumTypes == {u.index.ckType : u \in {v \in Unit : IsHeader(v)}}

A == INSTANCE AssembleBody WITH
  Jobs <- {}, Byte <- Unit, KnownChecksumTypes <- ChecksumTypes,
  job <- call, pc <- bpc, i <- bi, run <- brun, c <- bc, pos <- bpos,
  written <- bwritten, err <- berr, out <- bout

NoCall == [plan |-> <<>>]

NoBody ==
  /\ call' = NoCall /\ bpc' = "returned" /\ bi' = 1 /\ brun' = 1 /\ bc' = 0 /\ bpos' = 0
  /\ bwritten' = 0 /\ berr' = "nil" /\ bout' = <<>>
  /\ worker' = <<>> /\ results' = <<>> /\ sem' = 0 /\ wg' = 0

ConcurrentInit ==
  /\ Init
  /\ call = NoCall /\ bpc = "returned" /\ bi = 1 /\ brun = 1 /\ bc = 0 /\ bpos = 0
  /\ bwritten = 0 /\ berr = "nil" /\ bout = <<>>
  /\ worker = <<>> /\ results = <<>> /\ sem = 0 /\ wg = 0

(* plan.AssembleBody(rh.Index, localBody, body, bodyOut), if the header was *)
(* written.                                                                 *)
CallAssembleBody ==
  /\ WriteHeader
  /\ IF pc' = "body"
     THEN LET runs == RunStarts(plan)
          IN  /\ call' = [target |-> target, plan |-> plan, localBodies |-> {LocalBody},
                          contents |-> seen', base |-> BodyOffset, faulty |-> Faulty]
              /\ bpc' = "called" /\ bi' = 1 /\ brun' = 1 /\ bc' = 0 /\ bpos' = 0
              /\ bwritten' = 0 /\ berr' = "nil" /\ bout' = <<>>
              /\ worker'  = [k \in runs |-> "none"]
              /\ results' = [k \in runs |-> A!NoResult]
              /\ sem' = 0 /\ wg' = 0
     ELSE UNCHANGED bodyVars

(* A step of AssembleBody; what its writer receives is appended to OUT.     *)
StepOfBody ==
  /\ pc = "body"
  /\ A!Main \/ \E k \in DOMAIN worker : A!Worker(k)
  /\ AppendOut(SubSeq(bout', Len(bout) + 1, Len(bout')))
  /\ next' = bi' + bc'
  /\ UNCHANGED <<server, pc, cmd, err, rh, report, callVars, bounds>>

(* Fault: the body's error is dropped.                                      *)
AfterBodyAlways == "check"

AfterBody == IF berr = "nil" THEN "check" ELSE "abandon"

(* AssembleBody has returned: an error is passed on.                        *)
BodyReturns ==
  /\ pc = "body" /\ bpc = "returned"
  /\ pc' = AfterBody
  /\ err' = IF berr = "nil" THEN err ELSE "body"
  /\ NoBody
  /\ UNCHANGED <<disk, server, cmd, rh, next, report, callVars, bounds>>

ConcurrentProcess ==
  \/ /\ \/ OpenLocal \/ Create \/ ReadFile \/ EmitHeader
        \/ ReadDetachedHeader \/ FetchLead \/ FetchHeader \/ Report
        \/ Abandon \/ CheckData \/ Close
     /\ UNCHANGED bodyVars
  \/ CallAssembleBody \/ StepOfBody \/ BodyReturns

ConcurrentNext ==
  \/ \E c \in Commands : Start(c) /\ UNCHANGED bodyVars
  \/ ConcurrentProcess
  \/ Kill /\ NoBody
  \/ /\ Republish
     /\ IF pc = "body" THEN call' = [call EXCEPT !.contents = seen'] ELSE UNCHANGED call
     /\ UNCHANGED <<bpc, bi, brun, bc, bpos, bwritten, berr, bout, worker, results, sem, wg>>
  \/ Finished /\ UNCHANGED bodyVars

allVars == <<vars, bodyVars>>

(* A running process is scheduled, and its requests are answered or fail.   *)
ConcurrentSpec ==
  ConcurrentInit /\ [][ConcurrentNext]_allVars /\ WF_allVars(ConcurrentProcess)

----------------------------------------------------------------------------
(* Properties *)

BodyDone == pc = "body" /\ bpc \in {"wait", "returned"} /\ berr = "nil"
BodyLost == pc = "body" /\ berr # "nil"

PcOfDownload  == IF BodyDone THEN "check" ELSE IF BodyLost THEN "abandon" ELSE pc
ErrOfDownload == IF BodyLost THEN "body" ELSE err

D == INSTANCE Download WITH pc <- PcOfDownload, err <- ErrOfDownload

(* Whatever the goroutines do, in whatever order the server answers them,   *)
(* from whichever of its contents, the commands behave as Download says,    *)
(* where the body is a stream of verified chunks: what is checked of        *)
(* Download holds of the program with its concurrency (remote.go:195-200,   *)
(* download.go:49-141).                                                     *)
ImplementsDownload == D!Spec

----------------------------------------------------------------------------
(* The inductive invariant *)

(* What a command has in memory and in its OUT when it needs it; without a  *)
(* local copy nothing was opened.                                           *)
ReadyToWrite ==
  /\ disk \in [Paths -> Seq(Unit)]
  /\ server \in ServerContents /\ seen \subseteq ServerContents
  /\ pc \notin {"exited", "abandon"} => err = "nil"
  /\ pc = "emit" \/ (pc = "create" /\ cmd.kind = "header") => prefix \in Seq(Unit)
  /\ pc = "header" => prefix \in Seq(Unit) /\ prefix # <<>> /\ IsLead(prefix[1])
  /\ pc \in {"plan", "body"} => Published(rh)
  /\ pc = "body" => Len(disk[cmd.out]) >= BodyOffset
  /\ pc \in {"idle", "exited", "open local"} => loc = NoLocal
  /\ /\ pc \in {"create", "detached", "lead", "header", "plan", "body"}
     /\ cmd.kind = "download" /\ cmd.local = "none"
     => loc = NoLocal

(* The body is assembled from the plan at hand, and next is the chunk that  *)
(* the call is at.                                                          *)
CallIsOfThePlan ==
  /\ call = [target |-> target, plan |-> plan, localBodies |-> {LocalBody},
             contents |-> seen, base |-> BodyOffset, faulty |-> Faulty]
  /\ next = bi + bc

(* A run's result is the server's answer to its request, or an error that   *)
(* something has caused.                                                    *)
ResultsAreAnswers ==
  \A k \in RunStarts(plan) :
    worker[k] \in {"fetched", "ready", "released", "done"} =>
      \/ ~results[k].err /\ results[k].data \in RunAnswers(k)
      \/ /\ results[k].err
         /\ Faulty \/ \E a \in RunAnswers(k) : Len(a) # RemoteRun(plan, k).length

ConcurrentInv ==
  /\ CommandAtWork
  /\ ReadyToWrite
  /\ pc = "body" => A!CallInv /\ CallIsOfThePlan /\ ResultsAreAnswers
=============================================================================

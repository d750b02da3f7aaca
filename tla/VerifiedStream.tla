--------------------------- MODULE VerifiedStream ---------------------------
(***************************************************************************)
(* What reconstructing a body promises to the writer it writes to: the     *)
(* chunks of the target in order, each one only after its bytes matched    *)
(* the digest the index records for it, then completion; or failure, with  *)
(* at most a part of one more chunk written.  Nothing is said of where the *)
(* bytes come from, nor of the concurrency used to get them.               *)
(***************************************************************************)
EXTENDS Naturals, Sequences

CONSTANTS
  Targets,    \* the indexes a body may be reconstructed for
  Sum(_, _)   \* the digest of some bytes under a checksum type

VARIABLES
  target,  \* the index of the body
  next,    \* the chunk that comes next
  out,     \* the bytes the writer has received
  status   \* "open", "complete" or "failed"

vars == <<target, next, out, status>>

Init ==
  /\ target \in Targets
  /\ next = 1
  /\ out = <<>>
  /\ status = "open"

Open == status = "open" /\ next \in DOMAIN target.chunks

(* The bytes the writer receives in a step.                                 *)
Gained == SubSeq(out', Len(out) + 1, Len(out'))

SkipEmpty ==
  /\ Open /\ target.chunks[next].compLength = 0
  /\ next' = next + 1
  /\ UNCHANGED <<target, out, status>>

Deliver ==
  /\ Open
  /\ out' = out \o Gained
  /\ Len(Gained) = target.chunks[next].compLength
  /\ Sum(target.ckType, Gained) = target.chunks[next].digest
  /\ next' = next + 1
  /\ UNCHANGED <<target, status>>

Break ==
  /\ status = "open"
  /\ status' = "failed"
  /\ out' = out \o Gained
  /\ \/ Gained = <<>>
     \/ Open /\ Len(Gained) < target.chunks[next].compLength
  /\ UNCHANGED <<target, next>>

Complete ==
  /\ status = "open"
  /\ next = Len(target.chunks) + 1
  /\ status' = "complete"
  /\ UNCHANGED <<target, next, out>>

Next == SkipEmpty \/ Deliver \/ Break \/ Complete

Spec == Init /\ [][Next]_vars
=============================================================================

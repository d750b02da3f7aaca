------------------------------ MODULE DictSelect ------------------------------
(***************************************************************************)
(* The choice of a dictionary's content (internal/zchunk/zdict.go):         *)
(* selectDictContent picks the best segment of the samples again and again, *)
(* bestSegment finds it by sliding a window over every sample, keeping the  *)
(* window's score and its multiset of dmers up to date byte by byte.  A     *)
(* step of the model is one window.                                         *)
(***************************************************************************)
EXTENDS Integers, Sequences, FiniteSetsExt

CONSTANTS
  Corpora,     \* the samples to choose from: sequences of sequences of bytes
  Targets,     \* targetSize
  DmerLen,     \* dmerLen (8 in the code)
  SegLen,      \* segLen (256 in the code)
  Word         \* frequencies and scores are integers modulo Word (2^32 in the code)

Byte == 0 .. 255

ASSUME DictSelectAssumption ==
  /\ Corpora \subseteq Seq(Seq(Byte))
  /\ DmerLen \in Nat \ {0} /\ SegLen \in Nat /\ SegLen >= DmerLen
  /\ Targets \subseteq Nat /\ Word \in Nat \ {0, 1}

VARIABLES
  samples, target,
  pc,         \* "sample", "window" of bestSegment, "pick", "done"
  freq,       \* the dmers' frequencies; 0 when retired
  k,          \* the sample that bestSegment is at
  start,      \* where its window starts
  active,     \* the multiset of the dmers in the window
  score,
  best,       \* bestSegment's best so far, and its score
  bestScore,
  content,    \* what has been selected
  last        \* the score of the latest pick; at first more than any

vars == <<samples, target, pc, freq, k, start, active, score, best, bestScore, content, last>>

----------------------------------------------------------------------------
(* Dmers *)

Positions(s) == {i \in 1 .. Len(s) : i + DmerLen - 1 <= Len(s)}
DmerAt(s, i) == SubSeq(s, i, i + DmerLen - 1)
DmersOf(s)   == {DmerAt(s, i) : i \in Positions(s)}

AllDmers(ss) == UNION {DmersOf(ss[n]) : n \in DOMAIN ss}

Occurrences(s, d) == Cardinality({i \in Positions(s) : DmerAt(s, i) = d})

Frequency(ss, d) == SumFunction([n \in DOMAIN ss |-> Occurrences(ss[n], d)])

Window(s) == IF SegLen > Len(s) THEN Len(s) ELSE SegLen

(* The definition: the combined frequency of the distinct dmers.            *)
Value(s) == SumFunctionOnSet(freq, DmersOf(s)) % Word

Minus(a, b) == (a + Word - b) % Word

----------------------------------------------------------------------------

Init ==
  /\ samples \in Corpora /\ target \in Targets
  /\ freq = [d \in AllDmers(samples) |-> Frequency(samples, d) % Word]
  /\ pc = IF freq = <<>> \/ target = 0 THEN "done" ELSE "sample"
  /\ k = 1 /\ start = 1 /\ active = <<>> /\ score = 0
  /\ best = <<>> /\ bestScore = 0
  /\ content = <<>>
  /\ last = Word

(* Fault: the last window of a sample is not tried.                         *)
MoreWindowsButOne == start + Window(samples[k]) < Len(samples[k])

MoreWindows == start + Window(samples[k]) <= Len(samples[k])

(* A window that beats the best becomes the best.                           *)
Compare(window, value) ==
  IF value > bestScore THEN best' = window /\ bestScore' = value
  ELSE UNCHANGED <<best, bestScore>>

(* The first window of the next sample that has a dmer.                     *)
FirstWindow ==
  /\ pc = "sample" /\ k <= Len(samples)
  /\ LET s     == samples[k]
         first == SubSeq(s, 1, Window(s))
     IN  IF Len(s) < DmerLen
         THEN k' = k + 1 /\ UNCHANGED <<pc, start, active, score, best, bestScore>>
         ELSE /\ pc' = "window" /\ start' = 1
              /\ active' = [d \in DOMAIN freq |-> Occurrences(first, d)]
              /\ score' = Value(first)
              /\ Compare(first, Value(first))
              /\ UNCHANGED k
  /\ UNCHANGED <<samples, target, freq, content, last>>

(* Fault: the dmer that leaves is still in the window when the other comes. *)
ComesAnewBefore(before, after, d) == before[d] = 0

(* The window had none of the dmer that comes, once the other has left.     *)
ComesAnew(before, after, d) == after[d] = 0

(* The window moves by one byte: a dmer leaves, a dmer comes.               *)
Slide ==
  /\ pc = "window" /\ MoreWindows
  /\ LET s       == samples[k]
         w       == Window(s)
         leaving == DmerAt(s, start)
         coming  == DmerAt(s, start + 1 + w - DmerLen)
         less    == [active EXCEPT ![leaving] = @ - 1]
         reduced == IF less[leaving] = 0 THEN Minus(score, freq[leaving]) ELSE score
         value   == IF ComesAnew(active, less, coming) THEN (reduced + freq[coming]) % Word
                    ELSE reduced
     IN  /\ active' = [less EXCEPT ![coming] = @ + 1]
         /\ score' = value
         /\ Compare(SubSeq(s, start + 1, start + w), value)
  /\ start' = start + 1
  /\ UNCHANGED <<samples, target, pc, freq, k, content, last>>

SampleDone ==
  /\ pc = "window" /\ ~MoreWindows
  /\ pc' = "sample" /\ k' = k + 1
  /\ UNCHANGED <<samples, target, freq, start, active, score, best, bestScore, content, last>>

ScanDone ==
  /\ pc = "sample" /\ k > Len(samples)
  /\ pc' = "pick"
  /\ UNCHANGED <<samples, target, freq, k, start, active, score, best, bestScore, content, last>>

(* Fault: the dmers lose the occurrences they have in the segment; a second *)
(* time that may be more than is left, and wraps.                           *)
RetireCounted(seg) == [d \in DOMAIN freq |-> Minus(freq[d], Occurrences(seg, d) % Word)]

(* The dmers of a segment are worth nothing from now on.                    *)
Retire(seg) == [d \in DOMAIN freq |-> IF d \in DmersOf(seg) THEN 0 ELSE freq[d]]

(* What the content has room for.                                           *)
Room == target - Len(content)

(* Fault: what occurs once is not taken.                                    *)
WorthlessOnce == bestScore <= 1

(* Fault: only samples without any dmer are given up.                       *)
WorthlessNever == FALSE

Worthless == bestScore = 0

(* The best segment is taken, cut to the room that is left, and put before  *)
(* what there is; then the search starts anew.                              *)
Pick ==
  /\ pc = "pick"
  /\ IF Worthless
     THEN pc' = "done" /\ UNCHANGED <<freq, content, last, k, best, bestScore>>
     ELSE /\ freq' = Retire(best)
          /\ content' = (IF Len(best) > Room THEN SubSeq(best, 1, Room) ELSE best) \o content
          /\ last' = bestScore
          /\ pc' = IF Len(content') < target THEN "sample" ELSE "done"
          /\ k' = 1 /\ best' = <<>> /\ bestScore' = 0
  /\ UNCHANGED <<samples, target, start, active, score>>

Done == pc = "done" /\ UNCHANGED vars

Next == FirstWindow \/ Slide \/ SampleDone \/ ScanDone \/ Pick \/ Done

Spec == Init /\ [][Next]_vars /\ WF_vars(Next)

----------------------------------------------------------------------------
(* Properties *)

(* The windows of sample n, by where they start.                            *)
Windows(n)     == 1 .. Len(samples[n]) - Window(samples[n]) + 1
WindowAt(n, i) == SubSeq(samples[n], i, i + Window(samples[n]) - 1)

(* No frequency and no window's score reaches the word.                     *)
Counted(window) == SumFunction([d \in DmersOf(window) |-> Frequency(samples, d)])
NothingWraps == \A n \in DOMAIN samples : \A i \in Windows(n) : Counted(WindowAt(n, i)) < Word

(* The score that is kept up to date byte by byte is the window's value by  *)
(* the definition (zdict.go:102-104), and the multiset is the window's.     *)
(* That is so even where frequencies and scores wrap.                       *)
ScoreIsTheValue ==
  pc = "window" =>
    /\ score = Value(WindowAt(k, start))
    /\ \A d \in DOMAIN active : active[d] = Occurrences(WindowAt(k, start), d)

(* What bestSegment returns: a window of some sample, and none is worth     *)
(* more (zdict.go:102-104).                                                 *)
BestIsTheBest ==
  pc = "pick" =>
    /\ \A n \in DOMAIN samples : \A i \in Windows(n) : Value(WindowAt(n, i)) <= bestScore
    /\ bestScore = Value(best)
    /\ best # <<>> => \E n \in DOMAIN samples : \E i \in Windows(n) : best = WindowAt(n, i)

(* A later pick is never worth more than an earlier one: "most valuable     *)
(* segment last, nearest the data" (zdict.go:67-69), as long as no score    *)
(* wraps.                                                                   *)
PicksGetWorse == pc = "pick" /\ NothingWraps => bestScore <= last

(* The selection ends, whatever wraps: every pick retires a dmer that was   *)
(* worth something, or fills the content.                                   *)
SelectionEnds == <>(pc = "done")

(* The content never exceeds its target, and when the selection ends short  *)
(* of it nothing of value is left: the content has every dmer of the        *)
(* samples that a window can show.  A score that wraps to zero would end it *)
(* too early.                                                               *)
NothingOfValueIsLeft ==
  /\ Len(content) <= target
  /\ pc = "done" /\ Len(content) < target /\ NothingWraps => \A d \in DOMAIN freq : freq[d] = 0

----------------------------------------------------------------------------
(* Why the safety properties hold: the inductive invariant.                 *)

SelectionTypes ==
  /\ samples \in Corpora /\ target \in Targets
  /\ pc \in {"sample", "window", "pick", "done"}
  /\ freq \in [AllDmers(samples) -> 0 .. Word - 1]
  /\ k \in 1 .. Len(samples) + 1
  /\ content \in Seq(Byte) /\ best \in Seq(Byte)
  /\ bestScore \in 0 .. Word - 1
  /\ last \in 0 .. Word

(* The window lies in a sample that has a dmer.                             *)
WindowInSample ==
  pc = "window" =>
    /\ k <= Len(samples) /\ start \in Windows(k) /\ DmerLen <= Len(samples[k])
    /\ DOMAIN active = DOMAIN freq

(* Of the windows tried so far none beats the best.                         *)
NoneIsBetter ==
  /\ pc = "pick" => k = Len(samples) + 1
  /\ pc # "done" =>
       \A n \in DOMAIN samples : \A i \in Windows(n) :
         n < k \/ (n = k /\ pc = "window" /\ i <= start) => Value(WindowAt(n, i)) <= bestScore
  /\ pc # "done" => bestScore = Value(best)
  /\ best # <<>> => \E n \in DOMAIN samples : \E i \in Windows(n) : best = WindowAt(n, i)

(* Frequencies only decrease, and so does what a window is worth.           *)
WorthDecreases ==
  NothingWraps =>
    /\ \A d \in DOMAIN freq : freq[d] <= Frequency(samples, d)
    /\ pc # "done" => \A n \in DOMAIN samples : \A i \in Windows(n) : Value(WindowAt(n, i)) <= last

IInv ==
  /\ SelectionTypes /\ WindowInSample /\ ScoreIsTheValue
  /\ NoneIsBetter /\ BestIsTheBest /\ WorthDecreases /\ PicksGetWorse
  /\ NothingOfValueIsLeft
=============================================================================

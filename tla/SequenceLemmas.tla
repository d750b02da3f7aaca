--------------------------- MODULE SequenceLemmas ---------------------------
(***************************************************************************)
(* Facts that several proofs share: what a write appends, how parts of one  *)
(* sequence fit together, what the running totals over an index are, what a *)
(* remainder is, what a recursive function is, what a sum over a set is and *)
(* what the chunks of a body are, one after the other.                      *)
(***************************************************************************)
EXTENDS RunningTotals, SequencesExt, SequenceTheorems, FiniteSetTheorems, WellFoundedInduction, TLAPS

(* A part of a sequence has the elements and the length one expects.        *)
LEMMA SubSeqFacts ==
  ASSUME NEW S, NEW s \in Seq(S), NEW a \in 0 .. Len(s), NEW b \in a .. Len(s)
  PROVE  /\ SubSeq(s, a + 1, b) \in Seq(S)
         /\ Len(SubSeq(s, a + 1, b)) = b - a
         /\ \A k \in 1 .. b - a : SubSeq(s, a + 1, b)[k] = s[a + k]
<1>1. a \in Nat /\ b \in Nat /\ Len(s) \in Nat /\ a <= b /\ b <= Len(s)
  BY LenProperties
<1>2. \A k \in a + 1 .. b : s[k] \in S
  <2> SUFFICES ASSUME NEW k \in a + 1 .. b PROVE s[k] \in S
    OBVIOUS
  <2>1. k \in 1 .. Len(s)
    BY <1>1
  <2> QED BY <2>1, ElementOfSeq
<1> DEFINE t == SubSeq(s, a + 1, b)
<1>3. /\ t \in Seq(S)
      /\ Len(t) = IF a + 1 <= b THEN b - (a + 1) + 1 ELSE 0
      /\ \A k \in 1 .. b - (a + 1) + 1 : t[k] = s[(a + 1) + k - 1]
  <2>1. a + 1 \in Int /\ b \in Int
    BY <1>1
  <2> QED BY <1>2, <2>1, SubSeqProperties
<1> HIDE DEF t
<1>4. Len(t) = b - a
  BY <1>1, <1>3
<1>5. \A k \in 1 .. b - a : t[k] = s[a + k]
  <2> SUFFICES ASSUME NEW k \in 1 .. b - a PROVE t[k] = s[a + k]
    OBVIOUS
  <2>1. k \in 1 .. b - (a + 1) + 1 /\ (a + 1) + k - 1 = a + k
    BY <1>1
  <2> QED BY <1>3, <2>1
<1> QED BY <1>3, <1>4, <1>5 DEF t

(* What was appended is what follows the old sequence in the new one.       *)
LEMMA AppendedSuffix ==
  ASSUME NEW S, NEW s \in Seq(S), NEW g \in Seq(S)
  PROVE  SubSeq(s \o g, Len(s) + 1, Len(s \o g)) = g
<1> DEFINE t == s \o g
<1>1. /\ t \in Seq(S) /\ Len(t) = Len(s) + Len(g) /\ Len(s) \in Nat /\ Len(g) \in Nat
      /\ \A k \in 1 .. Len(s) + Len(g) : t[k] = IF k <= Len(s) THEN s[k] ELSE g[k - Len(s)]
  BY ConcatProperties
<1> HIDE DEF t
<1> DEFINE u == SubSeq(t, Len(s) + 1, Len(t))
<1>2. u \in Seq(S) /\ Len(u) = Len(t) - Len(s) /\ \A k \in 1 .. Len(t) - Len(s) : u[k] = t[Len(s) + k]
  <2>1. Len(s) \in 0 .. Len(t) /\ Len(t) \in Len(s) .. Len(t)
    BY <1>1
  <2> QED BY <1>1, <2>1, SubSeqFacts
<1> HIDE DEF u
<1>3. \A k \in 1 .. Len(g) : u[k] = g[k]
  <2> SUFFICES ASSUME NEW k \in 1 .. Len(g) PROVE u[k] = g[k]
    OBVIOUS
  <2>1. /\ Len(s) + k \in 1 .. Len(s) + Len(g) /\ ~(Len(s) + k <= Len(s))
        /\ (Len(s) + k) - Len(s) = k /\ k \in 1 .. Len(t) - Len(s)
    BY <1>1
  <2> QED BY <1>1, <1>2, <2>1
<1>4. Len(u) = Len(g)
  BY <1>1, <1>2
<1>5. u = g
  BY <1>2, <1>3, <1>4, SeqEqual
<1> QED BY <1>5 DEF t, u

(* The first m elements of a part of a sequence, behind what precedes it.   *)
LEMMA PrefixExtends ==
  ASSUME NEW S, NEW s \in Seq(S), NEW a \in 0 .. Len(s), NEW b \in a .. Len(s),
         NEW m \in 0 .. b - a
  PROVE  SubSeq(s, 1, a) \o SubSeq(SubSeq(s, a + 1, b), 1, m) = SubSeq(s, 1, a + m)
<1> DEFINE part == SubSeq(s, a + 1, b)
<1>1. a \in Nat /\ b \in Nat /\ m \in Nat /\ Len(s) \in Nat /\ b <= Len(s) /\ a + m <= b
  BY LenProperties
<1>2. part \in Seq(S) /\ Len(part) = b - a /\ \A k \in 1 .. b - a : part[k] = s[a + k]
  BY SubSeqFacts
<1> HIDE DEF part
<1> DEFINE l == SubSeq(part, 1, m)
           r == SubSeq(s, a + 1, a + m)
<1>3. l \in Seq(S) /\ Len(l) = m /\ \A k \in 1 .. m : l[k] = part[k]
  <2>1. 0 \in 0 .. Len(part) /\ m \in 0 .. Len(part) /\ 0 + 1 = 1 /\ m - 0 = m
        /\ \A k \in 1 .. m : 0 + k = k
    BY <1>1, <1>2
  <2>2. /\ SubSeq(part, 0 + 1, m) \in Seq(S) /\ Len(SubSeq(part, 0 + 1, m)) = m - 0
        /\ \A k \in 1 .. m - 0 : SubSeq(part, 0 + 1, m)[k] = part[0 + k]
    BY <1>2, <2>1, SubSeqFacts
  <2> QED BY <2>1, <2>2
<1>4. r \in Seq(S) /\ Len(r) = m /\ \A k \in 1 .. m : r[k] = s[a + k]
  <2>1. a \in 0 .. Len(s) /\ a + m \in a .. Len(s) /\ (a + m) - a = m
    BY <1>1
  <2>2. /\ r \in Seq(S) /\ Len(r) = (a + m) - a
        /\ \A k \in 1 .. (a + m) - a : r[k] = s[a + k]
    BY <2>1, SubSeqFacts
  <2> QED BY <2>1, <2>2
<1> HIDE DEF l, r
<1>5. l = r
  <2>1. \A k \in 1 .. m : l[k] = r[k]
    <3> SUFFICES ASSUME NEW k \in 1 .. m PROVE l[k] = r[k]
      OBVIOUS
    <3>1. k \in 1 .. b - a
      BY <1>1
    <3> QED BY <1>2, <1>3, <1>4, <3>1
  <2> QED BY <1>3, <1>4, <2>1, SeqEqual
<1>6. SubSeq(s, 1, a) \o r = SubSeq(s, 1, a + m)
  <2>1. 1 \in 1 .. Len(s) + 1 /\ a \in 1 - 1 .. Len(s) /\ a + m \in a .. Len(s)
    BY <1>1
  <2> QED BY <2>1, ConcatAdjacentSubSeq DEF r
<1> QED BY <1>5, <1>6 DEF l, part

(* A part of the beginning of a sequence is a part of the sequence.         *)
LEMMA PartOfPrefix ==
  ASSUME NEW S, NEW s \in Seq(S), NEW n \in 0 .. Len(s), NEW a \in 0 .. n, NEW b \in a .. n
  PROVE  SubSeq(SubSeq(s, 1, n), a + 1, b) = SubSeq(s, a + 1, b)
<1> DEFINE t == SubSeq(s, 1, n)
           l == SubSeq(t, a + 1, b)
           r == SubSeq(s, a + 1, b)
<1>1. a \in Nat /\ b \in Nat /\ n \in Nat /\ Len(s) \in Nat /\ a <= b /\ b <= n /\ n <= Len(s)
  BY LenProperties
<1>2. t \in Seq(S) /\ Len(t) = n /\ \A k \in 1 .. n : t[k] = s[k]
  <2>1. 0 \in 0 .. Len(s) /\ n \in 0 .. Len(s) /\ 0 + 1 = 1 /\ n - 0 = n /\ \A k \in 1 .. n : 0 + k = k
    BY <1>1
  <2>2. /\ SubSeq(s, 0 + 1, n) \in Seq(S) /\ Len(SubSeq(s, 0 + 1, n)) = n - 0
        /\ \A k \in 1 .. n - 0 : SubSeq(s, 0 + 1, n)[k] = s[0 + k]
    BY <2>1, SubSeqFacts
  <2> QED BY <2>1, <2>2
<1> HIDE DEF t
<1>3. l \in Seq(S) /\ Len(l) = b - a /\ \A k \in 1 .. b - a : l[k] = t[a + k]
  <2>1. a \in 0 .. Len(t) /\ b \in a .. Len(t)
    BY <1>1, <1>2
  <2> QED BY <1>2, <2>1, SubSeqFacts
<1>4. r \in Seq(S) /\ Len(r) = b - a /\ \A k \in 1 .. b - a : r[k] = s[a + k]
  <2>1. a \in 0 .. Len(s) /\ b \in a .. Len(s)
    BY <1>1
  <2> QED BY <2>1, SubSeqFacts
<1> HIDE DEF l, r
<1>5. \A k \in 1 .. b - a : l[k] = r[k]
  <2> SUFFICES ASSUME NEW k \in 1 .. b - a PROVE l[k] = r[k]
    OBVIOUS
  <2>1. a + k \in 1 .. n
    BY <1>1
  <2> QED BY <1>2, <1>3, <1>4, <2>1
<1>6. l = r
  BY <1>3, <1>4, <1>5, SeqEqual
<1> QED BY <1>6 DEF l, r, t

(* A sequence that agrees with a shorter one and has one element more.      *)
LEMMA OneMore ==
  ASSUME NEW S, NEW s \in Seq(S), NEW t \in Seq(S), Len(t) = Len(s) + 1,
         \A k \in 1 .. Len(s) : t[k] = s[k]
  PROVE  t = Append(s, t[Len(s) + 1])
<1> DEFINE n == Len(s)
           u == Append(s, t[n + 1])
<1>1. n \in Nat /\ t[n + 1] \in S
  <2>1. n \in Nat /\ n + 1 \in 1 .. Len(t)
    BY LenProperties
  <2> QED BY <2>1, ElementOfSeq
<1>2. /\ u \in Seq(S) /\ Len(u) = n + 1 /\ u[n + 1] = t[n + 1]
      /\ \A k \in 1 .. n : u[k] = s[k]
  BY <1>1, AppendProperties
<1> HIDE DEF u
<1>3. \A k \in 1 .. n + 1 : u[k] = t[k]
  <2>1. \A k \in 1 .. n + 1 : k \in 1 .. n \/ k = n + 1
    BY <1>1
  <2> QED BY <1>2, <2>1
<1> QED BY <1>2, <1>3, SeqEqual DEF u

----------------------------------------------------------------------------
(* Running totals *)

(* A set of natural numbers that is not empty has a least element: the      *)
(* induction principle of the proofs below.                                 *)
LEMMA NatMin ==
  ASSUME NEW T, T \subseteq Nat, T # {}
  PROVE  \E x \in T : \A y \in T : x <= y
<1>1. PICK x \in T : \A y \in T : ~ (<<y, x>> \in OpToRel(<, Nat))
  BY WFMin, NatLessThanWellFounded
<1>2. \A y \in T : ~(y < x)
  BY <1>1 DEF OpToRel
<1> QED BY <1>2

(* The recursive definition in Offsets has a solution: the least prefix     *)
(* without one would extend the prefix before it.                           *)
LEMMA OffsetsExist ==
  ASSUME NEW lens, Len(lens) \in Nat, \A i \in 1 .. Len(lens) : lens[i] \in Nat
  PROVE  \A n \in 1 .. Len(lens) + 1 : \E f \in [1 .. n -> Nat] :
            \A i \in 1 .. n : f[i] = IF i = 1 THEN 0 ELSE f[i - 1] + lens[i - 1]
<1> DEFINE Rec(f, n) == \A i \in 1 .. n : f[i] = IF i = 1 THEN 0 ELSE f[i - 1] + lens[i - 1]
           Bad == {n \in 1 .. Len(lens) + 1 : ~ \E f \in [1 .. n -> Nat] : Rec(f, n)}
<1>1. SUFFICES ASSUME Bad # {} PROVE FALSE
  OBVIOUS
<1>2. PICK n \in Bad : \A m \in Bad : n <= m
  <2>1. Bad \subseteq Nat OBVIOUS
  <2> HIDE DEF Bad
  <2> QED BY <1>1, <2>1, NatMin
<1>3. n # 1
  <2>1. [i \in 1 .. 1 |-> 0] \in [1 .. 1 -> Nat] OBVIOUS
  <2>2. Rec([i \in 1 .. 1 |-> 0], 1) OBVIOUS
  <2> QED BY <2>1, <2>2
<1>4. PICK f \in [1 .. n - 1 -> Nat] : Rec(f, n - 1)
  <2>1. n - 1 \in 1 .. Len(lens) + 1 BY <1>2, <1>3
  <2>2. n - 1 \notin Bad
    <3>1. n \in Nat /\ n - 1 < n OBVIOUS
    <3> HIDE DEF Bad
    <3> QED BY <1>2, <2>1, <3>1
  <2> QED BY <2>1, <2>2
<1> DEFINE g == [i \in 1 .. n |-> IF i = n THEN f[n - 1] + lens[n - 1] ELSE f[i]]
<1>5. g \in [1 .. n -> Nat] BY <1>3
<1>6. Rec(g, n) BY <1>3, <1>4
<1> QED BY <1>5, <1>6

(* The running total of the loops over an index, as an equation.            *)
LEMMA OffsetsUnfold ==
  ASSUME NEW lens, Len(lens) \in Nat, \A i \in 1 .. Len(lens) : lens[i] \in Nat
  PROVE  /\ Offsets(lens) \in [1 .. Len(lens) + 1 -> Nat]
         /\ \A i \in 1 .. Len(lens) + 1 :
              Offsets(lens)[i] = IF i = 1 THEN 0 ELSE Offsets(lens)[i - 1] + lens[i - 1]
<1> DEFINE n == Len(lens) + 1
           Rec(f) == [i \in 1 .. n |-> IF i = 1 THEN 0 ELSE f[i - 1] + lens[i - 1]]
           off == CHOOSE f : f = Rec(f)
<1>1. Offsets(lens) = off
  BY Zenon DEF Offsets
<1>2. PICK f \in [1 .. n -> Nat] :
         \A i \in 1 .. n : f[i] = IF i = 1 THEN 0 ELSE f[i - 1] + lens[i - 1]
  <2>1. n \in 1 .. Len(lens) + 1 OBVIOUS
  <2> QED BY <2>1, OffsetsExist
<1>3. f = Rec(f)
  BY <1>2
<1>4. off = Rec(off)
  <2> HIDE DEF Rec
  <2> QED BY <1>3
<1> DEFINE Bad == {i \in 1 .. n : off[i] \notin Nat}
<1>5. \A i \in 1 .. n : off[i] = IF i = 1 THEN 0 ELSE off[i - 1] + lens[i - 1]
  <2> HIDE DEF off
  <2> QED BY <1>4
<1>6. Bad = {}
  <2>1. SUFFICES ASSUME Bad # {} PROVE FALSE
    OBVIOUS
  <2>2. PICK m \in Bad : \A k \in Bad : m <= k
    <3>1. Bad \subseteq Nat OBVIOUS
    <3> HIDE DEF Bad
    <3> QED BY <2>1, <3>1, NatMin
  <2> HIDE DEF off
  <2>3. m \in 1 .. n /\ off[m] \notin Nat
    OBVIOUS
  <2>4. m # 1
    BY <1>5, <2>3
  <2>5. m - 1 \in 1 .. n /\ m - 1 < m
    BY <2>3, <2>4
  <2>6. off[m - 1] \in Nat
    BY <2>2, <2>5
  <2> QED BY <1>5, <2>3, <2>4, <2>6
<1>7. off \in [1 .. n -> Nat]
  <2> HIDE DEF off
  <2> QED BY <1>4, <1>6
<1> QED BY <1>1, <1>5, <1>7

(* Nothing else satisfies the equation.                                     *)
LEMMA OffsetsUnique ==
  ASSUME NEW lens, Len(lens) \in Nat, \A i \in 1 .. Len(lens) : lens[i] \in Nat,
         NEW at, at[1] = 0, \A i \in 1 .. Len(lens) : at[i + 1] = at[i] + lens[i]
  PROVE  \A i \in 1 .. Len(lens) + 1 : Offsets(lens)[i] = at[i]
<1> DEFINE Bad == {i \in 1 .. Len(lens) + 1 : Offsets(lens)[i] # at[i]}
<1>1. SUFFICES ASSUME Bad # {} PROVE FALSE
  OBVIOUS
<1>2. PICK i \in Bad : \A m \in Bad : i <= m
  <2>1. Bad \subseteq Nat
    OBVIOUS
  <2> HIDE DEF Bad
  <2> QED BY <1>1, <2>1, NatMin
<1>3. \A j \in 1 .. Len(lens) + 1 :
        Offsets(lens)[j] = IF j = 1 THEN 0 ELSE Offsets(lens)[j - 1] + lens[j - 1]
  BY OffsetsUnfold
<1>4. i \in 1 .. Len(lens) + 1 /\ i \in Nat /\ Offsets(lens)[i] # at[i]
  BY <1>2
<1>5. i # 1
  BY <1>3, <1>4
<1>6. i - 1 \in 1 .. Len(lens) /\ ~(i <= i - 1) /\ (i - 1) + 1 = i
      /\ i - 1 \in 1 .. Len(lens) + 1
  BY <1>4, <1>5
<1>7. i - 1 \notin Bad
  <2> HIDE DEF Bad
  <2> QED BY <1>2, <1>6
<1>8. Offsets(lens)[i - 1] = at[i - 1] /\ at[i] = at[i - 1] + lens[i - 1]
  BY <1>6, <1>7
<1> QED BY <1>3, <1>4, <1>5, <1>8

(* Offsets never decrease, so a chunk of a run ends inside the run.         *)
LEMMA OffsetsMonotonic ==
  ASSUME NEW lens, Len(lens) \in Nat, \A i \in 1 .. Len(lens) : lens[i] \in Nat,
         NEW m \in 1 .. Len(lens) + 1
  PROVE  \A n \in m .. Len(lens) + 1 : Offsets(lens)[m] <= Offsets(lens)[n]
<1> DEFINE Bad == {n \in m .. Len(lens) + 1 : ~(Offsets(lens)[m] <= Offsets(lens)[n])}
<1>1. SUFFICES ASSUME Bad # {} PROVE FALSE
  OBVIOUS
<1>2. PICK n \in Bad : \A k \in Bad : n <= k
  <2>1. Bad \subseteq Nat OBVIOUS
  <2> HIDE DEF Bad
  <2> QED BY <1>1, <2>1, NatMin
<1>3. /\ Offsets(lens) \in [1 .. Len(lens) + 1 -> Nat]
      /\ \A i \in 1 .. Len(lens) + 1 :
           Offsets(lens)[i] = IF i = 1 THEN 0 ELSE Offsets(lens)[i - 1] + lens[i - 1]
  BY OffsetsUnfold
<1>4. n # m
  BY <1>2, <1>3
<1>5. n \in Nat /\ n - 1 \in m .. Len(lens) + 1 /\ n - 1 < n /\ n - 1 \in 1 .. Len(lens)
  BY <1>2, <1>4
<1>6. n - 1 \notin Bad
  <2> HIDE DEF Bad
  <2> QED BY <1>2, <1>5
<1>7. Offsets(lens)[m] <= Offsets(lens)[n - 1]
  BY <1>5, <1>6
<1>8. Offsets(lens)[n] = Offsets(lens)[n - 1] + lens[n - 1]
  BY <1>2, <1>3, <1>4
<1>9. /\ Offsets(lens)[m] \in Nat /\ Offsets(lens)[n - 1] \in Nat
      /\ lens[n - 1] \in Nat
  <2>1. m \in 1 .. Len(lens) + 1 /\ n - 1 \in 1 .. Len(lens) + 1
    BY <1>5
  <2> QED BY <1>3, <1>5, <2>1
<1>10. Offsets(lens)[m] <= Offsets(lens)[n]
  BY <1>7, <1>8, <1>9
<1> QED BY <1>10

----------------------------------------------------------------------------
(* Remainders *)

LEMMA ModIs ==
  ASSUME NEW W \in Int, W > 0, NEW n \in Int
  PROVE  /\ n = W * (n \div W) + (n % W)
         /\ (n % W) \in 0 .. W - 1 /\ (n \div W) \in Int
OBVIOUS

LEMMA MultipleGrows ==
  ASSUME NEW W \in Int, W > 0, NEW q \in Int, q >= 1
  PROVE  W * q >= W
OBVIOUS

(* There is only one.                                                       *)
LEMMA ModUnique ==
  ASSUME NEW W \in Int, W > 0, NEW q \in Int, NEW r \in 0 .. W - 1
  PROVE  (W * q + r) % W = r
<1> DEFINE n == W * q + r
           p == n \div W
           s == n % W
<1>1. n \in Int /\ n = W * p + s /\ s \in 0 .. W-1 /\ p \in Int
  <2>1. n \in Int
    OBVIOUS
  <2> HIDE DEF n
  <2> QED BY <2>1, ModIs
<1>2. n = W * q + r
  OBVIOUS
<1> HIDE DEF n, p, s
<1>3. W * (p - q) = r - s /\ W * (q - p) = s - r
  BY <1>1, <1>2
<1>4. ~(p - q >= 1)
  <2> SUFFICES ASSUME p - q >= 1 PROVE FALSE
    OBVIOUS
  <2>1. W * (p - q) >= W
    BY <1>1, MultipleGrows
  <2> QED BY <1>1, <1>3, <2>1
<1>5. ~(q - p >= 1)
  <2> SUFFICES ASSUME q - p >= 1 PROVE FALSE
    OBVIOUS
  <2>1. W * (q - p) >= W
    BY <1>1, MultipleGrows
  <2> QED BY <1>1, <1>3, <2>1
<1>6. p = q
  BY <1>1, <1>4, <1>5
<1>7. s = r
  BY <1>1, <1>2, <1>6
<1> QED BY <1>7 DEF s, n

(* Reducing a sum early changes nothing.                                    *)
LEMMA ModAdd ==
  ASSUME NEW W \in Int, W > 0, NEW n \in Int, NEW m \in Int
  PROVE  ((n % W) + m) % W = (n + m) % W
<1> DEFINE p == n \div W
           r == n % W
           x == r + m
           q == x \div W
           s == x % W
<1>1. n = W * p + r /\ p \in Int /\ r \in 0 .. W-1
  BY ModIs
<1> HIDE DEF p, r
<1>2. x \in Int
  BY <1>1
<1> HIDE DEF x
<1>3. x = W * q + s /\ q \in Int /\ s \in 0 .. W-1
  BY <1>2, ModIs
<1>4. x = r + m
  BY DEF x
<1> HIDE DEF q, s
<1>5. n + m = W * (p + q) + s /\ p + q \in Int
  BY <1>1, <1>3, <1>4
<1>6. (n + m) % W = s
  BY <1>3, <1>5, ModUnique
<1> QED BY <1>6 DEF s, x, r

----------------------------------------------------------------------------
(* Recursive functions *)

(* Recursive functions of a number: each value but the first ones is made   *)
(* from that of a smaller number, prev.                                     *)
Descends(D, Base, prev) ==
  D \subseteq Nat /\ \A n \in D \ Base : prev[n] \in D /\ prev[n] < n

(* What f is below m.                                                       *)
Recurs(f, D, m, Base, base, prev, step) ==
  \A n \in D : n < m => f[n] = IF n \in Base THEN base[n] ELSE step[n][f[prev[n]]]

(* There is at most one.                                                    *)
LEMMA RecursionAgrees ==
  ASSUME NEW D, NEW Base, NEW prev, Descends(D, Base, prev), NEW base, NEW step,
         NEW m \in Nat, NEW f, Recurs(f, D, m, Base, base, prev, step),
         NEW g, Recurs(g, D, m, Base, base, prev, step)
  PROVE  \A n \in D : n < m => f[n] = g[n]
<1> DEFINE Bad == {n \in D : n < m /\ f[n] # g[n]}
<1>1. SUFFICES ASSUME Bad # {} PROVE FALSE
  OBVIOUS
<1>2. Bad \subseteq Nat
  BY DEF Descends
<1>3. PICK n \in Bad : \A k \in Bad : n <= k
  BY <1>1, <1>2, NatMin
<1>4. n \in D /\ n \in Nat /\ n < m /\ f[n] # g[n]
  BY <1>2, <1>3
<1>5. n \notin Base
  BY <1>4 DEF Recurs
<1>6. prev[n] \in D /\ prev[n] \in Nat /\ prev[n] < n /\ prev[n] < m
  <2>1. prev[n] \in D /\ prev[n] < n
    BY <1>4, <1>5 DEF Descends
  <2>2. prev[n] \in Nat
    BY <2>1 DEF Descends
  <2> QED BY <1>4, <2>1, <2>2
<1>7. prev[n] \notin Bad
  BY <1>3, <1>4, <1>6
<1>8. f[prev[n]] = g[prev[n]]
  BY <1>6, <1>7
<1> QED BY <1>4, <1>5, <1>8 DEF Recurs

MapsInto(S, D, Base, base, step) ==
  /\ \A n \in D \cap Base : base[n] \in S
  /\ \A n \in D \ Base : \A x \in S : step[n][x] \in S

Solves(f, D, Base, base, prev, step) ==
  \A n \in D : f[n] = IF n \in Base THEN base[n] ELSE step[n][f[prev[n]]]

(* There is one.                                                            *)
LEMMA RecursionExists ==
  ASSUME NEW S, NEW D, NEW Base, NEW prev, Descends(D, Base, prev),
         NEW base, NEW step, MapsInto(S, D, Base, base, step)
  PROVE  \E f \in [D -> S] : Solves(f, D, Base, base, prev, step)
<1> DEFINE upTo(m) == {n \in D : n < m}
           Rec(f, m) == \A n \in upTo(m) :
                          f[n] = IF n \in Base THEN base[n] ELSE step[n][f[prev[n]]]
           Bad == {m \in Nat : ~ \E f \in [upTo(m) -> S] : Rec(f, m)}
<1>0. /\ \A n \in D : n \in Nat
      /\ \A n \in D : n \notin Base => prev[n] \in D /\ prev[n] < n /\ prev[n] \in Nat
  BY DEF Descends
<1>a. /\ \A n \in D \cap Base : base[n] \in S
      /\ \A n \in D \ Base : \A x \in S : step[n][x] \in S
  BY DEF MapsInto
<1>1. Bad = {}
  <2>1. SUFFICES ASSUME Bad # {} PROVE FALSE
    OBVIOUS
  <2>2. PICK m \in Bad : \A k \in Bad : m <= k
    <3>1. Bad \subseteq Nat
      OBVIOUS
    <3> QED BY <2>1, <3>1, NatMin
  <2>3. m # 0
    <3>1. SUFFICES ASSUME m = 0 PROVE FALSE
      OBVIOUS
    <3>2. upTo(0) = {}
      BY <1>0
    <3>3. [n \in {} |-> 0] \in [upTo(0) -> S] /\ Rec([n \in {} |-> 0], 0)
      BY <3>2
    <3> QED BY <2>2, <3>1, <3>3
  <2>4. m \in Nat /\ m - 1 \in Nat /\ m - 1 \notin Bad
    <3>1. m \in Nat
      BY <2>2
    <3>2. m - 1 \in Nat /\ ~(m <= m - 1)
      BY <2>3, <3>1
    <3> HIDE DEF Bad
    <3> QED BY <2>2, <3>1, <3>2
  <2>5. PICK f \in [upTo(m - 1) -> S] : Rec(f, m - 1)
    BY <2>4
  <2> DEFINE k == m - 1
             v == IF k \in Base THEN base[k] ELSE step[k][f[prev[k]]]
             g == [n \in upTo(m) |-> IF n = k THEN v ELSE f[n]]
  <2>6. \A n \in upTo(m) : n \in D /\ n \in Nat /\ (n = k \/ n \in upTo(k))
    BY <2>4 DEF Descends
  <2>7. \A n \in upTo(m) : n \notin Base => prev[n] \in upTo(k)
    <3> SUFFICES ASSUME NEW n \in upTo(m), n \notin Base PROVE prev[n] \in upTo(k)
      OBVIOUS
    <3>1. prev[n] \in D /\ prev[n] < n /\ prev[n] \in Nat /\ n \in Nat /\ n < m
      BY DEF Descends
    <3> QED BY <3>1, <2>4
  <2>8. k \in D => v \in S
    <3>1. CASE k \in Base
      BY <1>a, <3>1
    <3>2. CASE k \notin Base
      <4> SUFFICES ASSUME k \in D PROVE v \in S
        OBVIOUS
      <4>1. k \in upTo(m)
        BY <2>4
      <4>2. prev[k] \in upTo(k)
        BY <2>7, <3>2, <4>1
      <4>3. f[prev[k]] \in S
        BY <2>5, <4>2
      <4> QED BY <1>a, <3>2, <4>3
    <3> QED BY <3>1, <3>2
  <2>9. g \in [upTo(m) -> S]
    BY <2>5, <2>6, <2>8
  <2>10. Rec(g, m)
    <3> SUFFICES ASSUME NEW n \in upTo(m)
                 PROVE  g[n] = IF n \in Base THEN base[n] ELSE step[n][g[prev[n]]]
      OBVIOUS
    <3>1. n \notin Base => prev[n] \in upTo(m) /\ prev[n] # k /\ g[prev[n]] = f[prev[n]]
      <4> SUFFICES ASSUME n \notin Base
                   PROVE  prev[n] \in upTo(m) /\ prev[n] # k /\ g[prev[n]] = f[prev[n]]
        OBVIOUS
      <4>1. prev[n] \in D /\ prev[n] \in Nat /\ prev[n] < k
        BY <1>0, <2>7
      <4>2. prev[n] < m /\ prev[n] # k
        BY <2>4, <4>1
      <4> QED BY <4>1, <4>2
    <3>2. CASE n = k
      BY <3>1, <3>2
    <3>3. CASE n # k
      <4>1. n \in upTo(k)
        BY <2>6, <3>3
      <4>2. f[n] = IF n \in Base THEN base[n] ELSE step[n][f[prev[n]]]
        BY <2>5, <4>1
      <4> QED BY <3>1, <3>3, <4>2
    <3> QED BY <3>2, <3>3
  <2> HIDE DEF g
  <2> QED BY <2>2, <2>9, <2>10
<1> DEFINE part(m) == CHOOSE f \in [upTo(m) -> S] : Rec(f, m)
           whole == [n \in D |-> part(n + 1)[n]]
<1>2. \A m \in Nat : part(m) \in [upTo(m) -> S] /\ Rec(part(m), m)
  BY <1>1
<1> HIDE DEF part
<1>3. \A n \in D : n \in Nat /\ n \in upTo(n + 1) /\ n + 1 \in Nat
  BY DEF Descends
<1>4. whole \in [D -> S]
  BY <1>2, <1>3
<1>5. ASSUME NEW n \in D
      PROVE  whole[n] = IF n \in Base THEN base[n] ELSE step[n][whole[prev[n]]]
  <2>1. part(n + 1)[n] = IF n \in Base THEN base[n] ELSE step[n][part(n + 1)[prev[n]]]
    BY <1>2, <1>3
  <2>2. ASSUME n \notin Base PROVE part(n + 1)[prev[n]] = part(prev[n] + 1)[prev[n]]
    <3> DEFINE p == prev[n]
    <3>1. p \in D /\ p < n /\ p \in Nat /\ n \in Nat /\ p + 1 \in Nat /\ n + 1 \in Nat
      BY <1>0, <2>2
    <3>2. /\ \A j \in D : j < p + 1 => part(n + 1)[j] = IF j \in Base THEN base[j]
                                           ELSE step[j][part(n + 1)[prev[j]]]
          /\ \A j \in D : j < p + 1 => part(p + 1)[j] = IF j \in Base THEN base[j]
                                           ELSE step[j][part(p + 1)[prev[j]]]
      <4>1. \A j \in D : j < p + 1 => j \in upTo(n + 1) /\ j \in upTo(p + 1)
        BY <1>0, <3>1
      <4> QED BY <1>2, <3>1, <4>1
    <3>3. \A j \in D : j < p + 1 => part(n + 1)[j] = part(p + 1)[j]
      <4> DEFINE q == p + 1
                 fn == part(n + 1)
                 fp == part(p + 1)
      <4>1. q \in Nat /\ Recurs(fn, D, q, Base, base, prev, step)
                      /\ Recurs(fp, D, q, Base, base, prev, step)
        BY <3>1, <3>2 DEF Recurs
      <4> HIDE DEF q, fn, fp
      <4>2. \A j \in D : j < q => fn[j] = fp[j]
        BY <4>1, RecursionAgrees
      <4> QED BY <4>2 DEF q, fn, fp
    <3> HIDE DEF p
    <3> QED BY <3>1, <3>3 DEF p
  <2>3. n \notin Base => prev[n] \in D
    BY DEF Descends
  <2> QED BY <2>1, <2>2, <2>3
<1> QED BY <1>4, <1>5 DEF Solves

(* A loop: each value is made from the one before.                          *)
StepsIn(S, N, step) == \A n \in 1 .. N : \A x \in S : step[n][x] \in S

Loops(f, N, a, step) == f[0] = a /\ \A n \in 1 .. N : f[n] = step[n][f[n - 1]]

LEMMA LoopExists ==
  ASSUME NEW S, NEW N \in Nat, NEW a \in S, NEW step, StepsIn(S, N, step)
  PROVE  \E f \in [0 .. N -> S] : Loops(f, N, a, step)
<1> DEFINE D == 0 .. N
           Base == {0}
           prev == [n \in Nat |-> n - 1]
           base == [n \in Nat |-> a]
<1>1. Descends(D, Base, prev)
  BY DEF Descends
<1>2. MapsInto(S, D, Base, base, step)
  <2>1. \A n \in D \ Base : n \in 1 .. N
    OBVIOUS
  <2>2. \A n \in D \cap Base : base[n] = a
    OBVIOUS
  <2> HIDE DEF D, Base, base
  <2> QED BY <2>1, <2>2 DEF MapsInto, StepsIn
<1> HIDE DEF prev, base, D, Base
<1>3. PICK f \in [D -> S] : Solves(f, D, Base, base, prev, step)
  BY <1>1, <1>2, RecursionExists
<1>4. \A n \in 0 .. N : f[n] = IF n = 0 THEN a ELSE step[n][f[n - 1]]
  BY <1>3 DEF D, Base, base, prev, Solves
<1>5. 0 \in 0 .. N /\ \A n \in 1 .. N : n \in 0 .. N /\ n # 0
  OBVIOUS
<1> QED BY <1>3, <1>4, <1>5 DEF D, Loops

----------------------------------------------------------------------------
(* Sums over sets *)

(* The induction principle for finite sets.                                 *)
LEMMA SmallestSet ==
  ASSUME NEW S, IsFiniteSet(S), NEW Bad, Bad \subseteq SUBSET S, Bad # {}
  PROVE  \E T \in Bad : IsFiniteSet(T) /\ \A x \in T : T \ {x} \notin Bad
<1> DEFINE Sizes == {Cardinality(T) : T \in Bad}
<1>1. \A T \in Bad : IsFiniteSet(T) /\ Cardinality(T) \in Nat
  BY FS_Subset, FS_CardinalityType
<1>2. Sizes \subseteq Nat /\ Sizes # {}
  BY <1>1
<1>3. PICK n \in Sizes : \A m \in Sizes : n <= m
  <2> HIDE DEF Sizes
  <2> QED BY <1>2, NatMin
<1>4. PICK T \in Bad : Cardinality(T) = n
  OBVIOUS
<1>5. ASSUME NEW x \in T PROVE T \ {x} \notin Bad
  <2>1. Cardinality(T \ {x}) = Cardinality(T) - 1
    BY <1>1, FS_RemoveElement
  <2>2. ~(n <= n - 1)
    BY <1>2
  <2>3. Cardinality(T \ {x}) \notin Sizes
    <3> HIDE DEF Sizes
    <3> QED BY <1>3, <1>4, <2>1, <2>2
  <2> QED BY <2>3
<1> QED BY <1>1, <1>5

(* Numbers that have a sum.                                                 *)
Summable(f, S) == IsFiniteSet(S) /\ \A x \in S : f[x] \in Int

LEMMA SummableFacts ==
  ASSUME NEW S, NEW f, Summable(f, S)
  PROVE  /\ IsFiniteSet(S) /\ \A x \in S : f[x] \in Int
         /\ \A T \in SUBSET S : Summable(f, T)
         /\ \A x : f[x] \in Int => Summable(f, S \cup {x})
<1>1. IsFiniteSet(S) /\ \A x \in S : f[x] \in Int
  BY DEF Summable
<1>2. ASSUME NEW T \in SUBSET S PROVE Summable(f, T)
  <2>1. IsFiniteSet(T)
    BY <1>1, FS_Subset
  <2> QED BY <1>1, <2>1 DEF Summable
<1>3. ASSUME NEW x, f[x] \in Int PROVE Summable(f, S \cup {x})
  <2>1. IsFiniteSet(S \cup {x})
    BY <1>1, FS_AddElement
  <2> QED BY <1>1, <1>3, <2>1 DEF Summable
<1> QED BY <1>1, <1>2, <1>3

(* The element that a fold takes first.                                     *)
Some(T) == CHOOSE x \in T : TRUE

(* The sum as the definition of the fold has it, for each subset.           *)
Adds(g, f, S) ==
  \A T \in SUBSET S : g[T] = IF T = {} THEN 0 ELSE f[Some(T)] + g[T \ {Some(T)}]

LEMMA SumsExist ==
  ASSUME NEW S, NEW f, Summable(f, S)
  PROVE  \E g \in [SUBSET S -> Int] : Adds(g, f, S)
<1> DEFINE rec(g, T) == IF T = {} THEN 0 ELSE f[Some(T)] + g[T \ {Some(T)}]
           upTo(n) == {T \in SUBSET S : Cardinality(T) <= n}
           Rec(g, n) == \A T \in upTo(n) : g[T] = rec(g, T)
           Bad == {n \in Nat : ~ \E g \in [upTo(n) -> Int] : Rec(g, n)}
<1>a. IsFiniteSet(S) /\ \A x \in S : f[x] \in Int
  BY SummableFacts
<1>1. \A T \in SUBSET S : IsFiniteSet(T) /\ Cardinality(T) \in Nat /\ Cardinality(T) <= Cardinality(S)
  BY <1>a, FS_Subset, FS_CardinalityType
<1>2. \A T : T # {} => Some(T) \in T
  BY DEF Some
<1>3. ASSUME NEW n \in Nat, NEW T \in upTo(n), T # {}
      PROVE  T \ {Some(T)} \in upTo(n) /\ (n # 0 => T \ {Some(T)} \in upTo(n - 1)) /\ n # 0
             /\ f[Some(T)] \in Int
  <2>1. T \in SUBSET S /\ Cardinality(T) <= n /\ IsFiniteSet(T) /\ Cardinality(T) \in Nat
    BY <1>1
  <2>2. Cardinality(T \ {Some(T)}) = Cardinality(T) - 1 /\ T \ {Some(T)} \in SUBSET S
    BY <1>2, <1>3, <2>1, FS_RemoveElement
  <2>3. Cardinality(T) # 0
    BY <1>3, <2>1, FS_EmptySet
  <2> QED BY <1>a, <1>2, <1>3, <2>1, <2>2, <2>3
<1>4. Bad = {}
  <2> SUFFICES ASSUME Bad # {} PROVE FALSE
    OBVIOUS
  <2>1. PICK n \in Bad : \A m \in Bad : n <= m
    <3>1. Bad \subseteq Nat
      OBVIOUS
    <3> HIDE DEF Bad
    <3> QED BY <3>1, NatMin
  <2>2. n \in Nat /\ ~ \E g \in [upTo(n) -> Int] : Rec(g, n)
    BY <2>1
  <2>3. n # 0
    <3> SUFFICES ASSUME n = 0 PROVE FALSE
      OBVIOUS
    <3> DEFINE g == [T \in upTo(0) |-> 0]
    <3>1. \A T \in upTo(0) : T = {}
      BY <1>3
    <3>2. g \in [upTo(0) -> Int] /\ Rec(g, 0)
      <4> HIDE DEF upTo
      <4> QED BY <3>1
    <3> HIDE DEF g, upTo, Rec
    <3> QED BY <2>2, <3>2
  <2>4. n - 1 \in Nat /\ ~(n <= n - 1)
    BY <2>2, <2>3
  <2>5. PICK g \in [upTo(n - 1) -> Int] : Rec(g, n - 1)
    <3>1. n - 1 \notin Bad
      <4> HIDE DEF Bad
      <4> QED BY <2>1, <2>4
    <3> HIDE DEF Rec, upTo
    <3> QED BY <2>4, <3>1
  <2> DEFINE h == [T \in upTo(n) |-> rec(g, T)]
  <2>6. \A T \in upTo(n) : T # {} => T \ {Some(T)} \in upTo(n - 1) /\ f[Some(T)] \in Int
    BY <1>3, <2>2, <2>3
  <2>7. \A T \in upTo(n - 1) : T \in upTo(n)
    BY <1>1, <2>2
  <2>8. \A T \in upTo(n - 1) : g[T] = rec(g, T)
    BY <2>5
  <2> HIDE DEF upTo
  <2>9. h \in [upTo(n) -> Int]
    <3> SUFFICES ASSUME NEW T \in upTo(n) PROVE rec(g, T) \in Int
      OBVIOUS
    <3>1. CASE T = {}
      BY <3>1
    <3>2. CASE T # {}
      <4>1. g[T \ {Some(T)}] \in Int /\ f[Some(T)] \in Int
        BY <2>5, <2>6, <3>2
      <4> QED BY <3>2, <4>1
    <3> QED BY <3>1, <3>2
  <2>10. \A T \in upTo(n) : h[T] = rec(h, T)
    <3> SUFFICES ASSUME NEW T \in upTo(n), T # {} PROVE g[T \ {Some(T)}] = h[T \ {Some(T)}]
      OBVIOUS
    <3>1. T \ {Some(T)} \in upTo(n - 1)
      BY <2>6
    <3>2. T \ {Some(T)} \in upTo(n) /\ g[T \ {Some(T)}] = rec(g, T \ {Some(T)})
      BY <2>7, <2>8, <3>1
    <3> HIDE DEF rec
    <3> QED BY <3>2
  <2> HIDE DEF h, rec
  <2> QED BY <2>2, <2>9, <2>10
<1> DEFINE n == Cardinality(S)
<1>5. n \in Nat /\ upTo(n) = SUBSET S
  BY <1>a, <1>1, FS_CardinalityType
<1>6. PICK g \in [upTo(n) -> Int] : Rec(g, n)
  <2> HIDE DEF Rec, upTo, n
  <2> QED BY <1>4, <1>5
<1>7. g \in [SUBSET S -> Int] /\ \A T \in SUBSET S : g[T] = rec(g, T)
  <2>1. \A T \in upTo(n) : g[T] = rec(g, T)
    BY <1>6
  <2> HIDE DEF upTo, n, rec
  <2> QED BY <1>5, <1>6, <2>1
<1> QED BY <1>7 DEF Adds

(* Two solutions agree where both are defined.                              *)
LEMMA SumsAgree ==
  ASSUME NEW U, NEW f, Summable(f, U), NEW V \in SUBSET U,
         NEW g, Adds(g, f, U), NEW h, Adds(h, f, V)
  PROVE  g[V] = h[V]
<1> DEFINE Bad == {T \in SUBSET V : g[T] # h[T]}
<1> SUFFICES ASSUME Bad # {} PROVE FALSE
  OBVIOUS
<1>1. PICK T \in Bad : \A x \in T : T \ {x} \notin Bad
  <2>1. IsFiniteSet(V) /\ Bad \subseteq SUBSET V
    BY SummableFacts, FS_Subset
  <2> HIDE DEF Bad
  <2> QED BY <2>1, SmallestSet
<1>2. T \in SUBSET V /\ T \in SUBSET U /\ g[T] # h[T]
  BY <1>1
<1>3. g[T] = IF T = {} THEN 0 ELSE f[Some(T)] + g[T \ {Some(T)}]
  BY <1>2 DEF Adds
<1>4. h[T] = IF T = {} THEN 0 ELSE f[Some(T)] + h[T \ {Some(T)}]
  BY <1>2 DEF Adds
<1>5. T # {}
  BY <1>2, <1>3, <1>4
<1>6. Some(T) \in T
  BY <1>5 DEF Some
<1>7. g[T \ {Some(T)}] = h[T \ {Some(T)}]
  BY <1>1, <1>2, <1>6
<1> QED BY <1>2, <1>3, <1>4, <1>7

(* The sum over a set, with the element that the definition takes first.    *)
LEMMA SumUnfold ==
  ASSUME NEW S, NEW f, Summable(f, S)
  PROVE  /\ SumFunctionOnSet(f, S) \in Int
         /\ S = {} => SumFunctionOnSet(f, S) = 0
         /\ S # {} => SumFunctionOnSet(f, S) = f[Some(S)] + SumFunctionOnSet(f, S \ {Some(S)})
<1> DEFINE Rec(g, U) == [T \in SUBSET U |-> IF T = {} THEN 0 ELSE f[Some(T)] + g[T \ {Some(T)}]]
           sums(U) == CHOOSE g : g = Rec(g, U)
<1>1. \A U : SumFunctionOnSet(f, U) = sums(U)[U]
  BY Zenon DEF SumFunctionOnSet, FoldFunctionOnSet, MapThenFoldSet, Some
<1>2. ASSUME NEW U, Summable(f, U)
      PROVE  Adds(sums(U), f, U) /\ \E g \in [SUBSET U -> Int] : Adds(g, f, U)
  <2>1. PICK g \in [SUBSET U -> Int] : Adds(g, f, U)
    BY <1>2, SumsExist
  <2>2. g = Rec(g, U)
    BY <2>1 DEF Adds
  <2>3. sums(U) = Rec(sums(U), U)
    <3> HIDE DEF Rec
    <3> QED BY <2>2
  <2> HIDE DEF sums
  <2>4. Adds(sums(U), f, U)
    BY <2>3 DEF Adds
  <2> QED BY <2>1, <2>4
<1> HIDE DEF sums
<1>3. SumFunctionOnSet(f, S) \in Int
  <2>1. PICK g \in [SUBSET S -> Int] : Adds(g, f, S)
    BY <1>2
  <2> DEFINE h == sums(S)
  <2>2. h[S] = g[S]
    <3> DEFINE V == S
    <3>1. V \in SUBSET S /\ Adds(h, f, S) /\ Adds(g, f, V)
      BY <1>2, <2>1
    <3> HIDE DEF h, V
    <3>2. h[V] = g[V]
      BY <3>1, SumsAgree
    <3> QED BY <3>2 DEF V
  <2> QED BY <1>1, <2>1, <2>2
<1>4. sums(S)[S] = IF S = {} THEN 0 ELSE f[Some(S)] + sums(S)[S \ {Some(S)}]
  BY <1>2 DEF Adds
<1>5. sums(S)[S \ {Some(S)}] = sums(S \ {Some(S)})[S \ {Some(S)}]
  <2> DEFINE V == S \ {Some(S)}
  <2>1. V \in SUBSET S /\ Summable(f, V)
    BY SummableFacts
  <2> HIDE DEF V
  <2>2. Adds(sums(S), f, S) /\ Adds(sums(V), f, V)
    BY <1>2, <2>1
  <2>3. sums(S)[V] = sums(V)[V]
    BY <2>1, <2>2, SumsAgree
  <2> QED BY <2>3 DEF V
<1> QED BY <1>1, <1>3, <1>4, <1>5

(* The order does not matter: any element may be taken first.               *)
LEMMA SumRemove ==
  ASSUME NEW S, NEW f, Summable(f, S), NEW x \in S
  PROVE  SumFunctionOnSet(f, S) = f[x] + SumFunctionOnSet(f, S \ {x})
<1> DEFINE sum(T) == SumFunctionOnSet(f, T)
           Bad == {T \in SUBSET S : \E y \in T : sum(T) # f[y] + sum(T \ {y})}
<1>1. ASSUME NEW T \in SUBSET S
      PROVE  /\ IsFiniteSet(T) /\ sum(T) \in Int
             /\ T # {} => \E c \in T : sum(T) = f[c] + sum(T \ {c})
  <2>1. IsFiniteSet(T) /\ Summable(f, T)
    BY SummableFacts, FS_Subset
  <2>2. T # {} => Some(T) \in T
    BY DEF Some
  <2> QED BY <2>1, <2>2, SumUnfold
<1> HIDE DEF sum
<1>2. Bad = {}
  <2> SUFFICES ASSUME Bad # {} PROVE FALSE
    OBVIOUS
  <2>1. PICK T \in Bad : \A y \in T : T \ {y} \notin Bad
    <3>1. IsFiniteSet(S) /\ Bad \subseteq SUBSET S
      BY SummableFacts
    <3> HIDE DEF Bad
    <3> QED BY <3>1, SmallestSet
  <2>2. T \in SUBSET S
    BY <2>1
  <2>3. PICK y \in T : sum(T) # f[y] + sum(T \ {y})
    BY <2>1
  <2>4. PICK c \in T : sum(T) = f[c] + sum(T \ {c})
    BY <1>1, <2>2, <2>3
  <2>5. c # y
    BY <2>3, <2>4
  <2> DEFINE A == T \ {c}
             B == T \ {y}
             C == (T \ {c}) \ {y}
  <2>6. /\ A \in SUBSET S /\ B \in SUBSET S /\ C \in SUBSET S
        /\ y \in A /\ c \in B /\ A \ {y} = C /\ B \ {c} = C /\ A \notin Bad /\ B \notin Bad
    BY <2>1, <2>2, <2>5
  <2> HIDE DEF A, B, C
  <2>7. sum(A) = f[y] + sum(A \ {y}) /\ sum(B) = f[c] + sum(B \ {c})
    BY <2>6
  <2>8. sum(T) = f[c] + sum(A) /\ sum(T) # f[y] + sum(B)
    BY <2>3, <2>4 DEF A, B
  <2>9. /\ sum(A) = f[y] + sum(C) /\ sum(B) = f[c] + sum(C)
        /\ f[y] \in Int /\ f[c] \in Int /\ sum(C) \in Int
    BY <1>1, <2>2, <2>6, <2>7, SummableFacts
  <2> QED BY <2>8, <2>9
<1>3. S \in SUBSET S /\ S \notin Bad
  BY <1>2
<1>4. sum(S) = f[x] + sum(S \ {x})
  BY <1>3
<1> QED BY <1>4 DEF sum

(* What a sum is, and what one element more makes of it.                    *)
LEMMA SumFacts ==
  ASSUME NEW S, NEW f, Summable(f, S)
  PROVE  /\ SumFunctionOnSet(f, S) \in Int
         /\ SumFunctionOnSet(f, {}) = 0
         /\ \A x : x \notin S /\ f[x] \in Int =>
              SumFunctionOnSet(f, S \cup {x}) = SumFunctionOnSet(f, S) + f[x]
         /\ \A x \in S : SumFunctionOnSet(f, S) = f[x] + SumFunctionOnSet(f, S \ {x})
<1>1. SumFunctionOnSet(f, {}) = 0
  <2>1. Summable(f, {})
    BY SummableFacts
  <2> QED BY <2>1, SumUnfold
<1>2. SumFunctionOnSet(f, S) \in Int
  BY SumUnfold
<1>3. ASSUME NEW x, x \notin S, f[x] \in Int
      PROVE  SumFunctionOnSet(f, S \cup {x}) = SumFunctionOnSet(f, S) + f[x]
  <2> DEFINE T == S \cup {x}
  <2>1. Summable(f, T) /\ x \in T /\ T \ {x} = S
    BY <1>3, SummableFacts
  <2> HIDE DEF T
  <2>2. SumFunctionOnSet(f, T) = f[x] + SumFunctionOnSet(f, S)
    BY <2>1, SumRemove
  <2> QED BY <1>2, <1>3, <2>2 DEF T
<1>4. \A x \in S : SumFunctionOnSet(f, S) = f[x] + SumFunctionOnSet(f, S \ {x})
  BY SumRemove
<1> QED BY <1>1, <1>2, <1>3, <1>4

(* A sum of smaller numbers is not larger.                                  *)
LEMMA SumMonotonic ==
  ASSUME NEW S, NEW f, Summable(f, S),
         NEW g, Summable(g, S), \A x \in S : f[x] <= g[x]
  PROVE  SumFunctionOnSet(f, S) <= SumFunctionOnSet(g, S)
<1> DEFINE F(T) == SumFunctionOnSet(f, T)
           G(T) == SumFunctionOnSet(g, T)
           Bad == {T \in SUBSET S : ~(F(T) <= G(T))}
<1>1. ASSUME NEW T \in SUBSET S
      PROVE  /\ F(T) \in Int /\ G(T) \in Int /\ F({}) = 0 /\ G({}) = 0
             /\ \A x \in T : F(T) = f[x] + F(T \ {x}) /\ G(T) = g[x] + G(T \ {x})
  <2>1. Summable(f, T) /\ Summable(g, T)
    BY SummableFacts
  <2> QED BY <2>1, SumFacts
<1> HIDE DEF F, G
<1>2. Bad = {}
  <2> SUFFICES ASSUME Bad # {} PROVE FALSE
    OBVIOUS
  <2>1. PICK T \in Bad : \A y \in T : T \ {y} \notin Bad
    <3>1. IsFiniteSet(S) /\ Bad \subseteq SUBSET S
      BY SummableFacts
    <3> HIDE DEF Bad
    <3> QED BY <3>1, SmallestSet
  <2>2. T \in SUBSET S /\ ~(F(T) <= G(T))
    BY <2>1
  <2>3. T # {}
    BY <1>1, <2>2
  <2>4. PICK x \in T : TRUE
    BY <2>3
  <2>5. F(T \ {x}) <= G(T \ {x}) /\ T \ {x} \in SUBSET S /\ f[x] <= g[x] /\ f[x] \in Int /\ g[x] \in Int
    BY <2>1, <2>2, SummableFacts
  <2>6. /\ F(T) = f[x] + F(T \ {x}) /\ G(T) = g[x] + G(T \ {x})
        /\ F(T \ {x}) \in Int /\ G(T \ {x}) \in Int
    BY <1>1, <2>2, <2>5
  <2> QED BY <2>2, <2>5, <2>6
<1>3. F(S) <= G(S)
  BY <1>2
<1> QED BY <1>3 DEF F, G

(* The sums over the subsets, one element at a time.                        *)
SumsOver(f, S) ==
  \A T \in SUBSET S :
    /\ T = {} => SumFunctionOnSet(f, T) = 0
    /\ SumFunctionOnSet(f, T) \in Int
    /\ \A x \in T : /\ SumFunctionOnSet(f, T) = f[x] + SumFunctionOnSet(f, T \ {x})
                    /\ SumFunctionOnSet(f, T \ {x}) \in Int /\ f[x] \in Int
                    /\ T \ {x} \in SUBSET S

(* The step of an induction over the subsets.                               *)
LEMMA SumStep ==
  ASSUME NEW S, NEW f, Summable(f, S)
  PROVE  SumsOver(f, S)
<1> SUFFICES ASSUME NEW T \in SUBSET S
             PROVE  /\ T = {} => SumFunctionOnSet(f, T) = 0
                    /\ SumFunctionOnSet(f, T) \in Int
                    /\ \A x \in T :
                         /\ SumFunctionOnSet(f, T) = f[x] + SumFunctionOnSet(f, T \ {x})
                         /\ SumFunctionOnSet(f, T \ {x}) \in Int /\ f[x] \in Int
                         /\ T \ {x} \in SUBSET S
  BY DEF SumsOver
<1>1. Summable(f, T)
  BY SummableFacts
<1>2. \A x \in T : T \ {x} \in SUBSET S /\ Summable(f, T \ {x}) /\ f[x] \in Int
  BY SummableFacts
<1>3. \A x \in T : SumFunctionOnSet(f, T \ {x}) \in Int
  BY <1>2, SumFacts
<1>4. SumFunctionOnSet(f, T) \in Int /\ SumFunctionOnSet(f, {}) = 0
      /\ \A x \in T : SumFunctionOnSet(f, T) = f[x] + SumFunctionOnSet(f, T \ {x})
  BY <1>1, SumFacts
<1> QED BY <1>1, <1>2, <1>3, <1>4

LEMMA SumNat ==
  ASSUME NEW S, NEW f, Summable(f, S), \A x \in S : f[x] \in Nat
  PROVE  SumFunctionOnSet(f, S) \in Nat
<1> DEFINE F(T) == SumFunctionOnSet(f, T)
           Bad == {T \in SUBSET S : F(T) \notin Nat}
<1>s. SumsOver(f, S)
  BY SumStep
<1>1. \A T \in SUBSET S : /\ T = {} => F(T) = 0
                          /\ \A x \in T : F(T) = f[x] + F(T \ {x}) /\ T \ {x} \in SUBSET S
  BY <1>s DEF SumsOver
<1> HIDE DEF F
<1>2. Bad = {}
  <2> SUFFICES ASSUME Bad # {} PROVE FALSE
    OBVIOUS
  <2>1. PICK T \in Bad : \A x \in T : T \ {x} \notin Bad
    <3>1. IsFiniteSet(S) /\ Bad \subseteq SUBSET S
      BY SummableFacts
    <3> HIDE DEF Bad
    <3> QED BY <3>1, SmallestSet
  <2>2. T # {}
    BY <1>1, <2>1
  <2>3. PICK x \in T : TRUE
    BY <2>2
  <2>4. F(T) = f[x] + F(T \ {x}) /\ F(T \ {x}) \in Nat /\ f[x] \in Nat
    BY <1>1, <2>1, <2>3
  <2> QED BY <2>1, <2>4
<1>3. S \in SUBSET S /\ S \notin Bad
  BY <1>2
<1> QED BY <1>3 DEF F

(* The sum of two functions.                                                *)
LEMMA SumAdds ==
  ASSUME NEW S, NEW f, Summable(f, S), NEW g, Summable(g, S), NEW h, Summable(h, S),
         \A x \in S : h[x] = f[x] + g[x]
  PROVE  SumFunctionOnSet(h, S) = SumFunctionOnSet(f, S) + SumFunctionOnSet(g, S)
<1> DEFINE F(T) == SumFunctionOnSet(f, T)
           G(T) == SumFunctionOnSet(g, T)
           H(T) == SumFunctionOnSet(h, T)
           Bad == {T \in SUBSET S : H(T) # F(T) + G(T)}
<1>1. SumsOver(f, S) /\ SumsOver(g, S) /\ SumsOver(h, S)
  BY SumStep
<1>2. \A T \in SUBSET S :
        /\ T = {} => F(T) = 0
        /\ \A x \in T : /\ F(T) = f[x] + F(T \ {x}) /\ F(T \ {x}) \in Int /\ f[x] \in Int
                        /\ T \ {x} \in SUBSET S
  BY <1>1 DEF SumsOver
<1>3. \A T \in SUBSET S :
        /\ T = {} => G(T) = 0
        /\ \A x \in T : G(T) = g[x] + G(T \ {x}) /\ G(T \ {x}) \in Int /\ g[x] \in Int
  BY <1>1 DEF SumsOver
<1>4. \A T \in SUBSET S :
        /\ T = {} => H(T) = 0
        /\ \A x \in T : H(T) = h[x] + H(T \ {x})
  BY <1>1 DEF SumsOver
<1> HIDE DEF F, G, H
<1>5. Bad = {}
  <2> SUFFICES ASSUME Bad # {} PROVE FALSE
    OBVIOUS
  <2>1. PICK T \in Bad : \A x \in T : T \ {x} \notin Bad
    <3>1. IsFiniteSet(S) /\ Bad \subseteq SUBSET S
      BY SummableFacts
    <3> HIDE DEF Bad
    <3> QED BY <3>1, SmallestSet
  <2>2. T # {}
    BY <1>2, <1>3, <1>4, <2>1
  <2>3. PICK x \in T : TRUE
    BY <2>2
  <2>4. H(T \ {x}) = F(T \ {x}) + G(T \ {x}) /\ h[x] = f[x] + g[x]
    BY <1>2, <2>1, <2>3
  <2>5. /\ F(T) = f[x] + F(T \ {x}) /\ F(T \ {x}) \in Int /\ f[x] \in Int
        /\ G(T) = g[x] + G(T \ {x}) /\ G(T \ {x}) \in Int /\ g[x] \in Int
        /\ H(T) = h[x] + H(T \ {x}) /\ H(T) # F(T) + G(T)
    BY <1>2, <1>3, <1>4, <2>1, <2>3
  <2> QED BY <2>4, <2>5
<1>6. S \in SUBSET S /\ S \notin Bad
  BY <1>5
<1> QED BY <1>6 DEF F, G, H

(* Summing what a set selects.                                              *)
LEMMA SumSelected ==
  ASSUME NEW S, NEW f, Summable(f, S), NEW A \in SUBSET S,
         NEW h, \A x \in S : h[x] = IF x \in A THEN f[x] ELSE 0
  PROVE  Summable(h, S) /\ SumFunctionOnSet(h, S) = SumFunctionOnSet(f, A)
<1> DEFINE F(T) == SumFunctionOnSet(f, T)
           H(T) == SumFunctionOnSet(h, T)
           Bad == {T \in SUBSET S : H(T) # F(T \cap A)}
<1>1. Summable(h, S)
  BY SummableFacts DEF Summable
<1>s. SumsOver(f, S) /\ SumsOver(h, S)
  BY <1>1, SumStep
<1>2. \A T \in SUBSET S :
        /\ T = {} => F(T) = 0
        /\ \A x \in T : F(T) = f[x] + F(T \ {x}) /\ F(T \ {x}) \in Int /\ f[x] \in Int
  BY <1>s DEF SumsOver
<1>3. \A T \in SUBSET S :
        /\ T = {} => H(T) = 0
        /\ \A x \in T : H(T) = h[x] + H(T \ {x}) /\ H(T \ {x}) \in Int /\ T \ {x} \in SUBSET S
  BY <1>s DEF SumsOver
<1> HIDE DEF F, H
<1>4. Bad = {}
  <2> SUFFICES ASSUME Bad # {} PROVE FALSE
    OBVIOUS
  <2>1. PICK T \in Bad : \A x \in T : T \ {x} \notin Bad
    <3>1. IsFiniteSet(S) /\ Bad \subseteq SUBSET S
      BY SummableFacts
    <3> HIDE DEF Bad
    <3> QED BY <3>1, SmallestSet
  <2>2. T \in SUBSET S /\ H(T) # F(T \cap A)
    BY <2>1
  <2>3. T # {}
    <3>1. T = {} => T \cap A = {} /\ T \cap A \in SUBSET S
      BY <2>2
    <3> QED BY <1>2, <1>3, <2>2, <3>1
  <2>4. PICK x \in T : TRUE
    BY <2>3
  <2>5. T \ {x} \in SUBSET S /\ H(T \ {x}) = F((T \ {x}) \cap A)
    BY <1>3, <2>1, <2>4
  <2>6. H(T) = h[x] + H(T \ {x}) /\ H(T \ {x}) \in Int
    BY <1>3, <2>2, <2>4
  <2>7. CASE x \in A
    <3>1. T \cap A \in SUBSET S /\ x \in T \cap A /\ (T \cap A) \ {x} = (T \ {x}) \cap A
      BY <2>2, <2>4, <2>7
    <3>2. F(T \cap A) = f[x] + F((T \cap A) \ {x})
      BY <1>2, <3>1
    <3>3. h[x] = f[x]
      BY <2>2, <2>4, <2>7
    <3> QED BY <2>2, <2>5, <2>6, <3>1, <3>2, <3>3
  <2>8. CASE x \notin A
    <3>1. (T \ {x}) \cap A = T \cap A
      BY <2>8
    <3>2. h[x] = 0
      BY <2>2, <2>4, <2>8
    <3>3. H(T) = H(T \ {x})
      BY <2>6, <3>2
    <3> QED BY <2>2, <2>5, <3>1, <3>3
  <2> QED BY <2>7, <2>8
<1>5. S \in SUBSET S /\ S \notin Bad /\ S \cap A = A
  BY <1>4
<1>6. H(S) = F(A)
  BY <1>5
<1> QED BY <1>1, <1>6 DEF F, H

(* Summing over two parts.                                                  *)
LEMMA SumTwoParts ==
  ASSUME NEW S, NEW f, Summable(f, S), NEW A \in SUBSET S, NEW B \in SUBSET S, A \cap B = {}
  PROVE  SumFunctionOnSet(f, A \cup B) = SumFunctionOnSet(f, A) + SumFunctionOnSet(f, B)
<1> DEFINE C == A \cup B
           g == [x \in C |-> IF x \in A THEN f[x] ELSE 0]
           h == [x \in C |-> IF x \in B THEN f[x] ELSE 0]
<1>1. C \in SUBSET S /\ A \in SUBSET C /\ B \in SUBSET C
  OBVIOUS
<1>2. Summable(f, C)
  BY <1>1, SummableFacts
<1>3. \A x \in C : g[x] = (IF x \in A THEN f[x] ELSE 0) /\ h[x] = (IF x \in B THEN f[x] ELSE 0)
  OBVIOUS
<1>4. \A x \in C : f[x] \in Int /\ f[x] = g[x] + h[x]
  <2>1. \A x \in C : f[x] \in Int /\ ((x \in A /\ x \notin B) \/ (x \notin A /\ x \in B))
    BY <1>2, SummableFacts
  <2> HIDE DEF g, h, C
  <2> QED BY <1>3, <2>1
<1> HIDE DEF C, g, h
<1>5. Summable(g, C) /\ SumFunctionOnSet(g, C) = SumFunctionOnSet(f, A)
  BY <1>1, <1>2, <1>3, SumSelected
<1>6. Summable(h, C) /\ SumFunctionOnSet(h, C) = SumFunctionOnSet(f, B)
  BY <1>1, <1>2, <1>3, SumSelected
<1>7. SumFunctionOnSet(f, C) = SumFunctionOnSet(g, C) + SumFunctionOnSet(h, C)
  BY <1>2, <1>4, <1>5, <1>6, SumAdds
<1> QED BY <1>5, <1>6, <1>7 DEF C

(* Ones sum up to how many they are.                                        *)
LEMMA SumIsCount ==
  ASSUME NEW S, IsFiniteSet(S), NEW h, \A x \in S : h[x] = 1
  PROVE  Summable(h, S) /\ SumFunctionOnSet(h, S) = Cardinality(S)
<1> DEFINE H(T) == SumFunctionOnSet(h, T)
           Bad == {T \in SUBSET S : H(T) # Cardinality(T)}
<1>1. Summable(h, S)
  BY DEF Summable
<1>s. SumsOver(h, S)
  BY <1>1, SumStep
<1>2. \A T \in SUBSET S :
        /\ T = {} => H(T) = 0
        /\ \A x \in T : /\ H(T) = h[x] + H(T \ {x}) /\ H(T \ {x}) \in Int /\ T \ {x} \in SUBSET S
  BY <1>s DEF SumsOver
<1> HIDE DEF H
<1>3. Bad = {}
  <2> SUFFICES ASSUME Bad # {} PROVE FALSE
    OBVIOUS
  <2>1. PICK T \in Bad : \A x \in T : T \ {x} \notin Bad
    <3>1. IsFiniteSet(S) /\ Bad \subseteq SUBSET S
      OBVIOUS
    <3> HIDE DEF Bad
    <3> QED BY <3>1, SmallestSet
  <2>2. T \in SUBSET S /\ H(T) # Cardinality(T) /\ IsFiniteSet(T)
    BY <2>1, FS_Subset
  <2>3. T # {}
    BY <1>2, <2>2, FS_EmptySet
  <2>4. PICK x \in T : TRUE
    BY <2>3
  <2>5. H(T) = 1 + H(T \ {x}) /\ H(T \ {x}) = Cardinality(T \ {x})
    BY <1>2, <2>1, <2>2, <2>4
  <2>6. Cardinality(T \ {x}) = Cardinality(T) - 1 /\ Cardinality(T) \in Nat
    BY <2>2, <2>4, FS_RemoveElement, FS_CardinalityType
  <2> QED BY <2>2, <2>5, <2>6
<1>4. S \in SUBSET S /\ S \notin Bad
  BY <1>3
<1> QED BY <1>1, <1>4 DEF H

(* Summing part by part: c[t] are the parts, g[t] their sums.               *)
LEMMA SumOfParts ==
  ASSUME NEW S, NEW f, Summable(f, S),
         NEW T, IsFiniteSet(T), NEW c, \A t \in T : c[t] \in SUBSET S,
         \A t, u \in T : t # u => c[t] \cap c[u] = {},
         NEW g, \A t \in T : g[t] = SumFunctionOnSet(f, c[t])
  PROVE  Summable(g, T) /\ SumFunctionOnSet(g, T) = SumFunctionOnSet(f, UNION {c[t] : t \in T})
<1> DEFINE Parts(U) == UNION {c[t] : t \in U}
           F(A) == SumFunctionOnSet(f, A)
           G(U) == SumFunctionOnSet(g, U)
           Bad == {U \in SUBSET T : G(U) # F(Parts(U))}
<1>1. Summable(g, T)
  <2>1. \A t \in T : SumFunctionOnSet(f, c[t]) \in Int
    BY SumStep DEF SumsOver
  <2> QED BY <2>1 DEF Summable
<1>s. SumsOver(g, T)
  BY <1>1, SumStep
<1>2. \A U \in SUBSET T :
        /\ U = {} => G(U) = 0
        /\ \A x \in U : G(U) = g[x] + G(U \ {x}) /\ U \ {x} \in SUBSET T
  BY <1>s DEF SumsOver
<1>3. F({}) = 0
  BY SumFacts
<1> HIDE DEF G
<1>4. Bad = {}
  <2> SUFFICES ASSUME Bad # {} PROVE FALSE
    OBVIOUS
  <2>1. PICK U \in Bad : \A x \in U : U \ {x} \notin Bad
    <3>1. IsFiniteSet(T) /\ Bad \subseteq SUBSET T
      OBVIOUS
    <3> HIDE DEF Bad
    <3> QED BY <3>1, SmallestSet
  <2>2. U \in SUBSET T /\ G(U) # F(Parts(U))
    BY <2>1
  <2>3. U # {}
    <3>1. Parts({}) = {}
      OBVIOUS
    <3> HIDE DEF Parts, F
    <3> QED BY <1>2, <1>3, <2>2, <3>1
  <2>4. PICK x \in U : TRUE
    BY <2>3
  <2> DEFINE R == Parts(U \ {x})
  <2>5. G(U) = g[x] + G(U \ {x}) /\ G(U \ {x}) = F(R)
    BY <1>2, <2>1, <2>2, <2>4
  <2>6. Parts(U) = c[x] \cup R /\ c[x] \in SUBSET S /\ R \in SUBSET S /\ c[x] \cap R = {}
    BY <2>2, <2>4
  <2> HIDE DEF R, Parts
  <2>7. F(c[x] \cup R) = F(c[x]) + F(R)
    BY <2>6, SumTwoParts
  <2>8. g[x] = F(c[x])
    BY <2>2, <2>4
  <2> QED BY <2>2, <2>5, <2>6, <2>7, <2>8
<1>5. T \in SUBSET T /\ T \notin Bad
  BY <1>4
<1>6. G(T) = F(Parts(T))
  BY <1>5
<1> QED BY <1>1, <1>6 DEF G

(* Equal remainders make equal remainders.                                  *)
LEMMA ModSame ==
  ASSUME NEW W \in Int, W > 0, NEW a \in Int, NEW b \in Int, NEW c \in Int, NEW d \in Int,
         a % W = b % W, c % W = d % W
  PROVE  (a + c) % W = (b + d) % W
<1>1. ((a % W) + c) % W = (a + c) % W /\ ((b % W) + c) % W = (b + c) % W
  BY ModAdd
<1>2. ((c % W) + b) % W = (c + b) % W /\ ((d % W) + b) % W = (d + b) % W
  BY ModAdd
<1>3. b + c = c + b /\ b + d = d + b
  OBVIOUS
<1> QED BY <1>1, <1>2, <1>3

LEMMA SumModulo ==
  ASSUME NEW W \in Int, W > 0, NEW S, NEW f, Summable(f, S), NEW g, Summable(g, S),
         \A x \in S : f[x] % W = g[x] % W
  PROVE  SumFunctionOnSet(f, S) % W = SumFunctionOnSet(g, S) % W
<1> DEFINE F(T) == SumFunctionOnSet(f, T)
           G(T) == SumFunctionOnSet(g, T)
           Bad == {T \in SUBSET S : F(T) % W # G(T) % W}
<1>s. SumsOver(f, S) /\ SumsOver(g, S)
  BY SumStep
<1>1. \A T \in SUBSET S :
        /\ T = {} => F(T) = 0 /\ G(T) = 0
        /\ \A x \in T : /\ F(T) = f[x] + F(T \ {x}) /\ F(T \ {x}) \in Int /\ f[x] \in Int
                        /\ G(T) = g[x] + G(T \ {x}) /\ G(T \ {x}) \in Int /\ g[x] \in Int
                        /\ T \ {x} \in SUBSET S
  BY <1>s DEF SumsOver
<1> HIDE DEF F, G
<1>2. Bad = {}
  <2> SUFFICES ASSUME Bad # {} PROVE FALSE
    OBVIOUS
  <2>1. PICK T \in Bad : \A x \in T : T \ {x} \notin Bad
    <3>1. IsFiniteSet(S) /\ Bad \subseteq SUBSET S
      BY SummableFacts
    <3> HIDE DEF Bad
    <3> QED BY <3>1, SmallestSet
  <2>2. T \in SUBSET S /\ F(T) % W # G(T) % W
    BY <2>1
  <2>3. T # {}
    BY <1>1, <2>2
  <2>4. PICK x \in T : TRUE
    BY <2>3
  <2>5. F(T \ {x}) % W = G(T \ {x}) % W /\ f[x] % W = g[x] % W
    BY <1>1, <2>1, <2>2, <2>4
  <2>6. /\ F(T) = f[x] + F(T \ {x}) /\ F(T \ {x}) \in Int /\ f[x] \in Int
        /\ G(T) = g[x] + G(T \ {x}) /\ G(T \ {x}) \in Int /\ g[x] \in Int
    BY <1>1, <2>2, <2>4
  <2>7. (f[x] + F(T \ {x})) % W = (g[x] + G(T \ {x})) % W
    <3>1. \A a, b, c, d \in Int : a % W = b % W /\ c % W = d % W => (a + c) % W = (b + d) % W
      BY ModSame
    <3> QED BY <2>5, <2>6, <3>1
  <2> QED BY <2>2, <2>6, <2>7
<1>3. S \in SUBSET S /\ S \notin Bad
  BY <1>2
<1> QED BY <1>3 DEF F, G

(* The running totals are sums over intervals.                              *)
LEMMA SumOfInterval ==
  ASSUME NEW lens, Len(lens) \in Nat, \A i \in 1 .. Len(lens) : lens[i] \in Nat,
         NEW a \in 1 .. Len(lens) + 1, NEW b \in a .. Len(lens) + 1
  PROVE  /\ Summable(lens, 1 .. Len(lens))
         /\ SumFunctionOnSet(lens, a .. b - 1) = Offsets(lens)[b] - Offsets(lens)[a]
<1> DEFINE off == Offsets(lens)
           F(T) == SumFunctionOnSet(lens, T)
           Bad == {e \in a .. Len(lens) + 1 : F(a .. e - 1) # off[e] - off[a]}
<1>1. Summable(lens, 1 .. Len(lens))
  <2>1. IsFiniteSet(1 .. Len(lens))
    BY FS_Interval
  <2> QED BY <2>1 DEF Summable
<1>2. /\ off \in [1 .. Len(lens) + 1 -> Nat]
      /\ \A i \in 1 .. Len(lens) + 1 : off[i] = IF i = 1 THEN 0 ELSE off[i - 1] + lens[i - 1]
  BY OffsetsUnfold
<1>3. \A T \in SUBSET (1 .. Len(lens)) :
        /\ T = {} => F(T) = 0
        /\ \A x \in T : F(T) = lens[x] + F(T \ {x}) /\ lens[x] \in Int /\ F(T \ {x}) \in Int
  <2> DEFINE S == 1 .. Len(lens)
  <2>1. Summable(lens, S)
    BY <1>1
  <2> HIDE DEF S
  <2>2. \A T \in SUBSET S :
          /\ T = {} => F(T) = 0
          /\ \A x \in T : F(T) = lens[x] + F(T \ {x}) /\ lens[x] \in Int /\ F(T \ {x}) \in Int
    <3>1. SumsOver(lens, S)
      BY <2>1, SumStep
    <3> QED BY <3>1 DEF SumsOver
  <2> QED BY <2>2 DEF S
<1> HIDE DEF off, F
<1>4. Bad = {}
  <2> SUFFICES ASSUME Bad # {} PROVE FALSE
    OBVIOUS
  <2>1. PICK e \in Bad : \A d \in Bad : e <= d
    <3>1. Bad \subseteq Nat
      OBVIOUS
    <3> HIDE DEF Bad
    <3> QED BY <3>1, NatMin
  <2>2. e \in a .. Len(lens) + 1 /\ F(a .. e - 1) # off[e] - off[a] /\ off[a] \in Nat /\ a \in Nat
    <3>1. off[a] \in Nat
      BY <1>2
    <3> QED BY <2>1, <3>1
  <2>3. e # a
    <3> SUFFICES ASSUME e = a PROVE FALSE
      OBVIOUS
    <3>1. a .. e - 1 = {} /\ a .. e - 1 \in SUBSET (1 .. Len(lens))
      BY <2>2
    <3> QED BY <1>3, <2>2, <3>1
  <2>4. /\ e - 1 \in a .. Len(lens) + 1 /\ e - 1 < e /\ e \in Nat /\ e # 1 /\ e \in 1 .. Len(lens) + 1
        /\ e - 1 \in a .. e - 1 /\ a .. e - 1 \in SUBSET (1 .. Len(lens))
        /\ (a .. e - 1) \ {e - 1} = a .. (e - 1) - 1 /\ e - 1 \in 1 .. Len(lens) + 1
    <3>1. e \in Nat /\ a \in Nat /\ a >= 1 /\ Len(lens) \in Nat /\ a < e /\ e <= Len(lens) + 1
      BY <2>2, <2>3
    <3> QED BY <3>1
  <2>5. F(a .. (e - 1) - 1) = off[e - 1] - off[a]
    <3>1. e - 1 \notin Bad
      <4> HIDE DEF Bad
      <4> QED BY <2>1, <2>4
    <3> QED BY <2>4, <3>1
  <2>6. off[e] = off[e - 1] + lens[e - 1] /\ off[e - 1] \in Nat
    <3>1. off[e - 1] \in Nat
      BY <1>2, <2>4
    <3> QED BY <1>2, <2>4, <3>1
  <2>7. F(a .. e - 1) = lens[e - 1] + F(a .. (e - 1) - 1) /\ lens[e - 1] \in Int
    <3> DEFINE I == a .. e - 1
               x == e - 1
    <3>1. I \in SUBSET (1 .. Len(lens)) /\ x \in I /\ I \ {x} = a .. (e - 1) - 1
      BY <2>4
    <3> HIDE DEF I, x
    <3>2. F(I) = lens[x] + F(I \ {x}) /\ lens[x] \in Int
      BY <1>3, <3>1
    <3>3. F(I) = lens[x] + F(a .. (e - 1) - 1) /\ lens[x] \in Int
      BY <3>1, <3>2
    <3> QED BY <3>3 DEF I, x
  <2> QED BY <2>2, <2>5, <2>6, <2>7
<1>5. b \notin Bad
  BY <1>4
<1> QED BY <1>1, <1>5 DEF F, off

----------------------------------------------------------------------------
(* FlattenSeq and IsPrefix *)

(* The beginning of a sequence.                                             *)
LEMMA PrefixFacts ==
  ASSUME NEW S, NEW s \in Seq(S), NEW n \in 0 .. Len(s)
  PROVE  /\ SubSeq(s, 1, n) \in Seq(S) /\ Len(SubSeq(s, 1, n)) = n
         /\ IsPrefix(SubSeq(s, 1, n), s)
<1>1. n \in Nat /\ Len(s) \in Nat /\ n <= Len(s)
  BY LenProperties
<1>2. SubSeq(s, 1, n) \in Seq(S) /\ Len(SubSeq(s, 1, n)) = n
  <2>1. 0 \in 0 .. Len(s) /\ n \in 0 .. Len(s) /\ 0 + 1 = 1 /\ n - 0 = n
    BY <1>1
  <2>2. SubSeq(s, 0 + 1, n) \in Seq(S) /\ Len(SubSeq(s, 0 + 1, n)) = n - 0
    BY <2>1, SubSeqFacts
  <2> QED BY <2>1, <2>2
<1>3. SubSeq(SubSeq(s, 1, n), 1, n) = SubSeq(s, 1, n)
  BY <1>2, SubSeqFull
<1> QED BY <1>1, <1>2, <1>3 DEF IsPrefix

----------------------------------------------------------------------------
(* Sequences of sequences *)

(* The recursive definition in FlattenSeq has a solution.                   *)
LEMMA FlattenExists ==
  ASSUME NEW S, NEW file \in Seq(Seq(S)), file # <<>>
  PROVE  \A n \in 1 .. Len(file) : \E f \in [1 .. n -> Seq(S)] :
           \A i \in 1 .. n : f[i] = IF i = 1 THEN file[i] ELSE f[i - 1] \o file[i]
<1> DEFINE Rec(f, n) == \A i \in 1 .. n :
                          f[i] = IF i = 1 THEN file[i] ELSE f[i - 1] \o file[i]
           Bad == {n \in 1 .. Len(file) : ~ \E f \in [1 .. n -> Seq(S)] : Rec(f, n)}
<1>0. Len(file) \in Nat /\ \A i \in 1 .. Len(file) : file[i] \in Seq(S)
  BY LenProperties, ElementOfSeq
<1>1. SUFFICES ASSUME Bad # {} PROVE FALSE
  OBVIOUS
<1>2. PICK n \in Bad : \A m \in Bad : n <= m
  <2>1. Bad \subseteq Nat
    BY <1>0
  <2> HIDE DEF Bad
  <2> QED BY <1>1, <2>1, NatMin
<1>3. n # 1
  <2> DEFINE f == [i \in 1 .. 1 |-> file[1]]
  <2>1. 1 \in 1 .. Len(file) => f \in [1 .. 1 -> Seq(S)] /\ Rec(f, 1)
    BY <1>0
  <2> QED BY <1>2, <2>1
<1>4. n \in 1 .. Len(file) /\ n - 1 \in 1 .. Len(file) /\ n \in Nat
  BY <1>0, <1>2, <1>3
<1>5. PICK f \in [1 .. n - 1 -> Seq(S)] : Rec(f, n - 1)
  <2>1. n - 1 \notin Bad
    <3>1. n - 1 < n /\ n - 1 \in Nat
      BY <1>4
    <3> HIDE DEF Bad
    <3>2. n - 1 \in Bad => n <= n - 1
      BY <1>2
    <3> QED BY <1>4, <3>1, <3>2
  <2> QED BY <1>4, <2>1
<1> DEFINE g == [i \in 1 .. n |-> IF i = n THEN f[n - 1] \o file[n] ELSE f[i]]
<1>6. f[n - 1] \o file[n] \in Seq(S)
  <2>1. f[n - 1] \in Seq(S) /\ file[n] \in Seq(S)
    BY <1>0, <1>4, <1>5
  <2> QED BY <2>1, ConcatProperties
<1>7. g \in [1 .. n -> Seq(S)]
  BY <1>3, <1>4, <1>5, <1>6
<1>8. Rec(g, n)
  <2> SUFFICES ASSUME NEW i \in 1 .. n
               PROVE  g[i] = IF i = 1 THEN file[i] ELSE g[i - 1] \o file[i]
    OBVIOUS
  <2>1. CASE i = n
    <3>1. i # 1 /\ n \in 1 .. n /\ n - 1 \in 1 .. n /\ n - 1 # n
      BY <1>3, <1>4, <2>1
    <3>2. g[n] = f[n - 1] \o file[n]
      BY <3>1, Zenon
    <3>3. g[n - 1] = f[n - 1]
      BY <3>1, Zenon
    <3> HIDE DEF g
    <3> QED BY <2>1, <3>1, <3>2, <3>3
  <2>2. CASE i # n
    <3>1. i \in 1 .. n - 1 /\ g[i] = f[i] /\ (i # 1 => i - 1 \in 1 .. n - 1 /\ g[i - 1] = f[i - 1])
      BY <1>4, <2>2
    <3>2. f[i] = IF i = 1 THEN file[i] ELSE f[i - 1] \o file[i]
      BY <1>5, <3>1
    <3> HIDE DEF g
    <3> QED BY <3>1, <3>2
  <2> QED BY <2>1, <2>2
<1> QED BY <1>2, <1>7, <1>8

(* The body of a file that has chunks, chunk by chunk.                      *)
LEMMA FlattenUnfold ==
  ASSUME NEW S, NEW file \in Seq(Seq(S)), file # <<>>
  PROVE  \E g \in [1 .. Len(file) -> Seq(S)] :
           /\ \A i \in 1 .. Len(file) : g[i] = IF i = 1 THEN file[i] ELSE g[i - 1] \o file[i]
           /\ FlattenSeq(file) = g[Len(file)]
<1> DEFINE Rec(f) == [i \in 1 .. Len(file) |-> IF i = 1 THEN file[i] ELSE f[i - 1] \o file[i]]
           g == CHOOSE f : f = Rec(f)
<1>1. Len(file) \in Nat /\ Len(file) # 0
  BY LenProperties, EmptySeq
<1>2. FlattenSeq(file) = g[Len(file)]
  BY <1>1, Zenon DEF FlattenSeq
<1>3. PICK f \in [1 .. Len(file) -> Seq(S)] :
        \A i \in 1 .. Len(file) : f[i] = IF i = 1 THEN file[i] ELSE f[i - 1] \o file[i]
  <2>1. Len(file) \in 1 .. Len(file)
    BY <1>1
  <2>2. \A n \in 1 .. Len(file) : \E f \in [1 .. n -> Seq(S)] :
          \A i \in 1 .. n : f[i] = IF i = 1 THEN file[i] ELSE f[i - 1] \o file[i]
    BY FlattenExists
  <2> QED BY <2>1, <2>2, Zenon
<1>4. f = Rec(f)
  <2>1. \A i \in 1 .. Len(file) : f[i] = Rec(f)[i]
    BY <1>3
  <2>2. f = [i \in 1 .. Len(file) |-> f[i]]
    BY <1>3
  <2> QED BY <2>1, <2>2
<1>5. g = Rec(g)
  <2> HIDE DEF Rec
  <2> QED BY <1>4, Zenon
<1>6. \A i \in 1 .. Len(file) : g[i] = IF i = 1 THEN file[i] ELSE g[i - 1] \o file[i]
  <2> HIDE DEF g
  <2> QED BY <1>5
<1>7. DOMAIN g = 1 .. Len(file)
  <2> HIDE DEF g
  <2> QED BY <1>5
<1> HIDE DEF g
<1>8. \A i \in 1 .. Len(file) : g[i] \in Seq(S)
  <2> DEFINE Bad == {i \in 1 .. Len(file) : g[i] \notin Seq(S)}
  <2>1. SUFFICES ASSUME Bad # {} PROVE FALSE
    OBVIOUS
  <2>2. PICK i \in Bad : \A m \in Bad : i <= m
    <3>1. Bad \subseteq Nat
      BY <1>1
    <3> HIDE DEF Bad
    <3> QED BY <2>1, <3>1, NatMin
  <2>3. i \in 1 .. Len(file) /\ i \in Nat /\ file[i] \in Seq(S) /\ g[i] \notin Seq(S)
    BY <1>1, <2>2, ElementOfSeq
  <2>4. i # 1
    BY <1>6, <2>3
  <2>5. i - 1 \in 1 .. Len(file) /\ i - 1 \notin Bad
    <3>1. i - 1 \in 1 .. Len(file) /\ ~(i <= i - 1)
      BY <1>1, <2>3, <2>4
    <3> HIDE DEF Bad
    <3> QED BY <2>2, <3>1
  <2>6. g[i - 1] \in Seq(S)
    BY <2>5
  <2> QED BY <1>6, <2>3, <2>4, <2>6, ConcatProperties
<1>9. g \in [1 .. Len(file) -> Seq(S)]
  <2>1. g = [i \in 1 .. Len(file) |-> g[i]]
    BY <1>5, <1>7
  <2> QED BY <1>8, <2>1
<1> QED BY <1>2, <1>6, <1>9

(* The body is the chunks of the file at their offsets.                     *)
LEMMA BodyChunks ==
  ASSUME NEW S, NEW file \in Seq(Seq(S)),
         NEW off \in [1 .. Len(file) + 1 -> Nat], off[1] = 0,
         \A i \in 1 .. Len(file) : off[i + 1] = off[i] + Len(file[i])
  PROVE  /\ FlattenSeq(file) \in Seq(S)
         /\ Len(FlattenSeq(file)) = off[Len(file) + 1]
         /\ \A j \in 1 .. Len(file) :
              /\ SubSeq(FlattenSeq(file), off[j] + 1, off[j + 1]) = file[j]
              /\ off[j + 1] <= off[Len(file) + 1]
<1>0. Len(file) \in Nat /\ \A i \in 1 .. Len(file) : file[i] \in Seq(S) /\ Len(file[i]) \in Nat
  BY LenProperties, ElementOfSeq
<1>1. CASE file = <<>>
  <2>1. Len(file) = 0 /\ FlattenSeq(file) = file
    BY <1>1, EmptySeq DEF FlattenSeq
  <2>2. file \in Seq(S)
    BY <1>1
  <2> QED BY <2>1, <2>2
<1>2. CASE file # <<>>
  <2>0. Len(file) # 0
    BY <1>2, EmptySeq
  <2>1. PICK g \in [1 .. Len(file) -> Seq(S)] :
          /\ \A i \in 1 .. Len(file) : g[i] = IF i = 1 THEN file[i] ELSE g[i - 1] \o file[i]
          /\ FlattenSeq(file) = g[Len(file)]
    BY <1>2, FlattenUnfold
  <2> DEFINE Done(i) == /\ Len(g[i]) = off[i + 1]
                        /\ \A j \in 1 .. i : /\ SubSeq(g[i], off[j] + 1, off[j + 1]) = file[j]
                                             /\ off[j + 1] <= off[i + 1]
             Bad == {i \in 1 .. Len(file) : ~Done(i)}
  <2>2. Bad = {}
    <3>1. SUFFICES ASSUME Bad # {} PROVE FALSE
      OBVIOUS
    <3>2. PICK i \in Bad : \A m \in Bad : i <= m
      <4>1. Bad \subseteq Nat
        BY <1>0
      <4> HIDE DEF Bad
      <4> QED BY <3>1, <4>1, NatMin
    <3>3. i \in 1 .. Len(file) /\ i \in Nat /\ ~Done(i)
      BY <1>0, <3>2
    <3>4. /\ i + 1 \in 1 .. Len(file) + 1 /\ i \in 1 .. Len(file) + 1
          /\ off[i] \in Nat /\ off[i + 1] \in Nat /\ Len(file[i]) \in Nat /\ file[i] \in Seq(S)
          /\ off[i + 1] = off[i] + Len(file[i]) /\ g[i] \in Seq(S)
      <4>1. i + 1 \in 1 .. Len(file) + 1 /\ i \in 1 .. Len(file) + 1
        BY <1>0, <3>3
      <4>2. off[i] \in Nat /\ off[i + 1] \in Nat
        BY <4>1
      <4>3. off[i + 1] = off[i] + Len(file[i]) /\ g[i] \in Seq(S)
        BY <2>1, <3>3
      <4> QED BY <1>0, <3>3, <4>1, <4>2, <4>3
    <3>5. CASE i = 1
      <4>1. g[1] = file[1] /\ off[1 + 1] = Len(file[1])
        <5>1. g[1] = file[1]
          BY <2>1, <3>3, <3>5
        <5>2. off[1 + 1] = off[1] + Len(file[1]) /\ Len(file[1]) \in Nat
          BY <3>4, <3>5
        <5>3. off[1 + 1] = Len(file[1])
          BY <5>2
        <5> QED BY <5>1, <5>3
      <4>2. SubSeq(file[1], 1, Len(file[1])) = file[1]
        BY <3>4, <3>5, SubSeqFull
      <4>3. Done(1)
        <5>1. \A j \in 1 .. 1 : j = 1
          OBVIOUS
        <5>2. off[1] + 1 = 1 /\ off[1 + 1] <= off[1 + 1]
          BY <3>4, <3>5
        <5> QED BY <4>1, <4>2, <5>1, <5>2
      <4> QED BY <3>3, <3>5, <4>3
    <3>6. CASE i # 1
      <4>1. i - 1 \in 1 .. Len(file) /\ ~(i <= i - 1) /\ (i - 1) + 1 = i
        BY <1>0, <3>3, <3>6
      <4>2. Done(i - 1)
        <5>1. i - 1 \notin Bad
          <6> HIDE DEF Bad
          <6> QED BY <3>2, <4>1
        <5> HIDE DEF Done
        <5> QED BY <4>1, <5>1
      <4> DEFINE old == g[i - 1]
      <4>3. /\ g[i] = old \o file[i] /\ old \in Seq(S) /\ Len(old) = off[i]
            /\ \A j \in 1 .. i - 1 : /\ SubSeq(old, off[j] + 1, off[j + 1]) = file[j]
                                     /\ off[j + 1] <= off[i]
        BY <2>1, <3>3, <3>6, <4>1, <4>2
      <4> HIDE DEF old
      <4>4. Len(g[i]) = off[i + 1]
        <5>1. Len(old \o file[i]) = Len(old) + Len(file[i])
          <6>1. old \in Seq(S) /\ file[i] \in Seq(S)
            BY <3>4, <4>3
          <6> QED BY <6>1, ConcatProperties
        <5> QED BY <3>4, <4>3, <5>1
      <4>5. SubSeq(g[i], off[i] + 1, off[i + 1]) = file[i]
        <5>1. SubSeq(old \o file[i], Len(old) + 1, Len(old \o file[i])) = file[i]
          BY <3>4, <4>3, AppendedSuffix
        <5> QED BY <4>3, <4>4, <5>1
      <4>6. ASSUME NEW j \in 1 .. i - 1
            PROVE  /\ SubSeq(g[i], off[j] + 1, off[j + 1]) = file[j]
                   /\ off[j + 1] <= off[i + 1]
        <5>1. /\ j \in 1 .. Len(file) /\ off[j] \in Nat /\ off[j + 1] \in Nat
              /\ off[j + 1] = off[j] + Len(file[j]) /\ Len(file[j]) \in Nat
              /\ file[j] \in Seq(S)
          <6>1. j \in 1 .. Len(file) /\ j \in 1 .. Len(file) + 1 /\ j + 1 \in 1 .. Len(file) + 1
            BY <1>0, <3>3
          <6> QED BY <1>0, <6>1
        <5>2. off[j + 1] <= off[i + 1]
          <6>1. off[j + 1] <= off[i]
            BY <4>3
          <6> DEFINE a == off[j + 1]
                     b == off[i]
                     c == off[i + 1]
          <6>2. a \in Nat /\ b \in Nat /\ c \in Nat /\ a <= b /\ b <= c
            <7>1. a \in Nat /\ b \in Nat /\ c \in Nat /\ a <= b
              BY <3>4, <5>1, <6>1
            <7> DEFINE l == Len(file[i])
            <7>2. l \in Nat /\ c = b + l
              BY <3>4
            <7> HIDE DEF a, b, c, l
            <7> QED BY <7>1, <7>2
          <6> HIDE DEF a, b, c
          <6>3. a <= c
            BY <6>2
          <6> QED BY <6>3 DEF a, c
        <5>3. CASE Len(file[j]) = 0
          <6>1. off[j + 1] < off[j] + 1
            BY <5>1, <5>3
          <6>2. SubSeq(g[i], off[j] + 1, off[j + 1]) = <<>>
            BY <5>1, <6>1, SubSeqEmpty
          <6>3. file[j] = <<>>
            BY <5>1, <5>3, EmptySeq
          <6> QED BY <5>2, <6>2, <6>3
        <5>4. CASE Len(file[j]) # 0
          <6>1. off[j] + 1 \in 1 .. Len(old) /\ off[j + 1] \in 1 .. Len(old)
            <7>1. off[j + 1] <= off[i] /\ Len(old) = off[i]
              BY <4>3
            <7> DEFINE a == off[j]
                       b == off[j + 1]
                       l == Len(file[j])
                       k == Len(old)
            <7>2. a \in Nat /\ b \in Nat /\ l \in Nat /\ l # 0 /\ b = a + l /\ b <= k
              BY <5>1, <5>4, <7>1
            <7>3. k \in Nat
              BY <3>4, <4>3
            <7> HIDE DEF a, b, l, k
            <7>4. a + 1 \in 1 .. k /\ b \in 1 .. k
              BY <7>2, <7>3
            <7> QED BY <7>4 DEF a, b, k
          <6>2. SubSeq(old \o file[i], off[j] + 1, off[j + 1]) = SubSeq(old, off[j] + 1, off[j + 1])
            BY <3>4, <4>3, <6>1, SubSeqOfConcat1
          <6> QED BY <4>3, <5>2, <6>2
        <5> QED BY <5>3, <5>4, <5>1
      <4>7. Done(i)
        <5>1. \A j \in 1 .. i : j = i \/ j \in 1 .. i - 1
          BY <3>3
        <5>2. off[i + 1] <= off[i + 1]
          BY <3>4
        <5> QED BY <4>4, <4>5, <4>6, <5>1, <5>2
      <4> QED BY <3>3, <4>7
    <3> QED BY <3>5, <3>6
  <2>3. Len(file) \in 1 .. Len(file)
    BY <1>0, <2>0
  <2>4. Done(Len(file))
    <3> HIDE DEF Done
    <3> QED BY <2>2, <2>3
  <2>5. g[Len(file)] \in Seq(S)
    BY <2>1, <2>3
  <2> QED BY <2>1, <2>4, <2>5
<1> QED BY <1>1, <1>2

(* A chunk more makes a body longer by that chunk.                          *)
LEMMA FlattenAppend ==
  ASSUME NEW S, NEW file \in Seq(Seq(S)), NEW x \in Seq(S)
  PROVE  FlattenSeq(Append(file, x)) = FlattenSeq(file) \o x
<1> DEFINE n == Len(file)
           longer == Append(file, x)
<1>1. n \in Nat /\ \A i \in 1 .. n : file[i] \in Seq(S)
  BY LenProperties, ElementOfSeq
<1>2. /\ longer \in Seq(Seq(S)) /\ Len(longer) = n + 1 /\ longer[n + 1] = x
      /\ \A i \in 1 .. n : longer[i] = file[i]
  BY AppendProperties
<1>3. longer # <<>>
  BY <1>1, <1>2, EmptySeq
<1> HIDE DEF longer, n
<1>4. PICK h \in [1 .. n + 1 -> Seq(S)] :
        /\ \A i \in 1 .. n + 1 : h[i] = IF i = 1 THEN longer[i] ELSE h[i - 1] \o longer[i]
        /\ FlattenSeq(longer) = h[n + 1]
  <2>1. \E h \in [1 .. Len(longer) -> Seq(S)] :
          /\ \A i \in 1 .. Len(longer) :
               h[i] = IF i = 1 THEN longer[i] ELSE h[i - 1] \o longer[i]
          /\ FlattenSeq(longer) = h[Len(longer)]
    BY <1>2, <1>3, FlattenUnfold, Zenon
  <2> QED BY <1>2, <2>1
<1>5. CASE n = 0
  <2>1. file = <<>>
    BY <1>5, EmptySeq DEF n
  <2>2. FlattenSeq(file) = <<>>
    BY <2>1, EmptySeq DEF FlattenSeq
  <2>3. h[1] = longer[1] /\ longer[1] = x /\ FlattenSeq(longer) = h[1]
    <3>1. n + 1 = 1 /\ 1 \in 1 .. n + 1
      BY <1>5
    <3> QED BY <1>2, <1>4, <3>1
  <2>4. <<>> \o x = x
    BY ConcatEmptySeq
  <2> QED BY <2>2, <2>3, <2>4 DEF longer
<1>6. CASE n # 0
  <2>1. file # <<>>
    BY <1>6, EmptySeq DEF n
  <2>2. PICK g \in [1 .. n -> Seq(S)] :
          /\ \A i \in 1 .. n : g[i] = IF i = 1 THEN file[i] ELSE g[i - 1] \o file[i]
          /\ FlattenSeq(file) = g[n]
    BY <2>1, FlattenUnfold DEF n
  <2> DEFINE Bad == {i \in 1 .. n : h[i] # g[i]}
  <2>3. Bad = {}
    <3>1. SUFFICES ASSUME Bad # {} PROVE FALSE
      OBVIOUS
    <3>2. PICK i \in Bad : \A m \in Bad : i <= m
      <4>1. Bad \subseteq Nat
        BY <1>1
      <4> HIDE DEF Bad
      <4> QED BY <3>1, <4>1, NatMin
    <3>3. i \in 1 .. n /\ i \in Nat /\ i \in 1 .. n + 1 /\ h[i] # g[i]
      BY <1>1, <3>2
    <3>4. i # 1
      BY <1>2, <1>4, <2>2, <3>3
    <3>5. h[i - 1] = g[i - 1]
      <4>1. i - 1 \in 1 .. n /\ ~(i <= i - 1)
        BY <1>1, <3>3, <3>4
      <4>2. i - 1 \notin Bad
        <5> HIDE DEF Bad
        <5> QED BY <3>2, <4>1
      <4> QED BY <4>1, <4>2
    <3>6. h[i] = h[i - 1] \o longer[i] /\ g[i] = g[i - 1] \o file[i] /\ longer[i] = file[i]
      BY <1>2, <1>4, <2>2, <3>3, <3>4
    <3> QED BY <3>3, <3>5, <3>6
  <2>4. h[n] = g[n]
    <3>1. n \in 1 .. n
      BY <1>1, <1>6
    <3> QED BY <2>3, <3>1
  <2>5. h[n + 1] = h[n] \o x
    <3>1. n + 1 \in 1 .. n + 1 /\ n + 1 # 1 /\ (n + 1) - 1 = n
      BY <1>1, <1>6
    <3> QED BY <1>2, <1>4, <3>1
  <2> QED BY <1>4, <2>2, <2>4, <2>5 DEF longer
<1> QED BY <1>5, <1>6

(* A sequence and its first element.                                        *)
LEMMA FirstAndRest ==
  ASSUME NEW S, NEW m \in Seq(S), NEW q \in Seq(S), Len(m) = Len(q) + 1,
         \A k \in 1 .. Len(q) : m[k + 1] = q[k]
  PROVE  m = <<m[1]>> \o q /\ m[1] \in S
<1>1. Len(m) \in Nat /\ Len(q) \in Nat /\ 1 \in 1 .. Len(m)
  BY LenProperties
<1>2. m[1] \in S
  BY <1>1, ElementOfSeq
<1> DEFINE x == m[1]
<1> HIDE DEF x
<1>3. <<x>> \in Seq(S) /\ Len(<<x>>) = 1 /\ <<x>>[1] = x
  BY <1>2 DEF x
<1> DEFINE one == <<x>>
           t == one \o q
<1> HIDE DEF one
<1>4. t \in Seq(S) /\ Len(t) = 1 + Len(q)
      /\ \A k \in 1 .. 1 + Len(q) : t[k] = IF k <= 1 THEN one[k] ELSE q[k - 1]
  BY <1>3, ConcatProperties DEF one
<1> HIDE DEF t
<1>5. ASSUME NEW k \in 1 .. Len(m) PROVE m[k] = t[k]
  <2>1. CASE k = 1
    BY <1>1, <1>3, <1>4, <2>1 DEF x, one
  <2>2. CASE k # 1
    <3>1. k - 1 \in 1 .. Len(q) /\ (k - 1) + 1 = k /\ ~(k <= 1) /\ k \in 1 .. 1 + Len(q)
      BY <1>1, <2>2
    <3>2. m[(k - 1) + 1] = q[k - 1]
      BY <3>1
    <3> QED BY <1>4, <3>1, <3>2
  <2> QED BY <2>1, <2>2
<1>6. m = t
  BY <1>1, <1>4, <1>5, SeqEqual
<1> QED BY <1>2, <1>6 DEF t, one, x

(* The elements from one on: it, and those after it.                        *)
LEMMA RestOfSeq ==
  ASSUME NEW S, NEW s \in Seq(S), NEW n \in Nat, n <= Len(s)
  PROVE  /\ SubSeq(s, n + 1, Len(s)) \in Seq(S) /\ Len(SubSeq(s, n + 1, Len(s))) = Len(s) - n
         /\ \A k \in 1 .. Len(s) - n : SubSeq(s, n + 1, Len(s))[k] = s[n + k]
         /\ n = 0 => SubSeq(s, n + 1, Len(s)) = s
         /\ n = Len(s) => SubSeq(s, n + 1, Len(s)) = <<>>
<1>1. Len(s) \in Nat /\ n \in 0 .. Len(s) /\ Len(s) \in n .. Len(s)
  BY LenProperties
<1>2. /\ SubSeq(s, n + 1, Len(s)) \in Seq(S) /\ Len(SubSeq(s, n + 1, Len(s))) = Len(s) - n
      /\ \A k \in 1 .. Len(s) - n : SubSeq(s, n + 1, Len(s))[k] = s[n + k]
  BY <1>1, SubSeqFacts
<1>3. n = 0 => SubSeq(s, n + 1, Len(s)) = s
  BY SubSeqFull
<1>4. n = Len(s) => SubSeq(s, n + 1, Len(s)) = <<>>
  BY <1>1, <1>2, EmptySeq
<1> QED BY <1>2, <1>3, <1>4

(* One more element of a sequence after the first ones.                     *)
LEMMA PrefixGrows ==
  ASSUME NEW S, NEW s \in Seq(S), NEW n \in Nat, n < Len(s), NEW t, t = SubSeq(s, 1, n)
  PROVE  /\ Append(t, s[n + 1]) = SubSeq(s, 1, n + 1)
         /\ Len(Append(t, s[n + 1])) = n + 1 /\ Len(t) = n
         /\ n + 1 = Len(s) => Append(t, s[n + 1]) = s
<1> DEFINE m == n + 1
           u == SubSeq(s, 1, m)
<1>1. n \in 0 .. Len(s) /\ m \in 0 .. Len(s) /\ 0 \in 0 .. Len(s) /\ 0 + 1 = 1 /\ n - 0 = n
      /\ m - 0 = m /\ m \in 1 .. Len(s) /\ n \in 0 .. Len(s) /\ m \in Nat /\ Len(s) \in Nat
  BY LenProperties
<1> HIDE DEF m
<1>2. t \in Seq(S) /\ Len(t) = n /\ \A k \in 1 .. n : t[k] = s[k]
  <2>1. /\ SubSeq(s, 0 + 1, n) \in Seq(S) /\ Len(SubSeq(s, 0 + 1, n)) = n - 0
        /\ \A k \in 1 .. n - 0 : SubSeq(s, 0 + 1, n)[k] = s[0 + k]
    BY <1>1, SubSeqFacts
  <2>2. t = SubSeq(s, 0 + 1, n)
    BY <1>1
  <2> QED BY <1>1, <2>1, <2>2
<1>3. u \in Seq(S) /\ Len(u) = m /\ \A k \in 1 .. m : u[k] = s[k]
  <2>1. /\ SubSeq(s, 0 + 1, m) \in Seq(S) /\ Len(SubSeq(s, 0 + 1, m)) = m - 0
        /\ \A k \in 1 .. m - 0 : SubSeq(s, 0 + 1, m)[k] = s[0 + k]
    BY <1>1, SubSeqFacts
  <2>2. u = SubSeq(s, 0 + 1, m)
    BY <1>1
  <2> HIDE DEF u
  <2> QED BY <1>1, <2>1, <2>2
<1> HIDE DEF u
<1>4. u = Append(t, u[Len(t) + 1])
  <2>1. Len(u) = Len(t) + 1 /\ \A k \in 1 .. Len(t) : u[k] = t[k]
    BY <1>1, <1>2, <1>3 DEF m
  <2> QED BY <1>2, <1>3, <2>1, OneMore
<1>5. u[Len(t) + 1] = s[n + 1]
  <2>1. Len(t) + 1 = m /\ m \in 1 .. m
    BY <1>1, <1>2 DEF m
  <2> QED BY <1>3, <2>1 DEF m
<1>6. m = Len(s) => u = s
  BY <1>3, SeqEqual
<1> QED BY <1>2, <1>3, <1>4, <1>5, <1>6 DEF u, m

(* Nothing is the start of every sequence.                                  *)
LEMMA NothingIsFirst ==
  ASSUME NEW S, NEW s \in Seq(S)
  PROVE  <<>> = SubSeq(s, 1, Len(<<>>)) /\ Len(<<>>) <= Len(s) /\ Len(<<>>) = 0
<1>1. Len(s) \in Nat /\ Len(<<>>) = 0 /\ <<>> \in Seq(S)
  BY LenProperties, EmptySeq
<1> DEFINE t == SubSeq(s, 0 + 1, 0)
<1>2. 0 \in 0 .. Len(s) /\ 0 - 0 = 0
  BY <1>1
<1>3. t \in Seq(S) /\ Len(t) = 0
  BY <1>2, SubSeqFacts
<1>4. t = SubSeq(s, 1, 0)
  OBVIOUS
<1> HIDE DEF t
<1>5. t = <<>>
  BY <1>3, EmptySeq
<1> QED BY <1>1, <1>4, <1>5

(* Products of natural numbers.                                             *)
LEMMA Products ==
  ASSUME NEW a \in Nat, NEW b \in Nat, NEW c \in Nat
  PROVE  /\ a * b \in Nat
         /\ a <= b => c * a <= c * b
         /\ a > 0 /\ b > 0 => a * b > 0
         /\ c * (a + b) = c * a + c * b
         /\ c * a = a * c /\ c * (a * b) = (c * a) * b
OBVIOUS

(* Two stretches of a sequence that meet.                                   *)
LEMMA Joined ==
  ASSUME NEW S, NEW s \in Seq(S), NEW a \in 0 .. Len(s), NEW p \in a .. Len(s),
         NEW q \in p .. Len(s)
  PROVE  SubSeq(s, a + 1, p) \o SubSeq(s, p + 1, q) = SubSeq(s, a + 1, q)
<1>1. a \in Nat /\ p \in Nat /\ q \in Nat /\ Len(s) \in Nat /\ a <= p /\ p <= q /\ q <= Len(s)
  BY LenProperties
<1> DEFINE u == SubSeq(s, a + 1, p)
           w == SubSeq(s, p + 1, q)
           x == SubSeq(s, a + 1, q)
<1>2. u \in Seq(S) /\ Len(u) = p - a /\ \A k \in 1 .. p - a : u[k] = s[a + k]
  BY SubSeqFacts
<1>3. w \in Seq(S) /\ Len(w) = q - p /\ \A k \in 1 .. q - p : w[k] = s[p + k]
  <2>1. p \in 0 .. Len(s)
    BY <1>1
  <2> QED BY <2>1, SubSeqFacts
<1>4. x \in Seq(S) /\ Len(x) = q - a /\ \A k \in 1 .. q - a : x[k] = s[a + k]
  <2>1. q \in a .. Len(s)
    BY <1>1
  <2> QED BY <2>1, SubSeqFacts
<1> HIDE DEF u, w, x
<1>5. /\ u \o w \in Seq(S) /\ Len(u \o w) = Len(u) + Len(w)
      /\ \A k \in 1 .. Len(u) + Len(w) : (u \o w)[k] = IF k <= Len(u) THEN u[k]
         ELSE w[k - Len(u)]
  BY <1>2, <1>3, ConcatProperties
<1>6. ASSUME NEW k \in 1 .. q - a PROVE (u \o w)[k] = x[k]
  <2>1. CASE k <= p - a
    BY <1>1, <1>2, <1>3, <1>4, <1>5, <2>1
  <2>2. CASE ~(k <= p - a)
    <3>1. k - (p - a) \in 1 .. q - p /\ p + (k - (p - a)) = a + k
      BY <1>1, <2>2
    <3> QED BY <1>1, <1>2, <1>3, <1>4, <1>5, <2>2, <3>1
  <2> QED BY <2>1, <2>2
<1>7. Len(u \o w) = q - a
  BY <1>1, <1>2, <1>3, <1>5
<1>8. u \o w = x
  BY <1>4, <1>5, <1>6, <1>7, SeqEqual
<1> QED BY <1>8 DEF u, w, x

(* A flattened sequence has the elements of its parts.                      *)
LEMMA FlattenTyped ==
  ASSUME NEW S, NEW o \in Seq(Seq(S))
  PROVE  FlattenSeq(o) \in Seq(S) /\ (o = <<>> => FlattenSeq(o) = <<>>)
<1>1. CASE o = <<>>
  <2>1. FlattenSeq(o) = <<>>
    BY <1>1 DEF FlattenSeq
  <2> QED BY <2>1, EmptySeq
<1>2. CASE o # <<>>
  <2>1. Len(o) \in Nat /\ Len(o) # 0
    BY <1>2, LenProperties, EmptySeq
  <2> QED BY <1>2, <2>1, FlattenUnfold
<1> QED BY <1>1, <1>2

(* A part in front of the others comes first.                               *)
LEMMA FlattenFront ==
  ASSUME NEW S, NEW x \in Seq(S), NEW s \in Seq(Seq(S))
  PROVE  FlattenSeq(<<x>> \o s) = x \o FlattenSeq(s)
<1> DEFINE Wrong(t) == FlattenSeq(<<x>> \o t) # x \o FlattenSeq(t)
           Bad == {n \in Nat : \E t \in Seq(Seq(S)) : Len(t) = n /\ Wrong(t)}
<1>1. SUFFICES ASSUME Bad # {} PROVE FALSE
  BY LenProperties
<1>2. PICK n \in Bad : \A y \in Bad : n <= y
  <2>1. Bad \subseteq Nat
    OBVIOUS
  <2> QED BY <1>1, <2>1, NatMin
<1>3. PICK t \in Seq(Seq(S)) : Len(t) = n /\ Wrong(t)
  BY <1>2
<1>4. n \in Nat /\ <<x>> \in Seq(Seq(S)) /\ Len(<<x>>) = 1
  BY <1>2
<1>5. CASE n = 0
  <2>1. t = <<>>
    BY <1>3, <1>5, EmptySeq
  <2>2. <<>> \in Seq(Seq(S)) /\ FlattenSeq(<<>>) = <<>>
    BY EmptySeq, FlattenTyped
  <2>3. FlattenSeq(Append(<<>>, x)) = FlattenSeq(<<>>) \o x
    BY <2>2, FlattenAppend
  <2>4. Append(<<>>, x) = <<x>> /\ <<x>> \o <<>> = <<x>>
    BY <1>4, ConcatEmptySeq
  <2>5. FlattenSeq(<<x>> \o t) = x
    BY <2>1, <2>2, <2>3, <2>4, ConcatEmptySeq
  <2>6. x \o FlattenSeq(t) = x
    BY <2>1, <2>2, ConcatEmptySeq
  <2> QED BY <1>3, <2>5, <2>6
<1>6. CASE n # 0
  <2> DEFINE f == SubSeq(t, 1, n - 1)
             z == t[n]
  <2>1. n - 1 \in Nat /\ n - 1 \in 0 .. Len(t) /\ n \in 1 .. Len(t) /\ 0 \in 0 .. Len(t)
        /\ (n - 1) + 1 = n /\ ~(n <= n - 1)
    BY <1>3, <1>4, <1>6
  <2>2. f \in Seq(Seq(S)) /\ Len(f) = n - 1 /\ z \in Seq(S)
    BY <2>1, PrefixFacts, ElementOfSeq
  <2>3. \A k \in 1 .. n - 1 : t[k] = f[k]
    <3> DEFINE m == n - 1
    <3>1. m \in 0 .. Len(t) /\ m - 0 = m /\ 0 + 1 = 1 /\ \A k \in 1 .. m : 0 + k = k
      BY <2>1
    <3> HIDE DEF m
    <3>2. \A k \in 1 .. m - 0 : SubSeq(t, 0 + 1, m)[k] = t[0 + k]
      BY <2>1, <3>1, SubSeqFacts
    <3>3. \A k \in 1 .. m : SubSeq(t, 1, m)[k] = t[k]
      BY <3>1, <3>2
    <3> QED BY <3>3 DEF m
  <2> HIDE DEF f, z
  <2>4. t = Append(f, z)
    <3>1. Len(t) = Len(f) + 1 /\ Len(f) + 1 = n
      BY <1>3, <2>1, <2>2
    <3>2. t = Append(f, t[Len(f) + 1])
      BY <2>2, <2>3, <3>1, OneMore
    <3> QED BY <3>1, <3>2 DEF z
  <2>5. FlattenSeq(t) = FlattenSeq(f) \o z /\ FlattenSeq(f) \in Seq(S)
    BY <2>2, <2>4, FlattenAppend, FlattenTyped
  <2>6. <<x>> \o t = Append(<<x>> \o f, z) /\ <<x>> \o f \in Seq(Seq(S))
    <3> DEFINE a == <<x>>
    <3> HIDE DEF a
    <3>1. a \in Seq(Seq(S))
      BY <1>4 DEF a
    <3>2. Append(f, z) = f \o <<z>> /\ <<z>> \in Seq(Seq(S))
      BY <2>2
    <3>3. a \o f \in Seq(Seq(S))
      BY <2>2, <3>1, ConcatProperties
    <3>4. Append(a \o f, z) = (a \o f) \o <<z>>
      <4> DEFINE g == a \o f
      <4> HIDE DEF g
      <4>1. g \in Seq(Seq(S))
        BY <3>3 DEF g
      <4>2. Append(g, z) = g \o <<z>>
        BY <2>2, <4>1
      <4> QED BY <4>2 DEF g
    <3>5. a \o (f \o <<z>>) = (a \o f) \o <<z>>
      <4> DEFINE y == <<z>>
                 T == Seq(S)
      <4> HIDE DEF y, T
      <4>1. a \in Seq(T) /\ f \in Seq(T) /\ y \in Seq(T)
        BY <2>2, <3>1, <3>2 DEF y, T
      <4>2. a \in Seq(T) /\ f \in Seq(T)
        BY <4>1
      <4>3. (a \o f) \o y = a \o (f \o y)
        BY <4>1, <4>2, ConcatAssociative
      <4> QED BY <4>3 DEF y
    <3>6. a \o t = Append(a \o f, z)
      BY <2>4, <3>2, <3>4, <3>5
    <3> QED BY <3>3, <3>6 DEF a
  <2>7. FlattenSeq(<<x>> \o t) = FlattenSeq(<<x>> \o f) \o z
    <3> DEFINE g == <<x>> \o f
    <3> HIDE DEF g
    <3>1. g \in Seq(Seq(S)) /\ <<x>> \o t = Append(g, z)
      BY <2>6 DEF g
    <3>2. FlattenSeq(Append(g, z)) = FlattenSeq(g) \o z
      BY <2>2, <3>1, FlattenAppend
    <3> QED BY <3>1, <3>2 DEF g
  <2>8. FlattenSeq(<<x>> \o f) = x \o FlattenSeq(f)
    <3>1. n - 1 \notin Bad
      BY <1>2, <2>1
    <3>2. ~Wrong(f)
      BY <2>1, <2>2, <3>1
    <3> QED BY <3>2
  <2>9. (x \o FlattenSeq(f)) \o z = x \o (FlattenSeq(f) \o z)
    <3> DEFINE g == FlattenSeq(f)
    <3> HIDE DEF g
    <3>1. g \in Seq(S)
      BY <2>5 DEF g
    <3>2. z \in Seq(S)
      BY <2>2
    <3>3. (x \o g) \o z = x \o (g \o z)
      BY <3>1, <3>2, ConcatAssociative
    <3> QED BY <3>3 DEF g
  <2> QED BY <1>3, <2>5, <2>7, <2>8, <2>9
<1> QED BY <1>5, <1>6

(* The sequence w stands in s from position p on.                           *)
At(s, p, w) == p + Len(w) <= Len(s) /\ SubSeq(s, p + 1, p + Len(w)) = w

(* Units that follow each other: each part is where it is expected.         *)
LEMMA AtFacts ==
  ASSUME NEW S, NEW s \in Seq(S), NEW p \in Nat, NEW a \in Seq(S), NEW w \in Seq(S),
         At(s, p, a \o w)
  PROVE  /\ Len(a) \in Nat /\ Len(w) \in Nat /\ Len(s) \in Nat
         /\ p + Len(a) + Len(w) <= Len(s) /\ Len(a \o w) = Len(a) + Len(w)
         /\ SubSeq(s, p + 1, p + Len(a)) = a /\ At(s, p + Len(a), w)
<1> DEFINE b == a \o w
           n == p + Len(a)
           m == n + Len(w)
<1>1. /\ b \in Seq(S) /\ Len(b) = Len(a) + Len(w)
      /\ (\A k \in 1 .. Len(a) : b[k] = a[k])
      /\ (\A k \in 1 .. Len(w) : b[k + Len(a)] = w[k])
      /\ Len(a) \in Nat /\ Len(w) \in Nat /\ Len(s) \in Nat
  <2>1. b \in Seq(S)
    BY ConcatProperties
  <2>2. Len(b) = Len(a) + Len(w)
    BY ConcatProperties
  <2>3. \A k \in 1 .. Len(a) + Len(w) : b[k] = IF k <= Len(a) THEN a[k] ELSE w[k - Len(a)]
    BY ConcatProperties
  <2>4. Len(a) \in Nat /\ Len(w) \in Nat /\ Len(s) \in Nat
    BY LenProperties
  <2> HIDE DEF b
  <2>5. \A k \in 1 .. Len(a) : b[k] = a[k]
    BY <2>3, <2>4
  <2>6. ASSUME NEW k \in 1 .. Len(w) PROVE b[k + Len(a)] = w[k]
    <3>1. k + Len(a) \in 1 .. Len(a) + Len(w) /\ ~(k + Len(a) <= Len(a)) /\ (k + Len(a)) - Len(a) = k
      BY <2>4
    <3> QED BY <2>3, <3>1
  <2> QED BY <2>1, <2>2, <2>4, <2>5, <2>6
<1>2. n \in Nat /\ m \in Nat /\ m <= Len(s) /\ p <= n /\ n <= m /\ m = p + Len(b)
      /\ SubSeq(s, p + 1, m) = b
  <2>1. n \in Nat /\ m \in Nat /\ p <= n /\ n <= m /\ m = p + Len(b)
    BY <1>1
  <2>2. p + Len(b) <= Len(s) /\ SubSeq(s, p + 1, p + Len(b)) = b
    BY DEF At
  <2> QED BY <2>1, <2>2
<1> HIDE DEF b, n, m
<1>3. \A k \in 1 .. m - p : b[k] = s[p + k]
  <2>1. p \in 0 .. Len(s) /\ m \in p .. Len(s)
    BY <1>1, <1>2
  <2> QED BY <1>2, <2>1, SubSeqFacts
<1>4. SubSeq(s, p + 1, n) = a
  <2> DEFINE t == SubSeq(s, p + 1, n)
  <2>1. p \in 0 .. Len(s) /\ n \in p .. Len(s) /\ n - p = Len(a)
    BY <1>1, <1>2 DEF n
  <2>2. t \in Seq(S) /\ Len(t) = Len(a) /\ \A k \in 1 .. Len(a) : t[k] = s[p + k]
    BY <2>1, SubSeqFacts
  <2>3. \A k \in 1 .. Len(a) : s[p + k] = a[k]
    BY <1>1, <1>2, <1>3, <2>1
  <2> HIDE DEF t
  <2>4. t = a
    BY <2>2, <2>3, SeqEqual
  <2> QED BY <2>4 DEF t
<1>5. SubSeq(s, n + 1, m) = w
  <2> DEFINE t == SubSeq(s, n + 1, m)
  <2>1. n \in 0 .. Len(s) /\ m \in n .. Len(s) /\ m - n = Len(w) /\ m - p = Len(a) + Len(w)
    BY <1>1, <1>2 DEF n, m
  <2>2. t \in Seq(S) /\ Len(t) = Len(w) /\ \A k \in 1 .. Len(w) : t[k] = s[n + k]
    BY <2>1, SubSeqFacts
  <2>3. ASSUME NEW k \in 1 .. Len(w) PROVE s[n + k] = w[k]
    <3>1. k + Len(a) \in 1 .. m - p /\ n + k = p + (k + Len(a))
      BY <1>1, <2>1 DEF n
    <3> QED BY <1>1, <1>3, <3>1
  <2> HIDE DEF t
  <2>4. t = w
    BY <2>2, <2>3, SeqEqual
  <2> QED BY <2>4 DEF t
<1>6. At(s, n, w)
  BY <1>2, <1>5 DEF At, m
<1>7. Len(a \o w) = Len(a) + Len(w) /\ p + Len(a) + Len(w) <= Len(s)
  BY <1>1, <1>2 DEF b, m, n
<1> QED BY <1>1, <1>4, <1>6, <1>7 DEF n

(* A sequence stands in itself.                                             *)
LEMMA WholeIsThere ==
  ASSUME NEW S, NEW s \in Seq(S)
  PROVE  At(s, 0, s)
<1>1. Len(s) \in Nat
  BY LenProperties
<1>2. SubSeq(s, 0 + 1, Len(s)) = s
  BY <1>1, RestOfSeq
<1>3. 0 + Len(s) = Len(s)
  BY <1>1
<1> QED BY <1>1, <1>2, <1>3 DEF At

=============================================================================

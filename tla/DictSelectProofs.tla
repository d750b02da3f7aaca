-------------------------- MODULE DictSelectProofs --------------------------
(***************************************************************************)
(* Theorems about the choice of a dictionary's content, for all samples and *)
(* every length of dmers and segments.                                      *)
(***************************************************************************)
EXTENDS DictSelect, SequenceLemmas

----------------------------------------------------------------------------
(* Dmers of a window *)

LEMMA ConstantFacts ==
  /\ DmerLen \in Nat /\ DmerLen > 0 /\ SegLen \in Nat /\ SegLen >= DmerLen
  /\ Word \in Nat /\ Word > 1 /\ Targets \subseteq Nat /\ Corpora \subseteq Seq(Seq(Byte))
BY DictSelectAssumption

(* A dmer of a part of a sequence is a dmer of the sequence.                *)
LEMMA DmerOfPart ==
  ASSUME NEW s \in Seq(Byte), NEW a \in 1 .. Len(s) + 1, NEW b \in a - 1 .. Len(s)
  PROVE  LET part == SubSeq(s, a, b)
         IN  /\ part \in Seq(Byte) /\ Len(part) = b - a + 1
             /\ Positions(part) = 1 .. b - a + 2 - DmerLen
             /\ \A i \in Positions(part) : DmerAt(part, i) = DmerAt(s, a + i - 1)
<1> DEFINE part == SubSeq(s, a, b)
           o == a - 1
<1>1. /\ Len(s) \in Nat /\ o \in 0 .. Len(s) /\ b \in o .. Len(s) /\ a = o + 1 /\ o \in Nat /\ b \in Nat
      /\ b - o = b - a + 1
  BY LenProperties
<1> HIDE DEF o
<1>2. part \in Seq(Byte) /\ Len(part) = b - o /\ \A i \in 1 .. b - o : part[i] = s[o + i]
  BY <1>1, SubSeqFacts
<1> HIDE DEF part
<1>3. Positions(part) = 1 .. b - a + 2 - DmerLen
  <2>1. \A i \in Int : i + DmerLen - 1 <= b - o <=> i <= b - a + 2 - DmerLen
    BY <1>1, ConstantFacts
  <2>2. \A i : i \in 1 .. b - o /\ i + DmerLen - 1 <= b - o <=> i \in 1 .. b - a + 2 - DmerLen
    BY <1>1, <2>1, ConstantFacts
  <2> QED BY <1>2, <2>2 DEF Positions
<1>4. ASSUME NEW i \in Positions(part)
      PROVE  DmerAt(part, i) = DmerAt(s, a + i - 1)
  <2> DEFINE e == i + DmerLen - 1
             l == SubSeq(part, i, e)
             r == SubSeq(s, o + i, o + e)
             c == i - 1
  <2>1. i \in 1 .. b - o /\ e <= b - o /\ i <= e /\ i \in Nat /\ e \in Nat
    BY <1>1, <1>2, ConstantFacts DEF Positions
  <2> HIDE DEF e
  <2>2. /\ c \in 0 .. Len(part) /\ e \in c .. Len(part) /\ i = c + 1
        /\ o + c \in 0 .. Len(s) /\ o + e \in o + c .. Len(s) /\ o + i = (o + c) + 1
        /\ (o + e) - (o + c) = e - c /\ c \in Nat
    BY <1>1, <1>2, <2>1
  <2> HIDE DEF c
  <2>3. l \in Seq(Byte) /\ Len(l) = e - c /\ \A j \in 1 .. e - c : l[j] = part[c + j]
    <3>1. l = SubSeq(part, c + 1, e)
      BY <2>2
    <3> HIDE DEF l
    <3>2. part \in Seq(Byte) /\ c \in 0 .. Len(part) /\ e \in c .. Len(part)
      BY <1>2, <2>2
    <3>3. /\ SubSeq(part, c + 1, e) \in Seq(Byte) /\ Len(SubSeq(part, c + 1, e)) = e - c
          /\ \A j \in 1 .. e - c : SubSeq(part, c + 1, e)[j] = part[c + j]
      BY <3>2, SubSeqFacts
    <3> QED BY <3>1, <3>3
  <2>4. r \in Seq(Byte) /\ Len(r) = e - c /\ \A j \in 1 .. e - c : r[j] = s[(o + c) + j]
    <3> DEFINE x == o + c
               y == o + e
    <3>1. x \in 0 .. Len(s) /\ y \in x .. Len(s) /\ r = SubSeq(s, x + 1, y) /\ y - x = e - c
      BY <2>2
    <3> HIDE DEF x, y, r
    <3>2. r \in Seq(Byte) /\ Len(r) = y - x /\ \A j \in 1 .. y - x : r[j] = s[x + j]
      BY <3>1, SubSeqFacts
    <3> QED BY <3>1, <3>2 DEF x
  <2> HIDE DEF l, r
  <2>5. \A j \in 1 .. e - c : l[j] = r[j]
    <3> SUFFICES ASSUME NEW j \in 1 .. e - c PROVE l[j] = r[j]
      OBVIOUS
    <3>1. c + j \in 1 .. b - o /\ o + (c + j) = (o + c) + j
      BY <1>1, <2>1, <2>2
    <3> QED BY <1>2, <2>3, <2>4, <3>1
  <2>6. l = r
    BY <2>3, <2>4, <2>5, SeqEqual
  <2>7. o + i = a + i - 1 /\ o + e = a + i - 1 + DmerLen - 1
    BY <1>1, <2>1, ConstantFacts DEF e
  <2> QED BY <2>6, <2>7 DEF DmerAt, l, r, e
<1> QED BY <1>1, <1>2, <1>3, <1>4 DEF part

(* The dmers that begin between a and b, and the places where d does.       *)
DmersFrom(s, a, b) == {DmerAt(s, j) : j \in a .. b}
Places(s, a, b, d) == {j \in a .. b : DmerAt(s, j) = d}

LEMMA WindowFacts ==
  ASSUME NEW s \in Seq(Byte), NEW w \in Nat, w >= DmerLen, NEW i \in 1 .. Len(s) - w + 1
  PROVE  LET window == SubSeq(s, i, i + w - 1)
             last_  == i + w - DmerLen
         IN  /\ window \in Seq(Byte)
             /\ DmersOf(window) = DmersFrom(s, i, last_)
             /\ \A d : Occurrences(window, d) = Cardinality(Places(s, i, last_, d))
<1> DEFINE b == i + w - 1
           window == SubSeq(s, i, b)
           m == w - DmerLen + 1
           z == i + w - DmerLen
<1>1. /\ i \in 1 .. Len(s) + 1 /\ b \in i - 1 .. Len(s) /\ b - i + 2 - DmerLen = m
      /\ m \in Nat /\ z = i + m - 1 /\ i \in Nat /\ z \in Nat
  BY LenProperties, ConstantFacts
<1>2. /\ window \in Seq(Byte) /\ Positions(window) = 1 .. m
      /\ \A j \in 1 .. m : DmerAt(window, j) = DmerAt(s, i + j - 1)
  <2> HIDE DEF b, m, z
  <2>1. /\ window \in Seq(Byte) /\ Positions(window) = 1 .. b - i + 2 - DmerLen
        /\ \A j \in Positions(window) : DmerAt(window, j) = DmerAt(s, i + j - 1)
    BY <1>1, DmerOfPart
  <2> QED BY <1>1, <2>1
<1> HIDE DEF window, m, z
<1>3. /\ \A j \in 1 .. m : i + j - 1 \in i .. z
      /\ \A j \in i .. z : j - i + 1 \in 1 .. m /\ i + (j - i + 1) - 1 = j
  BY <1>1
<1>4. DmersOf(window) = DmersFrom(s, i, z)
  <2>1. ASSUME NEW j \in 1 .. m PROVE DmerAt(window, j) \in DmersFrom(s, i, z)
    BY <1>2, <1>3 DEF DmersFrom
  <2>2. ASSUME NEW j \in i .. z PROVE DmerAt(s, j) \in DmersOf(window)
    <3>1. DmerAt(window, j - i + 1) = DmerAt(s, j) /\ j - i + 1 \in Positions(window)
      BY <1>2, <1>3
    <3> QED BY <3>1 DEF DmersOf
  <2> QED BY <1>2, <2>1, <2>2 DEF DmersOf, DmersFrom
<1>5. ASSUME NEW d
      PROVE  Occurrences(window, d) = Cardinality(Places(s, i, z, d))
  <2> DEFINE P == {j \in Positions(window) : DmerAt(window, j) = d}
             Q == Places(s, i, z, d)
             f == [j \in P |-> i + j - 1]
  <2>1. P \subseteq 1 .. m /\ Q \subseteq i .. z
    BY <1>2 DEF Places
  <2>2. \A j \in P : f[j] \in Q
    BY <1>2, <1>3 DEF Places
  <2>3. \A j \in Q : j - i + 1 \in P /\ f[j - i + 1] = j
    BY <1>2, <1>3 DEF Places
  <2>4. \A x, y \in P : f[x] = f[y] => x = y
    <3>1. \A x, y \in 1 .. m : i + x - 1 = i + y - 1 => x = y
      BY <1>1
    <3> QED BY <2>1, <3>1
  <2>5. DOMAIN f = P /\ f \in [P -> Q]
    BY <2>2
  <2> HIDE DEF f
  <2>6. f \in Injection(P, Q)
    <3> HIDE DEF P, Q
    <3> QED BY <2>4, <2>5 DEF Injection, IsInjective
  <2>7. f \in Surjection(P, Q)
    <3> HIDE DEF P, Q
    <3> QED BY <2>3, <2>5 DEF Surjection
  <2>8. ExistsBijection(P, Q)
    <3> HIDE DEF P, Q
    <3> QED BY <2>6, <2>7 DEF ExistsBijection, Bijection
  <2>9. IsFiniteSet(P)
    <3>1. IsFiniteSet(1 .. m)
      BY <1>1, FS_Interval
    <3> HIDE DEF P
    <3> QED BY <2>1, <3>1, FS_Subset
  <2>10. Cardinality(Q) = Cardinality(P)
    <3> HIDE DEF P, Q
    <3> QED BY <2>8, <2>9, FS_Bijection
  <2> QED BY <2>10 DEF Occurrences
<1> QED BY <1>2, <1>4, <1>5 DEF window, z

(* One place more at the end, or at the beginning.                          *)
LEMMA PlacesFacts ==
  ASSUME NEW s, NEW a \in Nat, NEW b \in Nat, a <= b + 1, NEW d
  PROVE  LET n == Cardinality(Places(s, a, b, d))
         IN  /\ n \in Nat /\ (n = 0 <=> d \notin DmersFrom(s, a, b))
             /\ Cardinality(Places(s, a, b + 1, d)) = n + (IF DmerAt(s, b + 1) = d THEN 1 ELSE 0)
             /\ a > 0 => Cardinality(Places(s, a - 1, b, d))
                           = n + (IF DmerAt(s, a - 1) = d THEN 1 ELSE 0)
<1> DEFINE P == Places(s, a, b, d)
<1>1. IsFiniteSet(P) /\ Cardinality(P) \in Nat
  <2>1. IsFiniteSet(a .. b) /\ P \in SUBSET (a .. b)
    BY FS_Interval DEF Places
  <2> HIDE DEF P
  <2> QED BY <2>1, FS_Subset, FS_CardinalityType
<1>2. Cardinality(P) = 0 <=> d \notin DmersFrom(s, a, b)
  <2>1. P = {} <=> d \notin DmersFrom(s, a, b)
    BY DEF Places, DmersFrom
  <2> HIDE DEF P
  <2> QED BY <1>1, <2>1, FS_EmptySet
<1>3. Cardinality(Places(s, a, b + 1, d)) = Cardinality(P) + (IF DmerAt(s, b + 1) = d THEN 1 ELSE 0)
  <2>1. \A j : j \in a .. b + 1 <=> j \in a .. b \/ j = b + 1
    OBVIOUS
  <2>2. b + 1 \notin P
    BY DEF Places
  <2>3. Places(s, a, b + 1, d) = IF DmerAt(s, b + 1) = d THEN P \cup {b + 1} ELSE P
    BY <2>1 DEF Places
  <2> HIDE DEF P
  <2> QED BY <1>1, <2>2, <2>3, FS_AddElement
<1>4. ASSUME a > 0
      PROVE  Cardinality(Places(s, a - 1, b, d)) = Cardinality(P) + (IF DmerAt(s, a - 1) = d THEN 1 ELSE 0)
  <2>1. \A j : j \in a - 1 .. b <=> j \in a .. b \/ j = a - 1
    BY <1>4
  <2>2. a - 1 \notin P
    BY DEF Places
  <2>3. Places(s, a - 1, b, d) = IF DmerAt(s, a - 1) = d THEN P \cup {a - 1} ELSE P
    BY <2>1 DEF Places
  <2> HIDE DEF P
  <2> QED BY <1>1, <2>2, <2>3, FS_AddElement
<1> QED BY <1>1, <1>2, <1>3, <1>4

LEMMA DmersFinite ==
  ASSUME NEW s, NEW a \in Int, NEW b \in Int
  PROVE  IsFiniteSet(DmersFrom(s, a, b))
<1> DEFINE f == [j \in a .. b |-> DmerAt(s, j)]
<1>1. f \in Surjection(a .. b, DmersFrom(s, a, b))
  BY DEF Surjection, DmersFrom
<1>2. IsFiniteSet(a .. b)
  BY FS_Interval
<1> QED BY <1>1, <1>2, FS_Surjection DEF ExistsSurjection

----------------------------------------------------------------------------
(* What a window is worth *)

(* A dmer more.                                                             *)
LEMMA WorthWithOne ==
  ASSUME NEW f, NEW D, Summable(f, D), NEW x, x \notin D, f[x] \in Int
  PROVE  SumFunctionOnSet(f, D \cup {x}) % Word = ((SumFunctionOnSet(f, D) % Word) + f[x]) % Word
<1> DEFINE n == SumFunctionOnSet(f, D)
<1>1. n \in Int /\ SumFunctionOnSet(f, D \cup {x}) = n + f[x]
  BY SumFacts
<1> HIDE DEF n
<1>2. \A W, a, b \in Int : W > 0 => ((a % W) + b) % W = (a + b) % W
  BY ModAdd
<1>3. Word \in Int /\ Word > 0 /\ n \in Int /\ f[x] \in Int
  BY <1>1, ConstantFacts
<1> QED BY <1>1, <1>2, <1>3 DEF n

(* A dmer less.                                                             *)
LEMMA WorthWithoutOne ==
  ASSUME NEW f, NEW D, Summable(f, D), NEW x \in D
  PROVE  SumFunctionOnSet(f, D \ {x}) % Word = Minus(SumFunctionOnSet(f, D) % Word, f[x])
<1> DEFINE n == SumFunctionOnSet(f, D)
           m == SumFunctionOnSet(f, D \ {x})
           v == f[x]
           r == m % Word
           q == m \div Word
<1>1. n \in Int /\ m \in Int /\ v \in Int /\ n = v + m
  <2>1. Summable(f, D \ {x})
    BY SummableFacts
  <2> QED BY <2>1, SumFacts, SummableFacts
<1> HIDE DEF n, m, v
<1>2. ((n % Word) + (Word - v)) % Word = (n + (Word - v)) % Word
  <2> DEFINE c == Word - v
  <2>1. \A W, a, b \in Int : W > 0 => ((a % W) + b) % W = (a + b) % W
    BY ModAdd
  <2>2. Word \in Int /\ Word > 0 /\ n \in Int /\ c \in Int
    BY <1>1, ConstantFacts
  <2> HIDE DEF c
  <2>3. ((n % Word) + c) % Word = (n + c) % Word
    BY <2>1, <2>2
  <2> QED BY <2>3 DEF c
<1>3. m = Word * q + r /\ r \in 0 .. Word - 1 /\ q \in Int
  BY <1>1, ConstantFacts, ModIs
<1>4. n + (Word - v) = m + Word
  BY <1>1, ConstantFacts
<1>5. (m + Word) % Word = r
  <2> HIDE DEF q, r
  <2>1. m + Word = Word * (q + 1) + r
    BY <1>3, ConstantFacts
  <2>2. (Word * (q + 1) + r) % Word = r
    BY <1>3, ConstantFacts, ModUnique
  <2> QED BY <2>1, <2>2
<1>6. (n % Word) + Word - v = (n % Word) + (Word - v)
  <2>1. n % Word \in Int
    BY <1>1, ConstantFacts, ModIs
  <2> HIDE DEF r, q
  <2> QED BY <2>1, <1>1, ConstantFacts
<1>7. Minus(n % Word, v) = ((n % Word) + Word - v) % Word
  BY DEF Minus
<1> QED BY <1>2, <1>4, <1>5, <1>6, <1>7 DEF n, m, v, r

----------------------------------------------------------------------------
(* The windows of the samples *)

LEMMA SampleFacts ==
  ASSUME samples \in Corpora, NEW n \in DOMAIN samples
  PROVE  LET s == samples[n]
             w == Window(s)
         IN  /\ DOMAIN samples = 1 .. Len(samples) /\ Len(samples) \in Nat
             /\ s \in Seq(Byte) /\ Len(s) \in Nat /\ w \in 0 .. Len(s)
             /\ Len(s) < DmerLen => w = Len(s)
             /\ Len(s) >= DmerLen => w >= DmerLen
             /\ Windows(n) = 1 .. Len(s) - w + 1
<1>1. samples \in Seq(Seq(Byte))
  BY ConstantFacts
<1>2. DOMAIN samples = 1 .. Len(samples) /\ Len(samples) \in Nat
  BY <1>1, LenProperties
<1>3. samples[n] \in Seq(Byte)
  BY <1>1, <1>2, ElementOfSeq
<1>4. Len(samples[n]) \in Nat
  BY <1>3, LenProperties
<1>5. Windows(n) = 1 .. Len(samples[n]) - Window(samples[n]) + 1
  BY DEF Windows
<1>6. /\ Window(samples[n]) \in 0 .. Len(samples[n])
      /\ Len(samples[n]) < DmerLen => Window(samples[n]) = Len(samples[n])
      /\ Len(samples[n]) >= DmerLen => Window(samples[n]) >= DmerLen
  BY <1>4, ConstantFacts DEF Window
<1> QED BY <1>2, <1>3, <1>4, <1>5, <1>6

LEMMA DmersOfSample ==
  ASSUME samples \in Corpora, NEW n \in DOMAIN samples,
         NEW j \in 1 .. Len(samples[n]) - DmerLen + 1
  PROVE  DmerAt(samples[n], j) \in AllDmers(samples)
<1>1. j \in 1 .. Len(samples[n]) /\ j + DmerLen - 1 <= Len(samples[n])
  BY SampleFacts, ConstantFacts
<1>2. j \in Positions(samples[n])
  BY <1>1 DEF Positions
<1>3. DmerAt(samples[n], j) \in DmersOf(samples[n])
  BY <1>2 DEF DmersOf
<1> QED BY <1>3 DEF AllDmers

LEMMA WindowAtFacts ==
  ASSUME samples \in Corpora, NEW n \in DOMAIN samples, NEW i \in Windows(n)
  PROVE  LET s      == samples[n]
             last_  == i + Window(s) - DmerLen
             window == WindowAt(n, i)
         IN  /\ window \in Seq(Byte)
             /\ IsFiniteSet(DmersOf(window)) /\ DmersOf(window) \subseteq AllDmers(samples)
             /\ Len(s) < DmerLen => DmersOf(window) = {}
             /\ Len(s) >= DmerLen =>
                  /\ DmersOf(window) = DmersFrom(s, i, last_)
                  /\ \A d : Occurrences(window, d) = Cardinality(Places(s, i, last_, d))
                  /\ i \in Nat /\ last_ \in Nat /\ i <= last_ /\ last_ <= Len(s) - DmerLen + 1
<1> DEFINE s == samples[n]
           w == Window(s)
           z == i + w - DmerLen
           window == WindowAt(n, i)
<1>1. /\ s \in Seq(Byte) /\ Len(s) \in Nat /\ w \in 0 .. Len(s)
      /\ Len(s) < DmerLen => w = Len(s)
      /\ Len(s) >= DmerLen => w >= DmerLen
      /\ i \in 1 .. Len(s) - w + 1
  BY SampleFacts
<1>2. window = SubSeq(s, i, i + w - 1)
  BY DEF WindowAt
<1>3. CASE Len(s) < DmerLen
  <2> HIDE DEF s, w, window
  <2> DEFINE b == i + w - 1
  <2>1. i = 1 /\ w = Len(s) /\ b \in i - 1 .. Len(s) /\ i \in 1 .. Len(s) + 1
        /\ ~(b - i + 2 - DmerLen >= 1) /\ b - i + 2 - DmerLen \in Int
    BY <1>1, <1>3, ConstantFacts
  <2> HIDE DEF b
  <2>2. SubSeq(s, i, b) \in Seq(Byte) /\ Positions(SubSeq(s, i, b)) = 1 .. b - i + 2 - DmerLen
    BY <1>1, <2>1, DmerOfPart
  <2>3. window = SubSeq(s, i, b)
    BY <1>2 DEF b
  <2>4. Positions(window) = {}
    BY <2>1, <2>2, <2>3
  <2>5. DmersOf(window) = {} /\ window \in Seq(Byte)
    BY <2>2, <2>3, <2>4 DEF DmersOf
  <2>6. ~(Len(s) >= DmerLen)
    BY <1>1, <1>3, ConstantFacts
  <2>7. IsFiniteSet(DmersOf(window))
    BY <2>5, FS_EmptySet
  <2> QED BY <2>5, <2>6, <2>7 DEF s, w, window
<1>4. CASE Len(s) >= DmerLen
  <2>1. /\ window \in Seq(Byte) /\ DmersOf(window) = DmersFrom(s, i, z)
        /\ \A d : Occurrences(window, d) = Cardinality(Places(s, i, z, d))
    <3>1. w \in Nat /\ w >= DmerLen
      BY <1>1, <1>4
    <3> HIDE DEF s, w, window
    <3> QED BY <1>1, <1>2, <3>1, WindowFacts
  <2>2. i \in Nat /\ z \in Nat /\ i <= z /\ z <= Len(s) - DmerLen + 1 /\ ~(Len(s) < DmerLen)
        /\ i \in Int /\ z \in Int /\ i..z \subseteq 1 .. Len(s) - DmerLen + 1
    <3> HIDE DEF s, w, window
    <3> QED BY <1>1, <1>4, ConstantFacts
  <2> HIDE DEF w, z, window
  <2>3. DmersFrom(s, i, z) \subseteq AllDmers(samples)
    BY <2>2, DmersOfSample DEF DmersFrom
  <2>4. IsFiniteSet(DmersFrom(s, i, z))
    BY <2>2, DmersFinite
  <2> QED BY <2>1, <2>2, <2>3, <2>4 DEF w, z, window
<1> QED BY <1>1, <1>3, <1>4, ConstantFacts

(* Every dmer is in some window.                                            *)
LEMMA EveryDmerIsShown ==
  ASSUME samples \in Corpora, NEW d \in AllDmers(samples)
  PROVE  \E n \in DOMAIN samples : \E i \in Windows(n) : d \in DmersOf(WindowAt(n, i))
<1>1. PICK n \in DOMAIN samples : d \in DmersOf(samples[n])
  BY DEF AllDmers
<1> DEFINE s == samples[n]
           w == Window(s)
<1>2. PICK j \in Positions(s) : d = DmerAt(s, j)
  BY <1>1 DEF DmersOf
<1>3. /\ Len(s) \in Nat /\ w \in 0 .. Len(s)
      /\ Len(s) >= DmerLen => w >= DmerLen
      /\ Windows(n) = 1 .. Len(s) - w + 1
  BY SampleFacts
<1>4. j \in 1 .. Len(s) /\ j + DmerLen - 1 <= Len(s)
  BY <1>2 DEF Positions
<1> DEFINE i == IF j + w - 1 <= Len(s) THEN j ELSE Len(s) - w + 1
<1>5. Len(s) >= DmerLen /\ i \in 1 .. Len(s) - w + 1 /\ j \in i .. i + w - DmerLen
  <2> HIDE DEF s, w
  <2>1. Len(s) >= DmerLen
    BY <1>3, <1>4, ConstantFacts
  <2> QED BY <2>1, <1>3, <1>4, ConstantFacts
<1> HIDE DEF i
<1>6. i \in Windows(n)
  BY <1>3, <1>5
<1>7. DmersOf(WindowAt(n, i)) = DmersFrom(s, i, i + w - DmerLen)
  BY <1>5, <1>6, WindowAtFacts
<1> QED BY <1>2, <1>5, <1>6, <1>7 DEF DmersFrom

LEMMA WorthFacts ==
  ASSUME samples \in Corpora, NEW n \in DOMAIN samples, NEW i \in Windows(n),
         NEW f \in [AllDmers(samples) -> 0 .. Word - 1]
  PROVE  LET D == DmersOf(WindowAt(n, i))
         IN  /\ Summable(f, D) /\ SumFunctionOnSet(f, D) \in Nat
             /\ (SumFunctionOnSet(f, D) % Word) \in 0 .. Word - 1
<1> DEFINE D == DmersOf(WindowAt(n, i))
<1>1. IsFiniteSet(D) /\ D \subseteq AllDmers(samples)
  BY WindowAtFacts
<1>2. \A x \in D : f[x] \in Nat
  BY <1>1
<1>3. Summable(f, D)
  BY <1>1, <1>2 DEF Summable
<1>4. SumFunctionOnSet(f, D) \in Nat
  BY <1>2, <1>3, SumNat
<1>5. (SumFunctionOnSet(f, D) % Word) \in 0 .. Word - 1
  <2> HIDE DEF D
  <2> QED BY <1>4, ConstantFacts, ModIs
<1> QED BY <1>3, <1>4, <1>5

(* What is less than the word is its own remainder; no remainder is larger  *)
(* than its number.                                                         *)
LEMMA RemainderFacts ==
  ASSUME NEW n \in Nat
  PROVE  /\ n % Word \in 0 .. Word - 1 /\ n % Word <= n
         /\ n < Word => n % Word = n
<1> DEFINE q == n \div Word
           r == n % Word
<1>1. n = Word * q + r /\ r \in 0 .. Word - 1 /\ q \in Int /\ Word \in Nat /\ Word > 1
  BY ConstantFacts, ModIs
<1>2. n < Word => r = n
  <2>1. \A W \in Int, c \in Int : W > 0 /\ c \in 0 .. W - 1 => (W * 0 + c) % W = c
    BY ModUnique
  <2> HIDE DEF q
  <2>2. Word * 0 = 0
    BY <1>1
  <2> QED BY <1>1, <2>1, <2>2 DEF r
<1> HIDE DEF q, r
<1>3. r <= n
  BY <1>1, <1>2
<1> QED BY <1>1, <1>2, <1>3 DEF r

LEMMA NoDmersNoWorth ==
  ASSUME NEW f, NEW s, DmersOf(s) = {}
  PROVE  SumFunctionOnSet(f, DmersOf(s)) % Word = 0
<1>1. Summable(f, {})
  BY FS_EmptySet DEF Summable
<1>2. SumFunctionOnSet(f, {}) = 0
  BY <1>1, SumFacts
<1>3. 0 % Word = 0
  BY RemainderFacts, ConstantFacts
<1> QED BY <1>2, <1>3

LEMMA EmptyHasNoDmers == DmersOf(<<>>) = {}
<1>1. Len(<<>>) = 0
  OBVIOUS
<1>2. Positions(<<>>) = {}
  BY <1>1 DEF Positions
<1> QED BY <1>2 DEF DmersOf

LEMMA OccurrencesAreCounted ==
  ASSUME NEW s \in Seq(Byte), NEW d
  PROVE  Occurrences(s, d) \in Nat
<1> DEFINE P == {i \in Positions(s) : DmerAt(s, i) = d}
<1>1. IsFiniteSet(1 .. Len(s)) /\ P \subseteq 1 .. Len(s)
  BY LenProperties, FS_Interval DEF Positions
<1> HIDE DEF P
<1>2. Cardinality(P) \in Nat
  BY <1>1, FS_Subset, FS_CardinalityType
<1> QED BY <1>2 DEF P, Occurrences

LEMMA FrequencyIsNat ==
  ASSUME samples \in Corpora, NEW d
  PROVE  Frequency(samples, d) \in Nat
<1> DEFINE f == [n \in DOMAIN samples |-> Occurrences(samples[n], d)]
<1>1. \A n \in DOMAIN samples : f[n] \in Nat
  BY SampleFacts, OccurrencesAreCounted
<1>2. IsFiniteSet(DOMAIN samples)
  <2>1. samples \in Seq(Seq(Byte))
    BY ConstantFacts
  <2>2. DOMAIN samples = 1 .. Len(samples) /\ Len(samples) \in Nat
    BY <2>1, LenProperties
  <2> QED BY <2>2, FS_Interval
<1>3. Summable(f, DOMAIN samples) /\ DOMAIN f = DOMAIN samples
  BY <1>1, <1>2 DEF Summable
<1> HIDE DEF f
<1>4. SumFunctionOnSet(f, DOMAIN samples) \in Nat
  BY <1>1, <1>3, SumNat
<1> QED BY <1>3, <1>4 DEF Frequency, SumFunction, f

(* As long as nothing wraps, a window is worth the sum of its dmers.        *)
LEMMA WorthUnwrapped ==
  ASSUME samples \in Corpora, NEW n \in DOMAIN samples, NEW i \in Windows(n),
         NEW f \in [AllDmers(samples) -> 0 .. Word - 1],
         \A d \in AllDmers(samples) : f[d] <= Frequency(samples, d), NothingWraps
  PROVE  LET sum == SumFunctionOnSet(f, DmersOf(WindowAt(n, i)))
         IN  sum \in Nat /\ sum % Word = sum
<1> DEFINE D == DmersOf(WindowAt(n, i))
           g == [d \in D |-> Frequency(samples, d)]
<1>1. Summable(f, D) /\ SumFunctionOnSet(f, D) \in Nat /\ D \subseteq AllDmers(samples)
  BY WorthFacts, WindowAtFacts
<1>2. \A d \in D : g[d] \in Nat /\ f[d] <= g[d]
  BY <1>1, FrequencyIsNat
<1>3. Summable(g, D) /\ DOMAIN g = D
  BY <1>1, <1>2 DEF Summable
<1>4. SumFunctionOnSet(g, D) < Word
  <2>1. Counted(WindowAt(n, i)) < Word
    BY DEF NothingWraps
  <2>2. Counted(WindowAt(n, i)) = SumFunctionOnSet(g, DOMAIN g)
    BY DEF Counted, SumFunction
  <2> QED BY <1>3, <2>1, <2>2
<1> HIDE DEF g, D
<1>5. SumFunctionOnSet(f, D) <= SumFunctionOnSet(g, D) /\ SumFunctionOnSet(g, D) \in Int
  BY <1>1, <1>2, <1>3, SumMonotonic, SumFacts
<1>6. SumFunctionOnSet(f, D) < Word
  BY <1>1, <1>4, <1>5, ConstantFacts
<1>7. SumFunctionOnSet(f, D) % Word = SumFunctionOnSet(f, D)
  BY <1>1, <1>6, RemainderFacts
<1> QED BY <1>1, <1>7 DEF D

----------------------------------------------------------------------------
(* The inductive invariant *)

LEMMA InitIInv == Init => IInv
<1> SUFFICES ASSUME Init PROVE IInv
  OBVIOUS
<1>1. samples \in Corpora /\ target \in Targets /\ samples \in Seq(Seq(Byte)) /\ Len(samples) \in Nat
  BY ConstantFacts, LenProperties DEF Init
<1>2. \A d : Frequency(samples, d) \in Nat /\ Frequency(samples, d) % Word \in 0 .. Word - 1
             /\ Frequency(samples, d) % Word <= Frequency(samples, d)
  BY <1>1, FrequencyIsNat, RemainderFacts
<1>3. freq \in [AllDmers(samples) -> 0 .. Word - 1]
      /\ DOMAIN freq = AllDmers(samples)
      /\ \A d \in DOMAIN freq : freq[d] <= Frequency(samples, d)
  BY <1>2 DEF Init
<1>4. SelectionTypes
  BY <1>1, <1>3, ConstantFacts DEF Init, SelectionTypes
<1>5. WindowInSample /\ ScoreIsTheValue /\ BestIsTheBest /\ PicksGetWorse
  BY DEF Init, WindowInSample, ScoreIsTheValue, BestIsTheBest, PicksGetWorse
<1>6. NoneIsBetter
  <2>1. \A n \in DOMAIN samples : ~(n < k) /\ pc # "window"
    BY <1>1, LenProperties DEF Init
  <2>2. Value(best) = 0
    BY EmptyHasNoDmers, NoDmersNoWorth DEF Init, Value
  <2> QED BY <2>1, <2>2 DEF Init, NoneIsBetter
<1>7. WorthDecreases
  <2>1. \A n \in DOMAIN samples : \A i \in Windows(n) : Value(WindowAt(n, i)) \in 0 .. Word - 1
    BY <1>1, <1>3, WorthFacts DEF Value
  <2>2. \A n \in DOMAIN samples : \A i \in Windows(n) : Value(WindowAt(n, i)) <= last
    BY <2>1, ConstantFacts DEF Init
  <2> QED BY <1>3, <2>2 DEF WorthDecreases
<1>8. NothingOfValueIsLeft
  <2>1. Len(content) = 0 /\ target \in Nat
    BY <1>1, ConstantFacts DEF Init
  <2>2. pc = "done" /\ Len(content) < target => freq = <<>>
    BY <2>1 DEF Init
  <2>3. DOMAIN <<>> = {}
    OBVIOUS
  <2> QED BY <2>1, <2>2, <2>3 DEF NothingOfValueIsLeft
<1> QED BY <1>4, <1>5, <1>6, <1>7, <1>8 DEF IInv

(* The samples' windows and what they are worth, in a step that leaves the  *)
(* samples and the frequencies alone.                                       *)
LEMMA SameSamples ==
  ASSUME samples' = samples
  PROVE  /\ \A n : Windows(n)' = Windows(n)
         /\ \A n, i : WindowAt(n, i)' = WindowAt(n, i)
         /\ NothingWraps' <=> NothingWraps
<1>1. \A n : Windows(n)' = Windows(n)
  BY DEF Windows, Window
<1>2. \A n, i : WindowAt(n, i)' = WindowAt(n, i)
  BY DEF WindowAt, Window
<1>3. \A s : Counted(s)' = Counted(s)
  BY DEF Counted
<1>4. NothingWraps' <=> NothingWraps
  BY <1>1, <1>2, <1>3 DEF NothingWraps
<1> QED BY <1>1, <1>2, <1>4

LEMMA SameWorth ==
  ASSUME samples' = samples, freq' = freq
  PROVE  /\ \A n, i : Value(WindowAt(n, i))' = Value(WindowAt(n, i))
         /\ \A s : SumFunctionOnSet(freq', DmersOf(s)) % Word = Value(s)
         /\ Value(best)' = Value(best')
<1>1. \A n, i : WindowAt(n, i)' = WindowAt(n, i)
  BY SameSamples
<1> QED BY <1>1 DEF Value

(* The invariant's facts about the windows, for a later step to use.        *)
LEMMA InvFacts ==
  ASSUME IInv
  PROVE  /\ samples \in Corpora /\ Len(samples) \in Nat /\ DOMAIN samples = 1 .. Len(samples)
         /\ freq \in [AllDmers(samples) -> 0 .. Word - 1] /\ DOMAIN freq = AllDmers(samples)
         /\ \A n \in DOMAIN samples : \A i \in Windows(n) :
              Value(WindowAt(n, i)) \in 0 .. Word - 1 /\ WindowAt(n, i) \in Seq(Byte)
         /\ k \in 1 .. Len(samples) + 1 /\ target \in Nat /\ Len(content) \in Nat
         /\ bestScore \in 0 .. Word - 1 /\ last \in 0 .. Word
<1>1. /\ samples \in Corpora /\ freq \in [AllDmers(samples) -> 0 .. Word - 1]
      /\ k \in 1 .. Len(samples) + 1 /\ target \in Targets /\ content \in Seq(Byte)
      /\ bestScore \in 0 .. Word - 1 /\ last \in 0 .. Word
  BY DEF IInv, SelectionTypes
<1>2. \A n \in DOMAIN samples : \A i \in Windows(n) :
        Value(WindowAt(n, i)) \in 0 .. Word - 1 /\ WindowAt(n, i) \in Seq(Byte)
  BY <1>1, WorthFacts, WindowAtFacts DEF Value
<1>3. samples \in Seq(Seq(Byte))
  BY <1>1, ConstantFacts
<1>4. DOMAIN samples = 1 .. Len(samples) /\ Len(samples) \in Nat /\ Len(content) \in Nat
  BY <1>1, <1>3, LenProperties
<1> QED BY <1>1, <1>2, <1>4, ConstantFacts

(* A window that is tried next, with its score and its dmers known.         *)
LEMMA TryWindow ==
  ASSUME IInv, k <= Len(samples), NEW i \in Windows(k), DmerLen <= Len(samples[k]),
         \/ pc = "sample" /\ i = 1
         \/ pc = "window" /\ i = start + 1,
         pc' = "window", start' = i, k' = k,
         score' = Value(WindowAt(k, i)), Compare(WindowAt(k, i), Value(WindowAt(k, i))),
         DOMAIN active' = DOMAIN freq,
         \A d \in DOMAIN freq : active'[d] = Occurrences(WindowAt(k, i), d),
         UNCHANGED <<samples, target, freq, content, last>>
  PROVE  IInv'
<1>1. /\ samples \in Corpora /\ Len(samples) \in Nat /\ DOMAIN samples = 1 .. Len(samples)
      /\ freq \in [AllDmers(samples) -> 0 .. Word - 1] /\ DOMAIN freq = AllDmers(samples)
      /\ \A n \in DOMAIN samples : \A j \in Windows(n) :
           Value(WindowAt(n, j)) \in 0 .. Word - 1 /\ WindowAt(n, j) \in Seq(Byte)
      /\ k \in 1 .. Len(samples) + 1 /\ bestScore \in 0 .. Word - 1
  BY InvFacts
<1>2. /\ \A n : Windows(n)' = Windows(n)
      /\ \A n, j : WindowAt(n, j)' = WindowAt(n, j)
      /\ NothingWraps' <=> NothingWraps
      /\ \A n, j : Value(WindowAt(n, j))' = Value(WindowAt(n, j))
      /\ Value(best)' = Value(best')
  BY SameSamples, SameWorth
<1>3. k \in DOMAIN samples
  BY <1>1
<1> DEFINE window == WindowAt(k, i)
           value  == Value(window)
<1>4. value \in 0 .. Word - 1 /\ window \in Seq(Byte)
  BY <1>1, <1>3
<1>5. /\ bestScore' \in 0 .. Word - 1 /\ bestScore <= bestScore' /\ value <= bestScore'
      /\ (best' = best /\ bestScore' = bestScore) \/ (best' = window /\ bestScore' = value)
  <2>1. \/ value > bestScore /\ best' = window /\ bestScore' = value
        \/ ~(value > bestScore) /\ best' = best /\ bestScore' = bestScore
    BY DEF Compare
  <2> HIDE DEF value
  <2>2. bestScore \in 0 .. Word - 1 /\ Word \in Int
    BY <1>1, ConstantFacts
  <2> HIDE DEF window
  <2> QED BY <1>4, <2>1, <2>2
<1>6. SelectionTypes'
  BY <1>1, <1>4, <1>5 DEF IInv, SelectionTypes
<1>7. WindowInSample'
  BY <1>2 DEF WindowInSample
<1>8. ScoreIsTheValue'
  BY <1>2 DEF ScoreIsTheValue
<1>9. NoneIsBetter'
  <2>1. /\ pc # "done" /\ bestScore = Value(best)
        /\ best # <<>> => \E n \in DOMAIN samples : \E j \in Windows(n) : best = WindowAt(n, j)
        /\ \A n \in DOMAIN samples : \A j \in Windows(n) :
             n < k \/ (n = k /\ pc = "window" /\ j <= start) => Value(WindowAt(n, j)) <= bestScore
    BY DEF IInv, NoneIsBetter
  <2>2. bestScore' = Value(best')
    BY <1>5, <2>1
  <2>3. best' # <<>> => \E n \in DOMAIN samples : \E j \in Windows(n) : best' = WindowAt(n, j)
    BY <1>3, <1>5, <2>1
  <2>4. ASSUME NEW n \in DOMAIN samples, NEW j \in Windows(n), n < k \/ (n = k /\ j <= i)
        PROVE  Value(WindowAt(n, j)) <= bestScore'
    <3>1. Value(WindowAt(n, j)) \in 0 .. Word - 1
      BY <1>1
    <3>2. CASE n = k /\ j = i
      BY <1>5, <3>2
    <3>3. CASE ~(n = k /\ j = i)
      <4>1. j \in Nat /\ 1 <= j /\ i \in Nat
        <5>1. j \in 1 .. Len(samples[n]) - Window(samples[n]) + 1
              /\ i \in 1 .. Len(samples[k]) - Window(samples[k]) + 1
          BY DEF Windows
        <5>2. (\A x, y : x \in 1 .. y => x \in Int /\ x >= 1)
          OBVIOUS
        <5> QED BY <5>1, <5>2
      <4>2. pc = "window" => start \in Nat
        <5>1. pc = "window" => start \in 1 .. Len(samples[k]) - Window(samples[k]) + 1
          BY DEF IInv, WindowInSample, Windows
        <5>2. (\A x, y : x \in 1 .. y => x \in Int /\ x >= 1)
          OBVIOUS
        <5> QED BY <5>1, <5>2
      <4>3. n < k \/ (n = k /\ pc = "window" /\ j <= start)
        BY <2>4, <3>3, <4>1, <4>2
      <4>4. Value(WindowAt(n, j)) <= bestScore
        BY <2>1, <4>3
      <4> HIDE DEF value
      <4> QED BY <1>1, <1>5, <3>1, <4>4
    <3> QED BY <3>2, <3>3
  <2>5. \A n \in DOMAIN samples' : \A j \in Windows(n)' :
          n < k' \/ (n = k' /\ pc' = "window" /\ j <= start') => Value(WindowAt(n, j))' <= bestScore'
    BY <1>2, <2>4
  <2>6. bestScore' = Value(best)'
    BY <1>2, <2>2
  <2>7. best' # <<>> => \E n \in DOMAIN samples' : \E j \in Windows(n)' : best' = WindowAt(n, j)'
    BY <1>2, <2>3
  <2>8. pc' # "pick"
    OBVIOUS
  <2> QED BY <2>5, <2>6, <2>7, <2>8 DEF NoneIsBetter
<1>10. BestIsTheBest' /\ PicksGetWorse'
  BY DEF BestIsTheBest, PicksGetWorse
<1>11. WorthDecreases'
  <2>1. pc # "done" /\ WorthDecreases
    BY DEF IInv
  <2>2. \A d : Frequency(samples, d)' = Frequency(samples, d)
    OBVIOUS
  <2> QED BY <1>2, <2>1, <2>2 DEF WorthDecreases
<1>12. NothingOfValueIsLeft'
  BY DEF IInv, NothingOfValueIsLeft
<1> QED BY <1>6, <1>7, <1>8, <1>9, <1>10, <1>11, <1>12 DEF IInv

LEMMA FirstWindowStep == IInv /\ FirstWindow => IInv'
<1> SUFFICES ASSUME IInv, FirstWindow PROVE IInv'
  OBVIOUS
<1> DEFINE s == samples[k]
           w == Window(s)
           first == SubSeq(s, 1, w)
<1>1. /\ samples \in Corpora /\ Len(samples) \in Nat /\ DOMAIN samples = 1 .. Len(samples)
      /\ DOMAIN freq = AllDmers(samples)
      /\ \A n \in DOMAIN samples : \A j \in Windows(n) :
           Value(WindowAt(n, j)) \in 0 .. Word - 1 /\ WindowAt(n, j) \in Seq(Byte)
      /\ k \in 1 .. Len(samples) + 1 /\ bestScore \in 0 .. Word - 1
  BY InvFacts
<1>2. /\ pc = "sample" /\ k <= Len(samples) /\ k \in DOMAIN samples
      /\ UNCHANGED <<samples, target, freq, content, last>>
  BY <1>1 DEF FirstWindow
<1>3. /\ s \in Seq(Byte) /\ Len(s) \in Nat /\ w \in 0 .. Len(s)
      /\ Len(s) < DmerLen => w = Len(s)
      /\ Windows(k) = 1 .. Len(s) - w + 1
  BY <1>1, <1>2, SampleFacts
<1>4. 1 \in Windows(k) /\ WindowAt(k, 1) = first
  <2>1. 1 + w - 1 = w /\ 1 \in 1 .. Len(s) - w + 1
    <3> HIDE DEF s, w
    <3> QED BY <1>3
  <2> QED BY <1>3, <2>1 DEF WindowAt
<1>5. CASE Len(s) < DmerLen
  <2>1. k' = k + 1 /\ UNCHANGED <<pc, start, active, score, best, bestScore>>
    BY <1>5 DEF FirstWindow
  <2>2. /\ \A n : Windows(n)' = Windows(n)
        /\ \A n, j : WindowAt(n, j)' = WindowAt(n, j)
        /\ NothingWraps' <=> NothingWraps
        /\ \A n, j : Value(WindowAt(n, j))' = Value(WindowAt(n, j))
        /\ Value(best)' = Value(best')
    BY <1>2, SameSamples, SameWorth
  <2>3. SelectionTypes'
    BY <1>1, <1>2, <2>1 DEF IInv, SelectionTypes
  <2>4. WindowInSample' /\ ScoreIsTheValue' /\ BestIsTheBest' /\ PicksGetWorse'
    BY <1>2, <2>1 DEF WindowInSample, ScoreIsTheValue, BestIsTheBest, PicksGetWorse
  <2>5. NoneIsBetter'
    <3>1. NoneIsBetter
      BY DEF IInv
    <3>2. ASSUME NEW n \in DOMAIN samples, NEW i \in Windows(n), n < k + 1
          PROVE  Value(WindowAt(n, i)) <= bestScore
      <4>1. CASE n < k
        BY <1>2, <3>1, <4>1 DEF NoneIsBetter
      <4>2. CASE n = k
        <5>1. DmersOf(WindowAt(n, i)) = {}
          BY <1>1, <1>5, <4>2, WindowAtFacts
        <5>2. Value(WindowAt(n, i)) = 0
          BY <5>1, NoDmersNoWorth DEF Value
        <5> QED BY <1>1, <5>2
      <4> QED BY <1>1, <3>2, <4>1, <4>2
    <3>3. bestScore = Value(best)
      BY <1>2, <3>1 DEF NoneIsBetter
    <3>4. \A n \in DOMAIN samples' : \A i \in Windows(n)' :
            n < k' \/ (n = k' /\ pc' = "window" /\ i <= start') => Value(WindowAt(n, i))' <= bestScore'
      BY <1>2, <2>1, <2>2, <3>2
    <3>5. bestScore' = Value(best)'
      BY <2>1, <2>2, <3>3
    <3>6. best' # <<>> => \E n \in DOMAIN samples' : \E j \in Windows(n)' : best' = WindowAt(n, j)'
      BY <1>2, <2>1, <2>2, <3>1 DEF NoneIsBetter
    <3>7. pc' # "pick"
      BY <1>2, <2>1
    <3> QED BY <3>4, <3>5, <3>6, <3>7 DEF NoneIsBetter
  <2>6. WorthDecreases'
    <3>1. pc # "done" /\ WorthDecreases
      BY <1>2 DEF IInv
    <3>2. \A d : Frequency(samples, d)' = Frequency(samples, d)
      BY <1>2
    <3> QED BY <1>2, <2>1, <2>2, <3>1, <3>2 DEF WorthDecreases
  <2>7. NothingOfValueIsLeft'
    BY <1>2, <2>1 DEF IInv, NothingOfValueIsLeft
  <2> QED BY <2>3, <2>4, <2>5, <2>6, <2>7 DEF IInv
<1>6. CASE ~(Len(s) < DmerLen)
  <2>1. /\ pc' = "window" /\ start' = 1 /\ k' = k
        /\ active' = [d \in DOMAIN freq |-> Occurrences(first, d)]
        /\ score' = Value(first) /\ Compare(first, Value(first))
    BY <1>6 DEF FirstWindow
  <2>2. DmerLen <= Len(s)
    <3> HIDE DEF s
    <3> QED BY <1>3, <1>6, ConstantFacts
  <2>3. DOMAIN active' = DOMAIN freq /\ \A d \in DOMAIN freq : active'[d] = Occurrences(WindowAt(k, 1), d)
    BY <1>4, <2>1
  <2> QED BY <1>2, <1>4, <2>1, <2>2, <2>3, TryWindow
<1> QED BY <1>5, <1>6

(* The dmer that leaves and the dmer that comes are all that changes.       *)
LEMMA SlideFacts ==
  ASSUME IInv, pc = "window", MoreWindows
  PROVE  LET s       == samples[k]
             w       == Window(s)
             leaving == DmerAt(s, start)
             coming  == DmerAt(s, start + 1 + w - DmerLen)
             less    == [active EXCEPT ![leaving] = @ - 1]
             reduced == IF less[leaving] = 0 THEN Minus(score, freq[leaving]) ELSE score
             value   == IF ComesAnew(active, less, coming) THEN (reduced + freq[coming]) % Word
                        ELSE reduced
             moved   == [less EXCEPT ![coming] = @ + 1]
             next    == WindowAt(k, start + 1)
         IN  /\ k <= Len(samples) /\ start + 1 \in Windows(k) /\ DmerLen <= Len(s)
             /\ next = SubSeq(s, start + 1, start + w)
             /\ value = Value(next) /\ DOMAIN moved = DOMAIN freq
             /\ \A d \in DOMAIN freq : moved[d] = Occurrences(next, d)
<1> DEFINE s == samples[k]
           w == Window(s)
           a == start
           z == start + w - DmerLen
           leaving == DmerAt(s, a)
           coming  == DmerAt(s, start + 1 + w - DmerLen)
           less    == [active EXCEPT ![leaving] = @ - 1]
           reduced == IF less[leaving] = 0 THEN Minus(score, freq[leaving]) ELSE score
           value   == IF ComesAnew(active, less, coming) THEN (reduced + freq[coming]) % Word
                      ELSE reduced
           moved   == [less EXCEPT ![coming] = @ + 1]
           now     == WindowAt(k, start)
           next    == WindowAt(k, start + 1)
           Old == DmersFrom(s, a, z)
           Mid == DmersFrom(s, a + 1, z)
           New == DmersFrom(s, a + 1, z + 1)
<1>1. /\ samples \in Corpora /\ DOMAIN samples = 1 .. Len(samples)
      /\ freq \in [AllDmers(samples) -> 0 .. Word - 1] /\ DOMAIN freq = AllDmers(samples)
      /\ k <= Len(samples) /\ k \in DOMAIN samples
      /\ start \in Windows(k) /\ DmerLen <= Len(s) /\ DOMAIN active = DOMAIN freq
  BY InvFacts DEF IInv, WindowInSample
<1>2. /\ s \in Seq(Byte) /\ Len(s) \in Nat /\ w \in 0 .. Len(s) /\ w >= DmerLen
      /\ Windows(k) = 1 .. Len(s) - w + 1
  <2>1. Len(s) \in Nat /\ (Len(s) >= DmerLen => w >= DmerLen)
    BY <1>1, SampleFacts
  <2>2. Len(s) >= DmerLen
    <3> HIDE DEF s
    <3> QED BY <1>1, <2>1, ConstantFacts
  <2> QED BY <1>1, <2>1, <2>2, SampleFacts
<1>3. start + w <= Len(s)
  BY DEF MoreWindows
<1>4. /\ a \in Nat /\ z \in Nat /\ a > 0 /\ a <= z /\ z + 1 <= Len(s) - DmerLen + 1
      /\ start + 1 \in Windows(k) /\ start + 1 + w - 1 = start + w
      /\ start + 1 + w - DmerLen = z + 1
      /\ a \in 1 .. Len(s) - DmerLen + 1 /\ z + 1 \in 1 .. Len(s) - DmerLen + 1
  <2>1. start \in 1 .. Len(s) - w + 1 /\ start + w <= Len(s) /\ Len(s) \in Nat
        /\ w \in Nat /\ w >= DmerLen /\ DmerLen \in Nat /\ DmerLen > 0
    BY <1>1, <1>2, <1>3, ConstantFacts
  <2>2. Windows(k) = 1 .. Len(s) - w + 1
    BY <1>2
  <2> HIDE DEF s, w
  <2>3. start + 1 \in 1 .. Len(s) - w + 1
    BY <2>1
  <2> QED BY <2>1, <2>2, <2>3
<1>5. next = SubSeq(s, start + 1, start + w)
  BY <1>4 DEF WindowAt
<1>6. coming = DmerAt(s, z + 1)
  BY <1>4
<1>7. leaving \in AllDmers(samples) /\ coming \in AllDmers(samples)
  BY <1>1, <1>4, <1>6, DmersOfSample
<1>8. /\ DmersOf(now) = Old /\ \A d : Occurrences(now, d) = Cardinality(Places(s, a, z, d))
      /\ DmersOf(next) = New /\ \A d : Occurrences(next, d) = Cardinality(Places(s, a + 1, z + 1, d))
  <2>1. Len(s) >= DmerLen
    BY <1>1, <1>2, ConstantFacts
  <2>2. DmersOf(now) = Old /\ \A d : Occurrences(now, d) = Cardinality(Places(s, a, z, d))
    BY <1>1, <2>1, WindowAtFacts
  <2>3. DmersOf(next) = DmersFrom(s, start + 1, start + 1 + w - DmerLen)
        /\ \A d : Occurrences(next, d) = Cardinality(Places(s, start + 1, start + 1 + w - DmerLen, d))
    BY <1>1, <1>4, <2>1, WindowAtFacts
  <2> QED BY <1>4, <2>2, <2>3
<1>9. score = SumFunctionOnSet(freq, Old) % Word
      /\ \A d \in DOMAIN freq : active[d] = Cardinality(Places(s, a, z, d))
  <2>1. score = Value(now) /\ \A d \in DOMAIN active : active[d] = Occurrences(now, d)
    BY DEF IInv, ScoreIsTheValue
  <2> QED BY <1>1, <1>8, <2>1 DEF Value
<1> DEFINE cut(d) == Cardinality(Places(s, a + 1, z, d))
<1>10. ASSUME NEW d
       PROVE  /\ cut(d) \in Nat /\ (cut(d) = 0 <=> d \notin Mid)
              /\ Cardinality(Places(s, a, z, d)) = cut(d) + (IF leaving = d THEN 1 ELSE 0)
              /\ Cardinality(Places(s, a + 1, z + 1, d)) = cut(d) + (IF coming = d THEN 1 ELSE 0)
  <2> DEFINE b == a + 1
  <2>1. b \in Nat /\ b <= z + 1 /\ b > 0 /\ b - 1 = a
    BY <1>4
  <2> HIDE DEF b, s
  <2>0. z \in Nat
    BY <1>4
  <2> HIDE DEF a, z
  <2>2. /\ Cardinality(Places(s, b, z, d)) \in Nat
        /\ Cardinality(Places(s, b, z, d)) = 0 <=> d \notin DmersFrom(s, b, z)
        /\ Cardinality(Places(s, b, z + 1, d))
             = Cardinality(Places(s, b, z, d)) + (IF DmerAt(s, z + 1) = d THEN 1 ELSE 0)
        /\ Cardinality(Places(s, b - 1, z, d))
             = Cardinality(Places(s, b, z, d)) + (IF DmerAt(s, b - 1) = d THEN 1 ELSE 0)
    BY <2>1, <2>0, PlacesFacts
  <2>3. DmerAt(s, b - 1) = leaving /\ DmerAt(s, z + 1) = coming
    BY <1>6, <2>1 DEF s, a
  <2> HIDE DEF leaving, coming
  <2>4. Cardinality(Places(s, b - 1, z, d)) = Cardinality(Places(s, a, z, d))
    BY <2>1
  <2> QED BY <2>2, <2>3, <2>4 DEF b
<1>11. Old = Mid \cup {leaving} /\ New = Mid \cup {coming}
  <2>1. /\ \A j : j \in a .. z <=> j \in a + 1 .. z \/ j = a
        /\ \A j : j \in a + 1 .. z + 1 <=> j \in a + 1 .. z \/ j = z + 1
    <3> HIDE DEF a, z
    <3> QED BY <1>4
  <2> HIDE DEF z
  <2> QED BY <1>6, <2>1 DEF DmersFrom
<1>12. Summable(freq, Old) /\ Summable(freq, Mid)
  <2>1. Summable(freq, DmersOf(now))
    BY <1>1, WorthFacts
  <2>2. Mid \in SUBSET Old
    BY <1>11
  <2> HIDE DEF Mid, Old
  <2> QED BY <1>8, <2>1, <2>2, SummableFacts
<1>13. freq[leaving] \in Nat /\ freq[coming] \in Nat
  BY <1>1, <1>7
<1>14. DOMAIN less = DOMAIN freq /\ \A d \in DOMAIN freq : less[d] = cut(d)
  <2>1. \A d \in DOMAIN freq : active[d] = cut(d) + (IF leaving = d THEN 1 ELSE 0) /\ cut(d) \in Nat
    BY <1>9, <1>10
  <2> HIDE DEF cut, leaving
  <2> QED BY <1>1, <2>1
<1> HIDE DEF less
<1>15. DOMAIN moved = DOMAIN freq /\ \A d \in DOMAIN freq : moved[d] = Occurrences(next, d)
  <2>1. \A d \in DOMAIN freq : Occurrences(next, d) = cut(d) + (IF coming = d THEN 1 ELSE 0) /\ cut(d) \in Nat
    BY <1>8, <1>10
  <2> HIDE DEF cut, coming, next
  <2> QED BY <1>14, <2>1
<1> HIDE DEF cut
<1>16. reduced = SumFunctionOnSet(freq, Mid) % Word
  <2>1. less[leaving] = 0 <=> leaving \notin Mid
    BY <1>1, <1>7, <1>10, <1>14
  <2> HIDE DEF leaving, Mid, Old
  <2>2. CASE leaving \notin Mid
    <3>1. Mid = Old \ {leaving} /\ leaving \in Old
      BY <1>11, <2>2
    <3>2. SumFunctionOnSet(freq, Old \ {leaving}) % Word
            = Minus(SumFunctionOnSet(freq, Old) % Word, freq[leaving])
      BY <1>12, <3>1, WorthWithoutOne
    <3> QED BY <1>9, <2>1, <2>2, <3>1, <3>2
  <2>3. CASE leaving \in Mid
    <3>1. Mid = Old
      BY <1>11, <2>3
    <3> QED BY <1>9, <2>1, <2>3, <3>1
  <2> QED BY <2>2, <2>3
<1> HIDE DEF reduced
<1>17. value = SumFunctionOnSet(freq, New) % Word
  <2>1. ComesAnew(active, less, coming) <=> coming \notin Mid
    BY <1>1, <1>7, <1>10, <1>14 DEF ComesAnew
  <2> HIDE DEF coming, Mid, Old, New
  <2>2. CASE coming \notin Mid
    <3>1. SumFunctionOnSet(freq, Mid \cup {coming}) % Word
            = ((SumFunctionOnSet(freq, Mid) % Word) + freq[coming]) % Word
      BY <1>12, <1>13, <2>2, WorthWithOne
    <3> QED BY <1>11, <1>16, <2>1, <2>2, <3>1
  <2>3. CASE coming \in Mid
    <3>1. Mid = New
      BY <1>11, <2>3
    <3> QED BY <1>16, <2>1, <2>3, <3>1
  <2> QED BY <2>2, <2>3
<1>18. value = Value(next)
  BY <1>8, <1>17 DEF Value
<1> QED BY <1>1, <1>4, <1>5, <1>15, <1>18 DEF less, reduced

LEMMA SlideStep == IInv /\ Slide => IInv'
<1> SUFFICES ASSUME IInv, Slide PROVE IInv'
  OBVIOUS
<1> DEFINE s       == samples[k]
           w       == Window(s)
           leaving == DmerAt(s, start)
           coming  == DmerAt(s, start + 1 + w - DmerLen)
           less    == [active EXCEPT ![leaving] = @ - 1]
           reduced == IF less[leaving] = 0 THEN Minus(score, freq[leaving]) ELSE score
           value   == IF ComesAnew(active, less, coming) THEN (reduced + freq[coming]) % Word
                      ELSE reduced
           moved   == [less EXCEPT ![coming] = @ + 1]
           next    == WindowAt(k, start + 1)
<1>1. /\ pc = "window" /\ MoreWindows /\ start' = start + 1
      /\ active' = moved /\ score' = value
      /\ Compare(SubSeq(s, start + 1, start + w), value)
      /\ UNCHANGED <<samples, target, pc, freq, k, content, last>>
  BY DEF Slide
<1>2. /\ k <= Len(samples) /\ start + 1 \in Windows(k) /\ DmerLen <= Len(s)
      /\ next = SubSeq(s, start + 1, start + w)
      /\ value = Value(next) /\ DOMAIN moved = DOMAIN freq
      /\ \A d \in DOMAIN freq : moved[d] = Occurrences(next, d)
  BY <1>1, SlideFacts
<1> HIDE DEF value, moved
<1>3. Compare(next, Value(next)) /\ score' = Value(next)
  BY <1>1, <1>2
<1> QED BY <1>1, <1>2, <1>3, TryWindow

LEMMA SampleDoneStep == IInv /\ SampleDone => IInv'
<1> SUFFICES ASSUME IInv, SampleDone PROVE IInv'
  OBVIOUS
<1>1. /\ samples \in Corpora /\ Len(samples) \in Nat /\ DOMAIN samples = 1 .. Len(samples)
      /\ k \in 1 .. Len(samples) + 1
  BY InvFacts
<1>2. /\ pc = "window" /\ ~MoreWindows /\ pc' = "sample" /\ k' = k + 1
      /\ UNCHANGED <<samples, target, freq, start, active, score, best, bestScore, content, last>>
  BY DEF SampleDone
<1>3. k <= Len(samples) /\ k \in DOMAIN samples /\ start \in Windows(k)
  BY <1>1, <1>2 DEF IInv, WindowInSample
<1>4. /\ \A n : Windows(n)' = Windows(n)
      /\ \A n, j : WindowAt(n, j)' = WindowAt(n, j)
      /\ NothingWraps' <=> NothingWraps
      /\ \A n, j : Value(WindowAt(n, j))' = Value(WindowAt(n, j))
      /\ Value(best)' = Value(best')
  BY <1>2, SameSamples, SameWorth
<1>5. SelectionTypes'
  BY <1>1, <1>2, <1>3 DEF IInv, SelectionTypes
<1>6. WindowInSample' /\ ScoreIsTheValue' /\ BestIsTheBest' /\ PicksGetWorse'
  BY <1>2 DEF WindowInSample, ScoreIsTheValue, BestIsTheBest, PicksGetWorse
<1>7. NoneIsBetter'
  <2>1. NoneIsBetter
    BY DEF IInv
  <2>2. \A i \in Windows(k) : i <= start
    <3>1. /\ start \in 1 .. Len(samples[k]) - Window(samples[k]) + 1
          /\ Len(samples[k]) \in Nat /\ Window(samples[k]) \in 0 .. Len(samples[k])
          /\ Windows(k) = 1 .. Len(samples[k]) - Window(samples[k]) + 1
      BY <1>1, <1>3, SampleFacts
    <3>2. ~(start + Window(samples[k]) <= Len(samples[k]))
      BY <1>2 DEF MoreWindows
    <3> QED BY <3>1, <3>2
  <2>3. \A n \in DOMAIN samples : n < k + 1 => n < k \/ n = k
    BY <1>1
  <2>4. \A n \in DOMAIN samples : \A i \in Windows(n) :
          n < k + 1 => Value(WindowAt(n, i)) <= bestScore
    BY <1>2, <2>1, <2>2, <2>3 DEF NoneIsBetter
  <2>5. \A n \in DOMAIN samples' : \A i \in Windows(n)' :
          n < k' \/ (n = k' /\ pc' = "window" /\ i <= start') => Value(WindowAt(n, i))' <= bestScore'
    BY <1>2, <1>4, <2>4
  <2>6. bestScore' = Value(best)'
    BY <1>2, <1>4, <2>1 DEF NoneIsBetter
  <2>7. best' # <<>> => \E n \in DOMAIN samples' : \E j \in Windows(n)' : best' = WindowAt(n, j)'
    BY <1>2, <1>4, <2>1 DEF NoneIsBetter
  <2>8. pc' # "pick"
    BY <1>2
  <2> QED BY <2>5, <2>6, <2>7, <2>8 DEF NoneIsBetter
<1>8. WorthDecreases'
  <2>1. pc # "done" /\ WorthDecreases
    BY <1>2 DEF IInv
  <2>2. \A d : Frequency(samples, d)' = Frequency(samples, d)
    BY <1>2
  <2> QED BY <1>2, <1>4, <2>1, <2>2 DEF WorthDecreases
<1>9. NothingOfValueIsLeft'
  BY <1>2 DEF IInv, NothingOfValueIsLeft
<1> QED BY <1>5, <1>6, <1>7, <1>8, <1>9 DEF IInv

LEMMA ScanDoneStep == IInv /\ ScanDone => IInv'
<1> SUFFICES ASSUME IInv, ScanDone PROVE IInv'
  OBVIOUS
<1>1. /\ samples \in Corpora /\ Len(samples) \in Nat /\ DOMAIN samples = 1 .. Len(samples)
      /\ k \in 1 .. Len(samples) + 1 /\ last \in 0 .. Word
  BY InvFacts
<1>2. /\ pc = "sample" /\ k > Len(samples) /\ pc' = "pick"
      /\ UNCHANGED <<samples, target, freq, k, start, active, score, best, bestScore, content, last>>
  BY DEF ScanDone
<1>3. k = Len(samples) + 1 /\ \A n \in DOMAIN samples : n < k
  BY <1>1, <1>2
<1>4. /\ \A n : Windows(n)' = Windows(n)
      /\ \A n, j : WindowAt(n, j)' = WindowAt(n, j)
      /\ NothingWraps' <=> NothingWraps
      /\ \A n, j : Value(WindowAt(n, j))' = Value(WindowAt(n, j))
      /\ Value(best)' = Value(best')
  BY <1>2, SameSamples, SameWorth
<1>5. NoneIsBetter /\ WorthDecreases /\ pc # "done"
  BY <1>2 DEF IInv
<1>6. SelectionTypes'
  BY <1>2 DEF IInv, SelectionTypes
<1>7. WindowInSample' /\ ScoreIsTheValue'
  BY <1>2 DEF WindowInSample, ScoreIsTheValue
<1>8. /\ \A n \in DOMAIN samples : \A i \in Windows(n) : Value(WindowAt(n, i)) <= bestScore
      /\ bestScore = Value(best)
      /\ best # <<>> => \E n \in DOMAIN samples : \E i \in Windows(n) : best = WindowAt(n, i)
  BY <1>3, <1>5 DEF NoneIsBetter
<1>9. /\ \A n \in DOMAIN samples' : \A i \in Windows(n)' : Value(WindowAt(n, i))' <= bestScore'
      /\ bestScore' = Value(best)'
      /\ best' # <<>> => \E n \in DOMAIN samples' : \E i \in Windows(n)' : best' = WindowAt(n, i)'
  BY <1>2, <1>4, <1>8
<1>10. NoneIsBetter' /\ BestIsTheBest'
  BY <1>2, <1>3, <1>9 DEF NoneIsBetter, BestIsTheBest
<1>11. PicksGetWorse'
  <2>1. CASE best = <<>>
    <3>1. bestScore = 0
      BY <1>8, <2>1, EmptyHasNoDmers, NoDmersNoWorth DEF Value
    <3>2. 0 <= last
      BY <1>1, ConstantFacts
    <3> QED BY <1>2, <3>1, <3>2 DEF PicksGetWorse
  <2>2. CASE best # <<>>
    <3>1. NothingWraps => bestScore <= last
      BY <1>5, <1>8, <2>2 DEF WorthDecreases
    <3> QED BY <1>2, <1>4, <3>1 DEF PicksGetWorse
  <2> QED BY <2>1, <2>2
<1>12. WorthDecreases'
  <2>1. \A d : Frequency(samples, d)' = Frequency(samples, d)
    BY <1>2
  <2> QED BY <1>2, <1>4, <1>5, <2>1 DEF WorthDecreases
<1>13. NothingOfValueIsLeft'
  BY <1>2 DEF IInv, NothingOfValueIsLeft
<1> QED BY <1>6, <1>7, <1>10, <1>11, <1>12, <1>13 DEF IInv

LEMMA DoneStep == IInv /\ UNCHANGED vars => IInv'
BY DEF vars, IInv, SelectionTypes, WindowInSample, ScoreIsTheValue, NoneIsBetter, BestIsTheBest,
       WorthDecreases, PicksGetWorse, NothingOfValueIsLeft, Windows, WindowAt, Window, Value,
       NothingWraps, Counted

(* What is taken fits: the content never grows beyond its target.           *)
LEMMA TakenFits ==
  ASSUME NEW c \in Seq(Byte), NEW b \in Seq(Byte), NEW t \in Nat, Len(c) <= t
  PROVE  LET room  == t - Len(c)
             grown == (IF Len(b) > room THEN SubSeq(b, 1, room) ELSE b) \o c
         IN  grown \in Seq(Byte) /\ Len(grown) <= t
<1> DEFINE room == t - Len(c)
           part == IF Len(b) > room THEN SubSeq(b, 1, room) ELSE b
<1>1. Len(c) \in Nat /\ Len(b) \in Nat /\ room \in Nat /\ room + Len(c) = t
  BY LenProperties
<1>2. part \in Seq(Byte) /\ Len(part) \in Nat /\ Len(part) <= room
  <2>1. CASE Len(b) > room
    <3> DEFINE z == 0
    <3>1. z \in 0 .. Len(b) /\ room \in z .. Len(b) /\ room - z = room /\ SubSeq(b, z + 1, room) = SubSeq(b, 1, room)
      BY <1>1, <2>1
    <3> HIDE DEF z, room
    <3>2. SubSeq(b, z + 1, room) \in Seq(Byte) /\ Len(SubSeq(b, z + 1, room)) = room - z
      BY <3>1, SubSeqFacts
    <3> QED BY <1>1, <2>1, <3>1, <3>2
  <2>2. CASE ~(Len(b) > room)
    <3> HIDE DEF room
    <3> QED BY <1>1, <2>2
  <2> QED BY <2>1, <2>2
<1> HIDE DEF part
<1>3. part \o c \in Seq(Byte) /\ Len(part \o c) = Len(part) + Len(c)
  BY <1>2, ConcatProperties
<1>4. Len(part \o c) <= t
  <2> HIDE DEF room
  <2> QED BY <1>1, <1>2, <1>3
<1> QED BY <1>3, <1>4 DEF part, room

(* When no window is worth anything and nothing wrapped, no dmer is.        *)
LEMMA NothingLeftToTake ==
  ASSUME IInv, pc = "pick", bestScore = 0, NothingWraps, NEW d \in DOMAIN freq
  PROVE  freq[d] = 0
<1>1. /\ samples \in Corpora
      /\ freq \in [AllDmers(samples) -> 0 .. Word - 1] /\ DOMAIN freq = AllDmers(samples)
  BY InvFacts
<1>2. \A x \in AllDmers(samples) : freq[x] <= Frequency(samples, x)
  BY <1>1 DEF IInv, WorthDecreases
<1>3. PICK n \in DOMAIN samples : \E i \in Windows(n) : d \in DmersOf(WindowAt(n, i))
  BY <1>1, EveryDmerIsShown
<1>4. PICK i \in Windows(n) : d \in DmersOf(WindowAt(n, i))
  BY <1>3
<1> DEFINE D == DmersOf(WindowAt(n, i))
           sum == SumFunctionOnSet(freq, D)
<1>5. sum \in Nat /\ sum % Word = sum
  BY <1>1, <1>2, WorthUnwrapped
<1>6. Value(WindowAt(n, i)) <= bestScore
  BY DEF IInv, BestIsTheBest
<1>7. sum <= 0
  BY <1>5, <1>6 DEF Value
<1>8. Summable(freq, D)
  BY <1>1, WorthFacts
<1> HIDE DEF D
<1>9. Summable(freq, D \ {d})
  BY <1>8, SummableFacts
<1>10. sum = freq[d] + SumFunctionOnSet(freq, D \ {d})
  BY <1>4, <1>8, SumFacts DEF D
<1>11. SumFunctionOnSet(freq, D \ {d}) \in Nat /\ freq[d] \in Nat
  <2>1. freq[d] \in Nat /\ \A x \in D \ {d} : freq[x] \in Nat
    BY <1>1, WindowAtFacts DEF D
  <2> QED BY <1>9, <2>1, SumNat
<1> QED BY <1>5, <1>7, <1>10, <1>11

LEMMA PickStep == IInv /\ Pick => IInv'
<1> SUFFICES ASSUME IInv, Pick PROVE IInv'
  OBVIOUS
<1>1. /\ samples \in Corpora /\ Len(samples) \in Nat /\ DOMAIN samples = 1 .. Len(samples)
      /\ freq \in [AllDmers(samples) -> 0 .. Word - 1] /\ DOMAIN freq = AllDmers(samples)
      /\ k \in 1 .. Len(samples) + 1 /\ target \in Nat
      /\ bestScore \in 0 .. Word - 1
  BY InvFacts
<1>2. pc = "pick" /\ UNCHANGED <<samples, target, start, active, score>>
  BY DEF Pick
<1>3. /\ \A n : Windows(n)' = Windows(n)
      /\ \A n, j : WindowAt(n, j)' = WindowAt(n, j)
      /\ NothingWraps' <=> NothingWraps
  BY <1>2, SameSamples
<1>4. /\ BestIsTheBest /\ WorthDecreases /\ SelectionTypes /\ NoneIsBetter
      /\ Len(content) <= target /\ content \in Seq(Byte) /\ best \in Seq(Byte)
  BY DEF IInv, SelectionTypes, NothingOfValueIsLeft
<1>5. CASE Worthless
  <2>1. pc' = "done" /\ UNCHANGED <<freq, content, last, k, best, bestScore>>
    BY <1>5 DEF Pick
  <2>2. SelectionTypes'
    BY <1>2, <1>4, <2>1 DEF SelectionTypes
  <2>3. WindowInSample' /\ ScoreIsTheValue' /\ BestIsTheBest' /\ PicksGetWorse'
    BY <2>1 DEF WindowInSample, ScoreIsTheValue, BestIsTheBest, PicksGetWorse
  <2>4. NoneIsBetter'
    <3>1. best' # <<>> => \E n \in DOMAIN samples' : \E i \in Windows(n)' : best' = WindowAt(n, i)'
      BY <1>2, <1>3, <1>4, <2>1 DEF NoneIsBetter
    <3> QED BY <2>1, <3>1 DEF NoneIsBetter
  <2>5. WorthDecreases'
    <3>1. \A d : Frequency(samples, d)' = Frequency(samples, d)
      BY <1>2
    <3> QED BY <1>3, <1>4, <2>1, <3>1 DEF WorthDecreases
  <2>6. NothingOfValueIsLeft'
    <3>1. NothingWraps => \A d \in DOMAIN freq : freq[d] = 0
      BY <1>2, <1>5, NothingLeftToTake DEF Worthless
    <3> QED BY <1>2, <1>3, <1>4, <2>1, <3>1 DEF NothingOfValueIsLeft
  <2> QED BY <2>2, <2>3, <2>4, <2>5, <2>6 DEF IInv
<1>6. CASE ~Worthless
  <2>1. /\ freq' = Retire(best)
        /\ content' = (IF Len(best) > Room THEN SubSeq(best, 1, Room) ELSE best) \o content
        /\ last' = bestScore
        /\ pc' = IF Len(content') < target THEN "sample" ELSE "done"
        /\ k' = 1 /\ best' = <<>> /\ bestScore' = 0
    BY <1>6 DEF Pick
  <2>2. content' \in Seq(Byte) /\ Len(content') <= target
    BY <1>1, <1>4, <2>1, TakenFits DEF Room
  <2>3. /\ freq' \in [AllDmers(samples) -> 0 .. Word - 1] /\ DOMAIN freq' = AllDmers(samples)
        /\ \A d \in AllDmers(samples) : freq[d] \in Nat /\ freq'[d] \in Nat /\ freq'[d] <= freq[d]
    BY <1>1, <2>1, ConstantFacts DEF Retire
  <2>4. SelectionTypes'
    <3>1. last' \in 0 .. Word /\ bestScore' \in 0 .. Word - 1
      BY <1>1, <2>1, ConstantFacts
    <3>2. k' \in 1 .. Len(samples) + 1 /\ best' \in Seq(Byte)
      BY <1>1, <2>1
    <3> QED BY <1>2, <1>4, <2>1, <2>2, <2>3, <3>1, <3>2 DEF SelectionTypes
  <2>5. pc' # "window" /\ pc' # "pick"
    BY <2>1
  <2>6. WindowInSample' /\ ScoreIsTheValue' /\ BestIsTheBest' /\ PicksGetWorse'
    BY <2>5 DEF WindowInSample, ScoreIsTheValue, BestIsTheBest, PicksGetWorse
  <2>7. NoneIsBetter'
    <3>1. \A n \in DOMAIN samples' : ~(n < k') 
      BY <1>1, <1>2, <2>1
    <3>2. Value(best)' = 0
      BY <2>1, EmptyHasNoDmers, NoDmersNoWorth DEF Value
    <3> QED BY <2>1, <2>5, <3>1, <3>2 DEF NoneIsBetter
  <2>8. WorthDecreases'
    <3> SUFFICES ASSUME NothingWraps
                 PROVE  /\ \A d \in DOMAIN freq' : freq'[d] <= Frequency(samples, d)
                        /\ \A n \in DOMAIN samples : \A i \in Windows(n) :
                             Value(WindowAt(n, i))' <= bestScore
      <4>1. \A d : Frequency(samples, d)' = Frequency(samples, d)
        BY <1>2
      <4> QED BY <1>2, <1>3, <2>1, <4>1 DEF WorthDecreases
    <3>1. \A d \in AllDmers(samples) :
            freq[d] <= Frequency(samples, d) /\ Frequency(samples, d) \in Nat
      BY <1>1, <1>4, FrequencyIsNat DEF WorthDecreases
    <3>2. \A d \in AllDmers(samples) : freq'[d] <= Frequency(samples, d)
      BY <2>3, <3>1
    <3>3. ASSUME NEW n \in DOMAIN samples, NEW i \in Windows(n)
          PROVE  Value(WindowAt(n, i))' <= bestScore
      <4> DEFINE D == DmersOf(WindowAt(n, i))
                 before == SumFunctionOnSet(freq, D)
                 after  == SumFunctionOnSet(freq', D)
      <4>1. before \in Nat /\ before % Word = before
        BY <1>1, <3>1, WorthUnwrapped
      <4>2. after \in Nat /\ after % Word = after
        BY <1>1, <2>3, <3>2, WorthUnwrapped
      <4>3. Value(WindowAt(n, i)) <= bestScore
        BY <1>2, <1>4 DEF BestIsTheBest
      <4>4. before <= bestScore
        BY <4>1, <4>3 DEF Value
      <4>5. Value(WindowAt(n, i))' = after
        BY <1>3, <4>2 DEF Value
      <4>6. Summable(freq, D) /\ Summable(freq', D) /\ D \subseteq AllDmers(samples)
        BY <1>1, <2>3, WorthFacts, WindowAtFacts
      <4>7. \A x \in D : freq'[x] <= freq[x]
        BY <2>3, <4>6
      <4> HIDE DEF D
      <4>8. after <= before
        BY <4>6, <4>7, SumMonotonic
      <4> HIDE DEF before, after
      <4> QED BY <1>1, <4>1, <4>2, <4>4, <4>5, <4>8, ConstantFacts
    <3> QED BY <2>3, <3>2, <3>3
  <2>9. NothingOfValueIsLeft'
    <3>1. ~(pc' = "done" /\ Len(content') < target')
      BY <1>2, <2>1
    <3> QED BY <1>2, <2>2, <3>1 DEF NothingOfValueIsLeft
  <2> QED BY <2>4, <2>6, <2>7, <2>8, <2>9 DEF IInv
<1> QED BY <1>5, <1>6

(* The score and the multiset that are carried from window to window, the   *)
(* best of the windows tried, the falling worth and the content are right   *)
(* in every state of the selection.                                         *)
THEOREM InductiveInvariant == Spec => []IInv
<1>1. IInv /\ [Next]_vars => IInv'
  BY FirstWindowStep, SlideStep, SampleDoneStep, ScanDoneStep, PickStep, DoneStep DEF Next, Done
<1> QED BY InitIInv, <1>1, PTL DEF Spec

(* The score kept up to date byte by byte is the window's value by its      *)
(* definition (zdict.go:102-104), wrapped or not, and the multiset is the   *)
(* window's: for all samples and every length of dmers and segments.        *)
THEOREM ScoreIsRight == Spec => []ScoreIsTheValue
BY InductiveInvariant, PTL DEF IInv

(* bestSegment returns a window of some sample that no other one beats, or  *)
(* nothing where no window is worth anything (zdict.go:102-104).            *)
THEOREM BestIsRight == Spec => []BestIsTheBest
BY InductiveInvariant, PTL DEF IInv

(* The segments are picked in falling order of worth (zdict.go:67-69), as   *)
(* long as no score wraps.                                                  *)
THEOREM PicksFall == Spec => []PicksGetWorse
BY InductiveInvariant, PTL DEF IInv

(* The content never exceeds its target, and when it stays short of it no   *)
(* dmer of the samples is still worth anything, as long as no score wraps.  *)
THEOREM NothingLeft == Spec => []NothingOfValueIsLeft
BY InductiveInvariant, PTL DEF IInv
=============================================================================

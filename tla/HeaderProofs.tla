---------------------------- MODULE HeaderProofs ----------------------------
(***************************************************************************)
(* Theorems of the compressed integers and of the header: what a reader     *)
(* takes from bytes is what they say, and what is written is read back.     *)
(***************************************************************************)
EXTENDS Header, IntegerInput, SequenceLemmas

----------------------------------------------------------------------------
(* Compressed integers *)

(* The powers, by recursion.                                                *)
LEMMA PowersFacts ==
  ASSUME NEW b \in Nat \ {0}
  PROVE  /\ Powers(b) \in [Nat -> Nat \ {0}]
         /\ Powers(b)[0] = 1
         /\ \A n \in Nat : Powers(b)[n + 1] = b * Powers(b)[n]
<1> DEFINE S == Nat \ {0}
           Base == {0}
           prev == [n \in Nat |-> n - 1]
           base == [n \in Nat |-> 1]
           step == [n \in Nat |-> [x \in S |-> b * x]]
           Rec(f) == [n \in Nat |-> IF n = 0 THEN 1 ELSE b * f[n - 1]]
           p == CHOOSE f : f = Rec(f)
<1>1. \A x \in S : b * x \in S
  BY Products
<1>2. Descends(Nat, Base, prev)
  BY DEF Descends
<1>3. MapsInto(S, Nat, Base, base, step)
  BY <1>1 DEF MapsInto
<1> HIDE DEF prev, base, step, S, Base
<1>4. PICK f \in [Nat -> S] : Solves(f, Nat, Base, base, prev, step)
  BY <1>2, <1>3, RecursionExists
<1>5. f = Rec(f)
  <2>1. ASSUME NEW n \in Nat PROVE f[n] = IF n = 0 THEN 1 ELSE b * f[n - 1]
    <3>1. CASE n = 0
      BY <1>4, <3>1 DEF Base, base, Solves
    <3>2. CASE n # 0
      <4>1. n - 1 \in Nat /\ f[n - 1] \in S
        BY <1>4, <3>2
      <4>2. f[n] = step[n][f[n - 1]]
        BY <1>4, <3>2 DEF Base, prev, Solves
      <4> QED BY <3>2, <4>1, <4>2 DEF step
    <3> QED BY <3>1, <3>2
  <2>2. f = [n \in Nat |-> f[n]]
    BY <1>4
  <2> QED BY <2>1, <2>2
<1>6. p = Rec(p)
  <2> HIDE DEF Rec
  <2> QED BY <1>5
<1>7. Powers(b) = p
  BY DEF Powers
<1> HIDE DEF p
<1>8. \A n \in Nat : p[n] = IF n = 0 THEN 1 ELSE b * p[n - 1]
  BY <1>6
<1>9. \A n \in Nat : p[n] = f[n]
  <2> DEFINE Bad == {n \in Nat : p[n] # f[n]}
  <2>1. SUFFICES ASSUME Bad # {} PROVE FALSE
    OBVIOUS
  <2>2. PICK n \in Bad : \A k \in Bad : n <= k
    <3>1. Bad \subseteq Nat
      OBVIOUS
    <3> QED BY <2>1, <3>1, NatMin
  <2>3. n # 0
    BY <1>5, <1>8, <2>2
  <2>4. n - 1 \in Nat /\ ~(n <= n - 1)
    BY <2>2, <2>3
  <2>5. p[n - 1] = f[n - 1]
    BY <2>2, <2>4
  <2>6. n \in Nat /\ p[n] # f[n]
    BY <2>2
  <2> QED BY <1>5, <1>8, <2>3, <2>5, <2>6
<1>10. p \in [Nat -> S]
  <2>1. DOMAIN p = Nat /\ p = [n \in Nat |-> p[n]]
    BY <1>6
  <2> QED BY <1>4, <1>9, <2>1
<1>11. \A n \in Nat : n + 1 \in Nat /\ n + 1 # 0 /\ (n + 1) - 1 = n
  OBVIOUS
<1> QED BY <1>7, <1>8, <1>10, <1>11 DEF S

(* A higher power is no smaller.                                            *)
LEMMA PowersGrow ==
  ASSUME NEW b \in Nat \ {0}, NEW m \in Nat, NEW n \in Nat, m <= n
  PROVE  Powers(b)[m] <= Powers(b)[n]
<1> DEFINE P == Powers(b)
           Bad == {k \in Nat : m <= k /\ ~(P[m] <= P[k])}
<1>1. SUFFICES ASSUME Bad # {} PROVE FALSE
  OBVIOUS
<1>2. PICK k \in Bad : \A j \in Bad : k <= j
  <2>1. Bad \subseteq Nat
    OBVIOUS
  <2> QED BY <1>1, <2>1, NatMin
<1>3. \A j \in Nat : P[j] \in Nat \ {0}
  BY PowersFacts
<1>4. k \in Nat /\ m <= k /\ ~(P[m] <= P[k])
  BY <1>2
<1>5. k # m
  BY <1>3, <1>4
<1>6. k - 1 \in Nat /\ m <= k - 1 /\ ~(k <= k - 1) /\ (k - 1) + 1 = k
  BY <1>4, <1>5
<1>7. P[m] <= P[k - 1]
  BY <1>2, <1>6
<1>8. P[k] = b * P[k - 1]
  BY <1>6, PowersFacts
<1> DEFINE x == P[k - 1]
<1>9. x \in Nat
  BY <1>3, <1>6
<1> HIDE DEF x
<1>10. 1 * x <= b * x
  <2>1. 1 \in Nat /\ b \in Nat /\ 1 <= b
    OBVIOUS
  <2>2. x * 1 <= x * b
    BY <1>9, <2>1, Products
  <2> QED BY <1>9, <2>1, <2>2, Products
<1>11. x <= b * x /\ b * x \in Nat
  BY <1>9, <1>10, Products
<1> QED BY <1>3, <1>4, <1>7, <1>8, <1>11 DEF x

(* A group has at least one bit; its powers.                                *)
LEMMA RadixFacts ==
  /\ Radix \in Nat /\ Radix >= 2
  /\ \A n \in Nat : Powers(Radix)[n] \in Nat \ {0}
  /\ Powers(Radix)[0] = 1
  /\ \A n \in Nat : Powers(Radix)[n + 1] = Radix * Powers(Radix)[n]
  /\ \A m, n \in Nat : m <= n => Powers(Radix)[m] <= Powers(Radix)[n]
  /\ Values \in Nat /\ Values = 2 * Powers(Radix)[MaxCompressedIntLen - 1] /\ Values > 0
  /\ MaxCompressedIntLen - 1 \in Nat
<1>1. 2 \in Nat \ {0} /\ GroupBits \in Nat /\ 1 \in Nat /\ 1 <= GroupBits
      /\ MaxCompressedIntLen - 1 \in Nat
  BY CompressedIntAssumption
<1>2. Powers(2)[1] = 2
  <2>1. Powers(2)[0 + 1] = 2 * Powers(2)[0] /\ Powers(2)[0] = 1
    BY <1>1, PowersFacts
  <2> QED BY <2>1
<1>3. Radix \in Nat /\ Radix >= 2
  <2>1. Powers(2)[GroupBits] \in Nat
    BY <1>1, PowersFacts
  <2>2. Powers(2)[1] <= Powers(2)[GroupBits]
    BY <1>1, PowersGrow
  <2> QED BY <1>2, <2>1, <2>2 DEF Radix
<1>4. Radix \in Nat \ {0}
  BY <1>3
<1>5. Powers(Radix)[MaxCompressedIntLen - 1] \in Nat \ {0}
  BY <1>1, <1>4, PowersFacts
<1>6. Values \in Nat /\ Values = 2 * Powers(Radix)[MaxCompressedIntLen - 1] /\ Values > 0
  BY <1>5 DEF Values
<1> QED BY <1>1, <1>3, <1>4, <1>6, PowersFacts, PowersGrow


(* What an octet denotes and whether it is the last one.                    *)
LEMMA OctetFacts ==
  ASSUME NEW b \in Octet
  PROVE  /\ b \in Nat /\ Payload(b) \in 0 .. Radix - 1
         /\ Final(b) => b = Payload(b) + Radix
         /\ ~Final(b) => b = Payload(b)
<1>1. Radix \in Nat /\ Radix >= 2
  BY RadixFacts
<1>2. b \in Nat /\ b < 2 * Radix
  BY <1>1 DEF Octet
<1>3. CASE b >= Radix
  <2>1. b - Radix \in 0 .. Radix - 1 /\ b = Radix * 1 + (b - Radix) /\ 1 \in Int /\ Radix > 0
    BY <1>1, <1>2, <1>3
  <2>2. (Radix * 1 + (b - Radix)) % Radix = b - Radix
    BY <1>1, <2>1, ModUnique
  <2>3. b % Radix = b - Radix
    BY <2>1, <2>2
  <2> QED BY <1>1, <1>2, <1>3, <2>1, <2>3 DEF Payload, Final
<1>4. CASE ~(b >= Radix)
  <2>1. b \in 0 .. Radix - 1 /\ b = Radix * 0 + b /\ 0 \in Int /\ Radix > 0
    BY <1>1, <1>2, <1>4
  <2>2. (Radix * 0 + b) % Radix = b
    BY <1>1, <2>1, ModUnique
  <2>3. b % Radix = b
    BY <2>1, <2>2
  <2> QED BY <1>1, <1>2, <1>4, <2>1, <2>3 DEF Payload, Final
<1> QED BY <1>3, <1>4

(* What a group adds to a value.                                            *)
LEMMA GroupIsNat ==
  ASSUME NEW s \in Seq(Octet), NEW k \in 1 .. Len(s)
  PROVE  /\ k \in Nat /\ k - 1 \in Nat /\ s[k] \in Octet
         /\ Payload(s[k]) * Powers(Radix)[k - 1] \in Nat
<1>1. k \in Nat /\ k - 1 \in Nat /\ s[k] \in Octet
  <2>1. Len(s) \in Nat
    BY LenProperties
  <2>2. s[k] \in Octet
    BY ElementOfSeq
  <2> QED BY <2>1, <2>2
<1>2. Payload(s[k]) \in Nat
  <2>1. Radix \in Nat /\ Payload(s[k]) \in 0 .. Radix - 1
    BY <1>1, OctetFacts, RadixFacts
  <2> QED BY <2>1
<1>3. Powers(Radix)[k - 1] \in Nat
  BY <1>1, RadixFacts
<1> QED BY <1>1, <1>2, <1>3, Products

(* What the first groups denote, by recursion.                              *)
LEMMA DenotedFacts ==
  ASSUME NEW s \in Seq(Octet)
  PROVE  /\ Denoted(s) \in [0 .. Len(s) -> Nat] /\ Denoted(s)[0] = 0
         /\ \A k \in 1 .. Len(s) :
              Denoted(s)[k] = Denoted(s)[k - 1] + Payload(s[k]) * Powers(Radix)[k - 1]
<1> DEFINE w(k) == Payload(s[k]) * Powers(Radix)[k - 1]
           Rec(f) == [k \in 0 .. Len(s) |-> IF k = 0 THEN 0 ELSE f[k - 1] + w(k)]
           step == [k \in 1 .. Len(s) |-> [x \in Nat |-> x + w(k)]]
           p == CHOOSE f : f = Rec(f)
<1>1. Len(s) \in Nat
  BY LenProperties
<1>2. \A k \in 1 .. Len(s) : w(k) \in Nat
  BY GroupIsNat
<1> HIDE DEF w
<1>3. \A k \in 1 .. Len(s) : \A x \in Nat : step[k][x] = x + w(k) /\ step[k][x] \in Nat
  BY <1>2
<1> HIDE DEF step
<1>4. PICK f \in [0 .. Len(s) -> Nat] : Loops(f, Len(s), 0, step)
  <2>1. 0 \in Nat /\ StepsIn(Nat, Len(s), step)
    BY <1>3 DEF StepsIn
  <2> QED BY <1>1, <2>1, LoopExists
<1>5. f = Rec(f)
  <2>1. \A k \in 0 .. Len(s) : k # 0 => k \in 1 .. Len(s) /\ k - 1 \in 0 .. Len(s)
    BY <1>1
  <2>2. \A k \in 0 .. Len(s) : f[k] = IF k = 0 THEN 0 ELSE f[k - 1] + w(k)
    BY <1>3, <1>4, <2>1 DEF Loops
  <2>3. f = [k \in 0 .. Len(s) |-> f[k]]
    BY <1>4
  <2> QED BY <2>2, <2>3
<1>6. p = Rec(p)
  <2> HIDE DEF Rec
  <2> QED BY <1>5
<1>7. Denoted(s) = p
  BY DEF Denoted, w
<1> HIDE DEF p
<1>8. \A k \in 0 .. Len(s) : p[k] = IF k = 0 THEN 0 ELSE p[k - 1] + w(k)
  BY <1>6
<1>9. \A k \in 0 .. Len(s) : p[k] \in Nat
  <2> DEFINE Bad == {k \in 0 .. Len(s) : p[k] \notin Nat}
  <2>1. SUFFICES ASSUME Bad # {} PROVE FALSE
    OBVIOUS
  <2>2. PICK k \in Bad : \A j \in Bad : k <= j
    <3>1. Bad \subseteq Nat
      BY <1>1
    <3> QED BY <2>1, <3>1, NatMin
  <2>3. k \in 0 .. Len(s) /\ p[k] \notin Nat
    BY <2>2
  <2>4. k # 0
    BY <1>8, <2>3
  <2>5. k \in 1 .. Len(s) /\ k - 1 \in 0 .. Len(s) /\ ~(k <= k - 1)
    BY <1>1, <2>3, <2>4
  <2>6. p[k - 1] \in Nat
    BY <2>2, <2>5
  <2>7. p[k] = p[k - 1] + w(k) /\ w(k) \in Nat
    BY <1>2, <1>8, <2>3, <2>4, <2>5
  <2> QED BY <2>3, <2>6, <2>7
<1>10. p \in [0 .. Len(s) -> Nat]
  <2>1. p = [k \in 0 .. Len(s) |-> p[k]]
    BY <1>6
  <2> QED BY <1>9, <2>1
<1>11. 0 \in 0 .. Len(s) /\ \A k \in 1 .. Len(s) : k \in 0 .. Len(s) /\ k # 0
  BY <1>1
<1> QED BY <1>7, <1>8, <1>10, <1>11 DEF w

(* Below M groups the value does not wrap; it never differs by more than    *)
(* multiples of what a uint64 holds.                                        *)
LEMMA AccumulatedFacts ==
  ASSUME NEW s \in Seq(Octet)
  PROVE  \A k \in 0 .. Len(s) : Accumulated(s)[k] = Denoted(s)[k] % Values
<1> DEFINE w(k) == Payload(s[k]) * Powers(Radix)[k - 1]
           D == Denoted(s)
           Rec(f) == [k \in 0 .. Len(s) |-> IF k = 0 THEN 0 ELSE (f[k - 1] + w(k)) % Values]
           f == [k \in 0 .. Len(s) |-> D[k] % Values]
           p == CHOOSE g : g = Rec(g)
<1>1. Len(s) \in Nat /\ Values \in Int /\ Values > 0
  <2>1. Len(s) \in Nat
    BY LenProperties
  <2>2. Values \in Nat /\ Values > 0
    BY RadixFacts
  <2> QED BY <2>1, <2>2
<1>2. \A k \in 1 .. Len(s) : w(k) \in Nat
  BY GroupIsNat
<1>3. /\ D \in [0 .. Len(s) -> Nat] /\ D[0] = 0
      /\ \A k \in 1 .. Len(s) : D[k] = D[k - 1] + w(k)
  BY DenotedFacts
<1> HIDE DEF w, D
<1>4. \A k \in 0 .. Len(s) : k # 0 => k \in 1 .. Len(s) /\ k - 1 \in 0 .. Len(s) /\ k \in Nat
  BY <1>1
<1>5. 0 % Values = 0
  <2>1. 0 \in Int /\ 0 \in 0 .. Values - 1 /\ Values * 0 + 0 = 0
    BY <1>1
  <2>2. (Values * 0 + 0) % Values = 0
    BY <1>1, <2>1, ModUnique
  <2> QED BY <2>1, <2>2
<1>6. \A k \in 0 .. Len(s) : k # 0 => ((D[k - 1] % Values) + w(k)) % Values = D[k] % Values
  <2> SUFFICES ASSUME NEW k \in 0 .. Len(s), k # 0
               PROVE  ((D[k - 1] % Values) + w(k)) % Values = D[k] % Values
    OBVIOUS
  <2>1. D[k - 1] \in Int /\ w(k) \in Int /\ D[k] = D[k - 1] + w(k)
    BY <1>2, <1>3, <1>4
  <2> QED BY <1>1, <2>1, ModAdd
<1>7. f = Rec(f)
  <2>1. \A k \in 0 .. Len(s) : f[k] = IF k = 0 THEN 0 ELSE (f[k - 1] + w(k)) % Values
    BY <1>3, <1>4, <1>5, <1>6
  <2> QED BY <2>1
<1>8. p = Rec(p)
  <2> HIDE DEF Rec, f
  <2> QED BY <1>7
<1>9. Accumulated(s) = p
  BY DEF Accumulated, w
<1> HIDE DEF p
<1>10. \A k \in 0 .. Len(s) : p[k] = IF k = 0 THEN 0 ELSE (p[k - 1] + w(k)) % Values
  BY <1>8
<1> DEFINE Bad == {k \in 0 .. Len(s) : p[k] # D[k] % Values}
<1>11. Bad = {}
  <2>1. SUFFICES ASSUME Bad # {} PROVE FALSE
    OBVIOUS
  <2>2. PICK k \in Bad : \A j \in Bad : k <= j
    <3>1. Bad \subseteq Nat
      BY <1>1
    <3> QED BY <2>1, <3>1, NatMin
  <2>3. k \in 0 .. Len(s) /\ p[k] # D[k] % Values
    BY <2>2
  <2>4. k # 0
    BY <1>3, <1>5, <1>10, <2>3
  <2>5. k - 1 \in 0 .. Len(s) /\ ~(k <= k - 1)
    BY <1>4, <2>3, <2>4
  <2>6. p[k - 1] = D[k - 1] % Values
    BY <2>2, <2>5
  <2>7. p[k] = (p[k - 1] + w(k)) % Values
    BY <1>10, <2>3, <2>4
  <2> QED BY <1>6, <2>3, <2>4, <2>6, <2>7
<1> QED BY <1>9, <1>11 DEF D

(* How reading goes on after i groups.                                      *)
LEMMA ReadingUnfold ==
  ASSUME NEW s \in Seq(Octet), NEW i \in 0 .. MaxCompressedIntLen
  PROVE  Reading(s)[i] =
           IF i = MaxCompressedIntLen THEN Failed("overflow")
           ELSE IF i = Len(s) THEN Failed("truncated")
           ELSE IF i = MaxCompressedIntLen - 1 /\ Payload(s[i + 1]) > 1 THEN Failed("overflow")
           ELSE IF Final(s[i + 1])
                THEN [err |-> "nil", value |-> Accumulated(s)[i + 1], length |-> i + 1]
           ELSE Reading(s)[i + 1]
<1> DEFINE M == MaxCompressedIntLen
           good(k) == [err |-> "nil", value |-> Accumulated(s)[k + 1], length |-> k + 1]
           Rec(f) == [k \in 0 .. M |->
                        IF k = M THEN Failed("overflow")
                        ELSE IF k = Len(s) THEN Failed("truncated")
                        ELSE IF k = M - 1 /\ Payload(s[k + 1]) > 1 THEN Failed("overflow")
                        ELSE IF Final(s[k + 1]) THEN good(k)
                        ELSE f[k + 1]]
           stops(k) == \/ k = M \/ k = Len(s)
                       \/ k = M - 1 /\ Payload(s[k + 1]) > 1
                       \/ Final(s[k + 1])
           stop(k) == IF k = M THEN Failed("overflow")
                      ELSE IF k = Len(s) THEN Failed("truncated")
                      ELSE IF k = M - 1 /\ Payload(s[k + 1]) > 1 THEN Failed("overflow")
                      ELSE good(k)
           D == 0 .. M
           S == {stop(k) : k \in D}
           Base == {j \in D : stops(M - j)}
           base == [j \in D |-> stop(M - j)]
           prev == [j \in D |-> j - 1]
           step == [j \in D |-> [x \in S |-> x]]
           p == CHOOSE f : f = Rec(f)
<1>1. M \in Nat
  BY CompressedIntAssumption
<1>2. \A j \in D : M - j \in D /\ M - (M - j) = j
  BY <1>1
<1>3. \A j \in D : j \notin Base => j # 0 /\ j - 1 \in D /\ j - 1 < j /\ M - (j - 1) = (M - j) + 1
  <2> SUFFICES ASSUME NEW j \in D, j \notin Base
               PROVE  j # 0 /\ j - 1 \in D /\ j - 1 < j /\ M - (j - 1) = (M - j) + 1
    OBVIOUS
  <2>1. M - j # M
    OBVIOUS
  <2> QED BY <1>1, <2>1
<1>4. D \subseteq Nat
  BY <1>1
<1>5. \A k \in D : stop(k) \in S
  OBVIOUS
<1>6. Descends(D, Base, prev)
  BY <1>3, <1>4 DEF Descends
<1>7. MapsInto(S, D, Base, base, step)
  <2>1. \A j \in D : base[j] \in S
    BY <1>2, <1>5
  <2>2. \A j \in D : \A x \in S : step[j][x] = x
    OBVIOUS
  <2> HIDE DEF D, S, Base, base, step
  <2> QED BY <2>1, <2>2 DEF MapsInto
<1>8. PICK g \in [D -> S] : Solves(g, D, Base, base, prev, step)
  <2> HIDE DEF D, S, Base, base, prev, step
  <2> QED BY <1>6, <1>7, RecursionExists
<1> DEFINE f == [k \in D |-> g[M - k]]
<1>9. f = Rec(f)
  <2>1. ASSUME NEW k \in D PROVE f[k] = IF stops(k) THEN stop(k) ELSE f[k + 1]
    <3> DEFINE j == M - k
    <3>1. j \in D /\ M - j = k
      BY <1>2
    <3>2. j \in Base <=> stops(k)
      BY <3>1
    <3>3. base[j] = stop(k)
      BY <3>1
    <3>4. g[j] = IF j \in Base THEN base[j] ELSE step[j][g[prev[j]]]
      <4> HIDE DEF D, S, Base, base, prev, step, j
      <4> QED BY <1>8, <3>1 DEF Solves
    <3>5. ASSUME j \notin Base PROVE step[j][g[prev[j]]] = f[k + 1]
      <4>1. j - 1 \in D /\ prev[j] = j - 1 /\ M - (j - 1) = k + 1
        BY <1>3, <3>1, <3>5
      <4>2. k + 1 \in D /\ M - (k + 1) = j - 1
        BY <1>1, <1>2, <3>1, <4>1
      <4>3. g[j - 1] \in S /\ f[k + 1] = g[j - 1]
        BY <1>8, <4>1, <4>2
      <4> HIDE DEF S
      <4> QED BY <3>1, <4>1, <4>3
    <3>6. f[k] = g[j]
      OBVIOUS
    <3> HIDE DEF stops, stop, f, j, Base, base, step, prev
    <3> QED BY <3>2, <3>3, <3>4, <3>5, <3>6
  <2>2. ASSUME NEW k \in D
        PROVE  (IF stops(k) THEN stop(k) ELSE f[k + 1]) = Rec(f)[k]
    <3> HIDE DEF f, good
    <3> QED OBVIOUS
  <2>3. f = [k \in D |-> f[k]] /\ Rec(f) = [k \in D |-> Rec(f)[k]]
    OBVIOUS
  <2> HIDE DEF f, Rec, D, stops, stop
  <2> QED BY <2>1, <2>2, <2>3
<1>10. p = Rec(p)
  <2> HIDE DEF Rec, f
  <2> QED BY <1>9
<1>11. Reading(s) = p
  BY DEF Reading
<1> HIDE DEF p
<1> QED BY <1>10, <1>11

(* n groups denote less than the n-th power of the radix.                   *)
LEMMA DenotedBound ==
  ASSUME NEW s \in Seq(Octet), NEW n \in 0 .. Len(s)
  PROVE  Denoted(s)[n] < Powers(Radix)[n]
<1> DEFINE D == Denoted(s)
           P == Powers(Radix)
           Bad == {k \in 0 .. Len(s) : ~(D[k] < P[k])}
<1>1. SUFFICES ASSUME Bad # {} PROVE FALSE
  OBVIOUS
<1>2. Len(s) \in Nat
  BY LenProperties
<1>3. PICK k \in Bad : \A j \in Bad : k <= j
  <2>1. Bad \subseteq Nat
    BY <1>2
  <2> QED BY <1>1, <2>1, NatMin
<1>4. k \in 0 .. Len(s) /\ ~(D[k] < P[k])
  BY <1>3
<1>5. k # 0
  <2>1. D[0] = 0 /\ P[0] = 1
    BY DenotedFacts, RadixFacts
  <2> QED BY <1>4, <2>1
<1>6. /\ k \in 1 .. Len(s) /\ k - 1 \in 0 .. Len(s) /\ k - 1 \in Nat /\ (k - 1) + 1 = k
      /\ ~(k <= k - 1)
  BY <1>2, <1>4, <1>5
<1>7. D[k - 1] < P[k - 1]
  BY <1>3, <1>6
<1>8. D[k] = D[k - 1] + Payload(s[k]) * P[k - 1] /\ D[k - 1] \in Nat
  BY <1>6, DenotedFacts
<1>9. P[k] = Radix * P[k - 1] /\ P[k - 1] \in Nat
  BY <1>6, RadixFacts
<1>10. Payload(s[k]) \in Nat /\ Payload(s[k]) + 1 <= Radix /\ Radix \in Nat
  <2>1. Payload(s[k]) \in 0 .. Radix - 1 /\ Radix \in Nat
    BY <1>6, GroupIsNat, OctetFacts, RadixFacts
  <2> QED BY <2>1
<1> DEFINE x == P[k - 1]
           q == Payload(s[k])
<1>11. x \in Nat /\ q \in Nat /\ q + 1 \in Nat
  BY <1>9, <1>10
<1> HIDE DEF x, q
<1>12. x * (q + 1) <= x * Radix
  BY <1>10, <1>11, Products DEF q
<1>13. x * (q + 1) = x * q + x /\ x * q \in Nat /\ x * q = q * x /\ x * Radix = Radix * x
  <2>1. 1 \in Nat /\ x * 1 = x
    BY <1>11
  <2> QED BY <1>10, <1>11, <2>1, Products
<1>14. D[k - 1] + q * x < Radix * x
  <2> DEFINE a == q * x
             b == Radix * x
             d == D[k - 1]
             c == x * (q + 1)
  <2>1. a \in Nat /\ b \in Nat /\ d \in Nat /\ x \in Nat /\ c = a + x /\ c <= b
    <3>1. b \in Nat
      BY <1>10, <1>11, Products
    <3> QED BY <1>8, <1>11, <1>12, <1>13, <3>1
  <2>2. d < x
    BY <1>7 DEF x
  <2> HIDE DEF a, b, c, d
  <2>3. d + a < b
    BY <2>1, <2>2
  <2> QED BY <2>3 DEF a, b, d
<1> QED BY <1>4, <1>8, <1>9, <1>14 DEF x, q

(* The first final group of s is the n-th.                                  *)
Ends(s, n) == n \in 1 .. Len(s) /\ Final(s[n]) /\ \A k \in 1 .. n - 1 : ~Final(s[k])

(* The values that n groups denote, which the last permissible group makes  *)
(* fit or not.                                                              *)
LEMMA WidthOfGroups ==
  ASSUME NEW s \in Seq(Octet), NEW n \in 1 .. Len(s), n <= MaxCompressedIntLen
  PROVE  /\ Denoted(s)[n] \in Nat
         /\ Denoted(s)[n] < Values <=> (n = MaxCompressedIntLen => Payload(s[n]) <= 1)
<1> DEFINE D == Denoted(s)
           P == Powers(Radix)
           M == MaxCompressedIntLen
           q == Payload(s[n])
           x == P[n - 1]
<1>1. Len(s) \in Nat /\ M \in Nat /\ M - 1 \in Nat /\ n \in Nat
      /\ n \in 0 .. Len(s) /\ n - 1 \in 0 .. Len(s)
  <2>1. Len(s) \in Nat /\ M \in Nat /\ M - 1 \in Nat
    BY LenProperties, CompressedIntAssumption, RadixFacts
  <2> QED BY <2>1
<1>2. D[n] \in Nat /\ D[n - 1] \in Nat /\ D[n] = D[n - 1] + q * x
  BY <1>1, DenotedFacts
<1>3. Values = 2 * P[M - 1] /\ P[M - 1] \in Nat \ {0}
  BY RadixFacts
<1>4. CASE n # M
  <2>1. n <= M - 1
    BY <1>1, <1>4
  <2>2. D[n] < P[n] /\ P[n] <= P[M - 1] /\ P[n] \in Nat
    BY <1>1, <2>1, DenotedBound, RadixFacts
  <2>3. D[n] < Values
    BY <1>2, <1>3, <2>2
  <2> QED BY <1>2, <1>4, <2>3
<1>5. CASE n = M
  <2>1. q \in Nat
    <3>1. q \in 0 .. Radix - 1 /\ Radix \in Nat
      BY GroupIsNat, OctetFacts, RadixFacts
    <3> QED BY <3>1
  <2>2. D[n - 1] < x /\ x \in Nat \ {0} /\ Values = 2 * x
    BY <1>1, <1>3, <1>5, DenotedBound
  <2> HIDE DEF q, x
  <2>3. CASE q <= 1
    <3>1. x * q <= x * 1 /\ x * 1 = x /\ x * q = q * x /\ q * x \in Nat
      <4>1. 1 \in Nat /\ x \in Nat
        BY <2>2
      <4> QED BY <2>1, <2>3, <4>1, Products
    <3>2. D[n] < Values
      BY <1>2, <2>2, <3>1
    <3> QED BY <1>2, <2>3, <3>2 DEF q
  <2>4. CASE ~(q <= 1)
    <3>1. x * 2 <= x * q /\ x * 2 = 2 * x /\ x * q = q * x /\ q * x \in Nat
      <4>1. 2 \in Nat /\ x \in Nat /\ 2 <= q
        BY <2>1, <2>2, <2>4
      <4> QED BY <2>1, <4>1, Products
    <3>2. ~(D[n] < Values)
      BY <1>2, <2>2, <3>1
    <3> QED BY <1>2, <1>5, <2>4, <3>2 DEF q
  <2> QED BY <2>3, <2>4
<1> QED BY <1>4, <1>5

(* Reading goes on as far as the first final group, or the last group that  *)
(* an integer may have.                                                     *)
LEMMA ReadingGoesOn ==
  ASSUME NEW s \in Seq(Octet), NEW n \in 0 .. MaxCompressedIntLen, n <= Len(s),
         \A k \in 1 .. n : ~Final(s[k]) /\ (k = MaxCompressedIntLen => Payload(s[k]) <= 1)
  PROVE  Reading(s)[0] = Reading(s)[n]
<1> DEFINE M == MaxCompressedIntLen
           R == Reading(s)
           Bad == {i \in 0 .. n : R[i] # R[0]}
<1>1. SUFFICES ASSUME Bad # {} PROVE FALSE
  <2>1. n \in 0 .. n
    BY CompressedIntAssumption
  <2> QED BY <2>1
<1>2. M \in Nat /\ n \in Nat /\ Len(s) \in Nat
  BY CompressedIntAssumption, LenProperties
<1>3. PICK i \in Bad : \A j \in Bad : i <= j
  <2>1. Bad \subseteq Nat
    BY <1>2
  <2> QED BY <1>1, <2>1, NatMin
<1>4. i \in 0 .. n /\ R[i] # R[0]
  BY <1>3
<1>5. i # 0
  BY <1>4
<1> DEFINE k == i - 1
<1>6. k \in 0 .. n /\ ~(i <= k) /\ k + 1 = i /\ k \in 0 .. M /\ i \in 1 .. n /\ k # M /\ k # Len(s)
  BY <1>2, <1>4, <1>5
<1>7. R[k] = R[0]
  BY <1>3, <1>6
<1>8. ~Final(s[k + 1]) /\ ~(k = M - 1 /\ Payload(s[k + 1]) > 1)
  <2>1. ~Final(s[i]) /\ (i = M => Payload(s[i]) <= 1)
    BY <1>6
  <2>2. i \in 1 .. Len(s)
    BY <1>2, <1>6
  <2>3. Payload(s[i]) \in 0 .. Radix - 1 /\ Radix \in Nat
    BY <2>2, GroupIsNat, OctetFacts, RadixFacts
  <2>4. k = M - 1 => i = M
    BY <1>2, <1>6
  <2> QED BY <1>6, <2>1, <2>3, <2>4
<1>9. R[k] = R[k + 1]
  BY <1>6, <1>8, ReadingUnfold
<1> QED BY <1>4, <1>6, <1>7, <1>9

(* Reading ends with the first final group, successfully if its value fits. *)
LEMMA ReadEnds ==
  ASSUME NEW s \in Seq(Octet), NEW n, Ends(s, n), n <= MaxCompressedIntLen
  PROVE  ReadCompressedInt(s) =
           IF Denoted(s)[n] < Values
           THEN [err |-> "nil", value |-> Denoted(s)[n], length |-> n]
           ELSE Failed("overflow")
<1> DEFINE M == MaxCompressedIntLen
           k == n - 1
<1>1. M \in Nat /\ Len(s) \in Nat /\ M - 1 \in Nat
  BY CompressedIntAssumption, LenProperties, RadixFacts
<1>2. n \in 1 .. Len(s) /\ Final(s[n]) /\ \A j \in 1 .. n - 1 : ~Final(s[j])
  BY DEF Ends
<1>3. k \in 0 .. M /\ k <= Len(s) /\ k + 1 = n /\ k # M /\ k # Len(s) /\ n \in Nat
  BY <1>1, <1>2
<1>4. \A j \in 1 .. k : ~Final(s[j]) /\ (j = M => Payload(s[j]) <= 1)
  BY <1>1, <1>2, <1>3
<1>5. Reading(s)[0] = Reading(s)[k]
  <2> HIDE DEF k
  <2> QED BY <1>3, <1>4, ReadingGoesOn
<1>6. Reading(s)[k] =
        IF k = M - 1 /\ Payload(s[n]) > 1 THEN Failed("overflow")
        ELSE [err |-> "nil", value |-> Accumulated(s)[n], length |-> n]
  BY <1>2, <1>3, ReadingUnfold
<1>7. /\ Denoted(s)[n] \in Nat
      /\ Denoted(s)[n] < Values <=> (n = MaxCompressedIntLen => Payload(s[n]) <= 1)
  BY <1>2, WidthOfGroups
<1>8. Payload(s[n]) \in Int
  <2>1. Payload(s[n]) \in 0 .. Radix - 1 /\ Radix \in Nat
    BY <1>2, GroupIsNat, OctetFacts, RadixFacts
  <2> QED BY <2>1
<1>9. k = M - 1 <=> n = M
  BY <1>1, <1>3
<1>10. CASE Denoted(s)[n] < Values
  <2>1. Accumulated(s)[n] = Denoted(s)[n] % Values
    <3>1. n \in 0 .. Len(s)
      BY <1>1, <1>2
    <3> QED BY <3>1, AccumulatedFacts
  <2>2. Denoted(s)[n] % Values = Denoted(s)[n]
    <3> DEFINE v == Denoted(s)[n]
    <3>1. Values \in Int /\ Values > 0 /\ v \in 0 .. Values - 1 /\ 0 \in Int
      <4>1. Values \in Nat /\ Values > 0
        BY RadixFacts
      <4> QED BY <1>7, <1>10, <4>1
    <3>2. Values * 0 + v = v
      BY <3>1
    <3> HIDE DEF v
    <3>3. (Values * 0 + v) % Values = v
      BY <3>1, ModUnique
    <3> QED BY <3>2, <3>3 DEF v
  <2>3. ~(k = M - 1 /\ Payload(s[n]) > 1)
    BY <1>7, <1>8, <1>9, <1>10
  <2> QED BY <1>5, <1>6, <1>10, <2>1, <2>2, <2>3 DEF ReadCompressedInt
<1>11. CASE ~(Denoted(s)[n] < Values)
  <2>1. k = M - 1 /\ Payload(s[n]) > 1
    BY <1>7, <1>8, <1>9, <1>11
  <2> QED BY <1>5, <1>6, <1>11, <2>1 DEF ReadCompressedInt
<1> QED BY <1>10, <1>11

(* Only then.                                                               *)
LEMMA ReadOnlyEnds ==
  ASSUME NEW s \in Seq(Octet), ReadCompressedInt(s).err = "nil"
  PROVE  \E n \in 1 .. MaxCompressedIntLen : Ends(s, n) /\ Denoted(s)[n] < Values
<1> DEFINE M == MaxCompressedIntLen
           R == Reading(s)
           last == IF Len(s) < M THEN Len(s) ELSE M
           Fin == {k \in 1 .. last : Final(s[k]) \/ (k = M /\ ~(Payload(s[k]) <= 1))}
<1>1. M \in Nat /\ Len(s) \in Nat /\ last \in 0 .. M /\ last <= Len(s)
  BY CompressedIntAssumption, LenProperties
<1>2. \A e : Failed(e).err = e
  BY DEF Failed
<1>3. CASE Fin = {}
  <2>1. R[0] = R[last]
    <3> HIDE DEF last
    <3> QED BY <1>1, <1>3, ReadingGoesOn
  <2>2. R[last] = Failed("overflow") \/ R[last] = Failed("truncated")
    <3>1. last = M \/ last = Len(s)
      OBVIOUS
    <3> HIDE DEF last
    <3> QED BY <1>1, <3>1, ReadingUnfold
  <2> QED BY <1>2, <2>1, <2>2 DEF ReadCompressedInt
<1>4. CASE Fin # {}
  <2>1. PICK n \in Fin : \A k \in Fin : n <= k
    <3>1. Fin \subseteq Nat
      BY <1>1
    <3> QED BY <1>4, <3>1, NatMin
  <2>2. n \in 1 .. last /\ n \in 1 .. Len(s) /\ n \in 1 .. M /\ n \in Nat
    BY <1>1, <2>1
  <2>3. \A k \in 1 .. n - 1 : ~Final(s[k])
    <3> SUFFICES ASSUME NEW k \in 1 .. n - 1 PROVE ~Final(s[k])
      OBVIOUS
    <3>1. k \in 1 .. last /\ ~(n <= k)
      BY <1>1, <2>2
    <3> QED BY <2>1, <3>1
  <2>4. CASE Final(s[n])
    <3>1. Ends(s, n) /\ n <= M
      BY <2>2, <2>3, <2>4 DEF Ends
    <3>2. Denoted(s)[n] < Values
      BY <1>2, <3>1, ReadEnds DEF ReadCompressedInt
    <3> QED BY <2>2, <3>1, <3>2
  <2>5. CASE ~Final(s[n])
    <3>1. n = M /\ ~(Payload(s[n]) <= 1)
      BY <2>1, <2>5
    <3> DEFINE k == n - 1
    <3>2. k \in 0 .. M /\ k <= Len(s) /\ k + 1 = n /\ k # M /\ k # Len(s) /\ k = M - 1
      BY <1>1, <2>2, <3>1
    <3>3. \A j \in 1 .. k : ~Final(s[j]) /\ (j = M => Payload(s[j]) <= 1)
      BY <1>1, <2>2, <2>3, <3>1
    <3>4. R[0] = R[k]
      <4> HIDE DEF k
      <4> QED BY <3>2, <3>3, ReadingGoesOn
    <3>5. Payload(s[n]) > 1
      <4>1. Payload(s[n]) \in 0 .. Radix - 1 /\ Radix \in Nat
        BY <2>2, GroupIsNat, OctetFacts, RadixFacts
      <4> QED BY <3>1, <4>1
    <3>6. R[k] = Failed("overflow")
      BY <3>2, <3>5, ReadingUnfold
    <3> QED BY <1>2, <3>4, <3>6 DEF ReadCompressedInt
  <2> QED BY <2>4, <2>5
<1> QED BY <1>3, <1>4

(* The bytes fed are bytes.                                                 *)
FeedTypeOK == bytes \in Seq(Octet)

(* It holds in every state.                                                 *)
THEOREM FeedIsTyped == FeedSpec => []FeedTypeOK
<1>1. FeedInit => FeedTypeOK
  BY EmptySeq DEF FeedInit, FeedTypeOK
<1>2. FeedTypeOK /\ [FeedNext]_bytes => FeedTypeOK'
  <2> SUFFICES ASSUME FeedTypeOK, [FeedNext]_bytes PROVE FeedTypeOK'
    OBVIOUS
  <2>1. CASE Feed
    BY <2>1, AppendProperties DEF Feed, FeedTypeOK
  <2>2. CASE Full \/ UNCHANGED bytes
    BY <2>2 DEF Full, FeedTypeOK
  <2> QED BY <2>1, <2>2 DEF FeedNext
<1> QED BY <1>1, <1>2, PTL DEF FeedSpec

(* Nothing is shifted out of a value that is read (NoBitIsLost).            *)
THEOREM NoBitIsEverLost == FeedSpec => []NoBitIsLost
<1>1. FeedTypeOK => NoBitIsLost
  <2> SUFFICES ASSUME FeedTypeOK, result.err = "nil"
               PROVE  /\ result.value = Denotes(result.length)
                      /\ Final(bytes[result.length])
                      /\ \A k \in 1 .. result.length - 1 : ~Final(bytes[k])
    BY DEF NoBitIsLost
  <2>1. PICK n \in 1 .. MaxCompressedIntLen : Ends(bytes, n) /\ Denoted(bytes)[n] < Values
    BY ReadOnlyEnds DEF FeedTypeOK, result
  <2>2. n <= MaxCompressedIntLen
    BY CompressedIntAssumption
  <2>3. result = [err |-> "nil", value |-> Denoted(bytes)[n], length |-> n]
    BY <2>1, <2>2, ReadEnds DEF FeedTypeOK, result
  <2> QED BY <2>1, <2>3 DEF Ends, Denotes
<1> QED BY <1>1, FeedIsTyped, PTL

(* An integer that is there and fits is read (NothingElseIsRefused).        *)
THEOREM WhatFitsIsRead == FeedSpec => []NothingElseIsRefused
<1>1. FeedTypeOK => NothingElseIsRefused
  <2> SUFFICES ASSUME FeedTypeOK, NEW n \in DOMAIN bytes, n <= MaxCompressedIntLen,
                      Final(bytes[n]), \A k \in 1 .. n - 1 : ~Final(bytes[k]),
                      Denotes(n) < Values
               PROVE  result.err = "nil"
    BY DEF NothingElseIsRefused
  <2>1. n \in 1 .. Len(bytes)
    BY LenProperties DEF FeedTypeOK
  <2>2. Ends(bytes, n) /\ Denoted(bytes)[n] < Values
    BY <2>1 DEF Ends, Denotes
  <2> QED BY <2>2, ReadEnds DEF FeedTypeOK, result
<1> QED BY <1>1, FeedIsTyped, PTL

(* Dividing by the radix.                                                   *)
LEMMA RadixDivides ==
  ASSUME NEW v \in Nat
  PROVE  /\ v % Radix \in 0 .. Radix - 1 /\ v \div Radix \in Nat
         /\ v = Radix * (v \div Radix) + (v % Radix)
         /\ v >= Radix => v \div Radix < v
<1> DEFINE q == v \div Radix
           r == v % Radix
<1>1. Radix \in Nat /\ Radix \in Int /\ Radix >= 2 /\ Radix > 0 /\ v \in Int
  BY RadixFacts
<1>2. v = Radix * q + r /\ r \in 0 .. Radix - 1 /\ q \in Int
  BY <1>1, ModIs
<1> HIDE DEF q, r
<1>3. q \in Nat
  <2>1. SUFFICES ASSUME ~(q >= 0) PROVE FALSE
    BY <1>2
  <2>2. -q \in Int /\ -q >= 1
    BY <1>2, <2>1
  <2>3. Radix * (-q) >= Radix
    BY <1>1, <2>2, MultipleGrows
  <2>4. Radix * (-q) = -(Radix * q) /\ Radix * q \in Int
    BY <1>1, <1>2
  <2> QED BY <1>1, <1>2, <2>3, <2>4
<1>4. v >= Radix => q < v
  <2> SUFFICES ASSUME v >= Radix, ~(q < v) PROVE FALSE
    BY <1>3
  <2>1. q >= v /\ q \in Nat
    BY <1>3
  <2>2. q * 2 <= q * Radix /\ q * Radix = Radix * q /\ q * Radix \in Nat
    <3>1. 2 \in Nat /\ 2 <= Radix
      BY <1>1
    <3> QED BY <1>1, <1>3, <3>1, Products
  <2>3. r \in Nat
    BY <1>1, <1>2
  <2> DEFINE m == q * Radix
  <2>4. m \in Nat /\ q * 2 <= m /\ v = m + r
    BY <1>2, <2>2
  <2> HIDE DEF m
  <2> QED BY <1>1, <2>1, <2>3, <2>4
<1> QED BY <1>2, <1>3, <1>4 DEF q, r

(* Division by the radix is unique.                                         *)
LEMMA DivUnique ==
  ASSUME NEW q \in Nat, NEW r \in 0 .. Radix - 1
  PROVE  (Radix * q + r) % Radix = r /\ (Radix * q + r) \div Radix = q
<1> DEFINE n == Radix * q + r
           p == n \div Radix
<1>1. Radix \in Nat /\ Radix \in Int /\ Radix > 0 /\ q \in Int /\ r \in Nat /\ Radix * q \in Nat
  <2>1. Radix \in Nat /\ Radix > 0
    BY RadixFacts
  <2> QED BY <2>1, Products
<1>2. n % Radix = r
  BY <1>1, ModUnique
<1>3. n \in Nat
  BY <1>1
<1>4. n = Radix * p + (n % Radix) /\ p \in Nat
  <2> HIDE DEF n
  <2> QED BY <1>3, RadixDivides
<1>5. Radix * p = Radix * q
  <2>1. Radix * p \in Nat
    BY <1>1, <1>4, Products
  <2> DEFINE x == Radix * p
             y == Radix * q
  <2>2. x \in Nat /\ y \in Nat /\ y + r = x + r
    BY <1>1, <1>2, <1>4, <2>1
  <2> HIDE DEF x, y
  <2>3. x = y
    BY <1>1, <2>2
  <2> QED BY <2>3 DEF x, y
<1> HIDE DEF p
<1>6. p = q
  <2>1. ASSUME p < q PROVE FALSE
    <3>1. Radix * (p + 1) <= Radix * q
      BY <1>1, <1>4, <2>1, Products
    <3>2. Radix * (p + 1) = Radix * p + Radix * 1 /\ Radix * p \in Nat
      <4>1. 1 \in Nat
        OBVIOUS
      <4> QED BY <1>1, <1>4, <4>1, Products
    <3> QED BY <1>1, <1>5, <3>1, <3>2
  <2>2. ASSUME q < p PROVE FALSE
    <3>1. Radix * (q + 1) <= Radix * p
      BY <1>1, <1>4, <2>2, Products
    <3>2. Radix * (q + 1) = Radix * q + Radix * 1
      <4>1. 1 \in Nat
        OBVIOUS
      <4> QED BY <1>1, <1>4, <4>1, Products
    <3> QED BY <1>1, <1>5, <3>1, <3>2
  <2> QED BY <1>4, <2>1, <2>2
<1> QED BY <1>2, <1>6 DEF p

(* What is appended for the values up to v.                                 *)
GroupsPrev == [x \in Nat |-> x \div Radix]
GroupsBase == [x \in Nat |-> <<x + Radix>>]
GroupsStep == [x \in Nat |-> [t \in Seq(Octet) |-> <<x % Radix>> \o t]]

(* A sequence of one octet.                                                 *)
LEMMA OneOctet ==
  ASSUME NEW b \in Octet
  PROVE  <<b>> \in Seq(Octet) /\ Len(<<b>>) = 1 /\ <<b>>[1] = b
OBVIOUS

(* The groups of a value, by recursion.                                     *)
LEMMA GroupsFacts ==
  ASSUME NEW v \in Nat
  PROVE  /\ Groups(v) \in [0 .. v -> Seq(Octet)]
         /\ \A x \in 0 .. v : x \div Radix \in 0 .. v
         /\ \A x \in 0 .. v :
              Groups(v)[x] = IF x >= Radix THEN <<x % Radix>> \o Groups(v)[x \div Radix]
                             ELSE <<x + Radix>>
         /\ Recurs(Groups(v), 0 .. v, v + 1, 0 .. Radix - 1, GroupsBase, GroupsPrev, GroupsStep)
<1> DEFINE S == Seq(Octet)
           D == 0 .. v
           Base == 0 .. Radix - 1
           Rec(f) == [x \in D |-> IF x >= Radix THEN <<x % Radix>> \o f[x \div Radix]
                                  ELSE <<x + Radix>>]
           p == CHOOSE f : f = Rec(f)
<1>1. Radix \in Nat /\ Radix >= 2
  BY RadixFacts
<1>2. \A x \in D : /\ x \in Nat /\ (x \in Base <=> ~(x >= Radix))
                   /\ GroupsPrev[x] = x \div Radix /\ GroupsBase[x] = <<x + Radix>>
                   /\ \A t \in S : GroupsStep[x][t] = <<x % Radix>> \o t
  BY <1>1 DEF GroupsPrev, GroupsBase, GroupsStep
<1>3. \A x \in D : /\ x % Radix \in Octet /\ x \div Radix \in D
                   /\ x \notin Base => x \div Radix < x
  <2> SUFFICES ASSUME NEW x \in D
               PROVE  /\ x % Radix \in Octet /\ x \div Radix \in D
                      /\ x \notin Base => x \div Radix < x
    OBVIOUS
  <2> DEFINE q == x \div Radix
             r == x % Radix
  <2>1. x \in Nat
    OBVIOUS
  <2>2. r \in 0 .. Radix - 1 /\ q \in Nat /\ x = Radix * q + r /\ (x >= Radix => q < x)
    BY <2>1, RadixDivides
  <2>3. r \in Octet
    <3> HIDE DEF q, r
    <3> QED BY <1>1, <2>2 DEF Octet
  <2>4. q \in D
    <3>1. CASE x >= Radix
      <4> HIDE DEF q, r
      <4> QED BY <2>1, <2>2, <3>1
    <3>2. CASE ~(x >= Radix)
      <4>1. x = Radix * 0 + x /\ x \in 0 .. Radix - 1 /\ 0 \in Nat
        BY <1>1, <2>1, <3>2
      <4>2. (Radix * 0 + x) \div Radix = 0
        BY <4>1, DivUnique
      <4>3. q = 0
        BY <4>1, <4>2
      <4> HIDE DEF q
      <4> QED BY <4>3, <2>1
    <3> QED BY <3>1, <3>2
  <2> QED BY <1>2, <2>2, <2>3, <2>4
<1>4. \A b \in Octet : <<b>> \in S
  BY OneOctet
<1>5. \A x \in D \cap Base : GroupsBase[x] \in S
  <2>1. \A x \in D \cap Base : x + Radix \in Octet
    BY <1>1 DEF Octet
  <2> QED BY <1>2, <1>4, <2>1
<1>6. \A x \in D : \A t \in S : GroupsStep[x][t] \in S
  <2> SUFFICES ASSUME NEW x \in D, NEW t \in S PROVE GroupsStep[x][t] \in S
    OBVIOUS
  <2>1. <<x % Radix>> \in Seq(Octet) /\ GroupsStep[x][t] = <<x % Radix>> \o t
    BY <1>2, <1>3, <1>4
  <2> QED BY <2>1, ConcatProperties
<1>7. Descends(D, Base, GroupsPrev)
  <2>1. D \subseteq Nat
    BY <1>2
  <2> QED BY <1>2, <1>3, <2>1 DEF Descends
<1>8. MapsInto(S, D, Base, GroupsBase, GroupsStep)
  BY <1>5, <1>6 DEF MapsInto
<1>9. PICK f \in [D -> S] : Solves(f, D, Base, GroupsBase, GroupsPrev, GroupsStep)
  <2> HIDE DEF S, D, Base
  <2> QED BY <1>7, <1>8, RecursionExists
<1>10. f = Rec(f)
  <2>1. ASSUME NEW x \in D
        PROVE  f[x] = IF x >= Radix THEN <<x % Radix>> \o f[x \div Radix] ELSE <<x + Radix>>
    <3>1. f[x \div Radix] \in S
      BY <1>3, <1>9
    <3>2. f[x] = IF x \in Base THEN GroupsBase[x] ELSE GroupsStep[x][f[GroupsPrev[x]]]
      <4> HIDE DEF S, D, Base
      <4> QED BY <1>9 DEF Solves
    <3> HIDE DEF S, Base
    <3> QED BY <1>2, <3>1, <3>2
  <2>2. f = [x \in D |-> f[x]]
    BY <1>9
  <2> QED BY <2>1, <2>2
<1>11. p = Rec(p)
  <2> HIDE DEF Rec
  <2> QED BY <1>10
<1>12. Groups(v) = p
  BY DEF Groups
<1> HIDE DEF p
<1>13. \A x \in D : p[x] = IF x >= Radix THEN <<x % Radix>> \o p[x \div Radix] ELSE <<x + Radix>>
  BY <1>11
<1>14. \A x \in D : p[x] \in S
  <2> DEFINE Bad == {x \in D : p[x] \notin S}
  <2>1. SUFFICES ASSUME Bad # {} PROVE FALSE
    OBVIOUS
  <2>2. PICK x \in Bad : \A y \in Bad : x <= y
    <3>1. Bad \subseteq Nat
      OBVIOUS
    <3> QED BY <2>1, <3>1, NatMin
  <2>3. x \in D /\ p[x] \notin S /\ x \in Nat
    BY <2>2
  <2>4. CASE x \in Base
    <3>1. p[x] = GroupsBase[x]
      BY <1>2, <1>13, <2>3, <2>4
    <3> QED BY <1>5, <2>3, <2>4, <3>1
  <2>5. CASE x \notin Base
    <3>1. x \div Radix \in D /\ ~(x <= x \div Radix) /\ x >= Radix
      <4>1. x \div Radix \in D /\ x \div Radix < x /\ x >= Radix /\ x \div Radix \in Nat
        BY <1>2, <1>3, <2>3, <2>5
      <4> DEFINE q == x \div Radix
      <4>2. q \in D /\ q < x /\ q \in Nat
        BY <4>1
      <4> HIDE DEF q
      <4>3. ~(x <= q)
        BY <2>3, <4>2
      <4> QED BY <4>1, <4>3 DEF q
    <3>2. p[x \div Radix] \in S
      BY <2>2, <3>1
    <3>3. p[x] = GroupsStep[x][p[x \div Radix]]
      BY <1>2, <1>13, <2>3, <3>1, <3>2
    <3> QED BY <1>6, <2>3, <3>2, <3>3
  <2> QED BY <2>4, <2>5
<1>15. p \in [D -> S]
  <2>1. p = [x \in D |-> p[x]]
    BY <1>11
  <2> QED BY <1>14, <2>1
<1>16. Recurs(p, D, v + 1, Base, GroupsBase, GroupsPrev, GroupsStep)
  <2>1. \A x \in D : p[x] = IF x \in Base THEN GroupsBase[x] ELSE GroupsStep[x][p[GroupsPrev[x]]]
    <3> SUFFICES ASSUME NEW x \in D
                 PROVE  p[x] = IF x \in Base THEN GroupsBase[x] ELSE GroupsStep[x][p[GroupsPrev[x]]]
      OBVIOUS
    <3>1. p[x \div Radix] \in S
      BY <1>3, <1>14
    <3> HIDE DEF S, Base, D
    <3> QED BY <1>2, <1>13, <3>1
  <2> QED BY <2>1 DEF Recurs
<1> QED BY <1>3, <1>12, <1>13, <1>15, <1>16

(* The groups of a value: the first one, then those of the rest.            *)
LEMMA AppendUnfold ==
  ASSUME NEW v \in Nat
  PROVE  /\ AppendCompressedInt(v) \in Seq(Octet)
         /\ AppendCompressedInt(v) =
              IF v >= Radix THEN <<v % Radix>> \o AppendCompressedInt(v \div Radix)
              ELSE <<v + Radix>>
<1>1. v \in 0 .. v
  OBVIOUS
<1>2. CASE ~(v >= Radix)
  BY <1>1, <1>2, GroupsFacts DEF AppendCompressedInt
<1>3. CASE v >= Radix
  <2> DEFINE u == v \div Radix
             Base == 0 .. Radix - 1
             D == 0 .. u
             G == Groups(v)
             H == Groups(u)
  <2>1. u \in Nat /\ u < v
    BY <1>3, RadixDivides
  <2>2. /\ Recurs(G, 0 .. v, v + 1, Base, GroupsBase, GroupsPrev, GroupsStep)
        /\ Recurs(H, 0 .. u, u + 1, Base, GroupsBase, GroupsPrev, GroupsStep)
        /\ \A x \in D : x \div Radix \in D
    <3> HIDE DEF u
    <3> QED BY <2>1, GroupsFacts
  <2> HIDE DEF u, G, H
  <2>3. Recurs(G, D, u + 1, Base, GroupsBase, GroupsPrev, GroupsStep)
    <3>1. \A x \in D : x \in 0 .. v /\ x < v + 1
      BY <2>1
    <3> HIDE DEF D, Base
    <3> QED BY <2>2, <3>1 DEF Recurs
  <2>4. Descends(D, Base, GroupsPrev)
    <3>1. \A x \in D : x \in Nat /\ GroupsPrev[x] = x \div Radix
      BY <2>1 DEF GroupsPrev
    <3>2. \A x \in D \ Base : x \div Radix < x
      <4> SUFFICES ASSUME NEW x \in D \ Base PROVE x \div Radix < x
        OBVIOUS
      <4>1. x \in Nat /\ x >= Radix
        <5>1. Radix \in Nat
          BY RadixFacts
        <5> QED BY <2>1, <5>1
      <4> QED BY <4>1, RadixDivides
    <3> QED BY <2>2, <3>1, <3>2 DEF Descends
  <2>5. \A x \in D : x < u + 1 => G[x] = H[x]
    <3>1. u + 1 \in Nat
      BY <2>1
    <3>2. Recurs(H, D, u + 1, Base, GroupsBase, GroupsPrev, GroupsStep)
      BY <2>2
    <3> DEFINE m == u + 1
    <3>3. m \in Nat /\ Recurs(G, D, m, Base, GroupsBase, GroupsPrev, GroupsStep)
               /\ Recurs(H, D, m, Base, GroupsBase, GroupsPrev, GroupsStep)
      BY <2>3, <3>1, <3>2
    <3> HIDE DEF D, Base, m
    <3>4. \A x \in D : x < m => G[x] = H[x]
      BY <2>4, <3>3, RecursionAgrees
    <3> QED BY <3>4 DEF m
  <2>6. G[u] = H[u]
    BY <2>1, <2>5
  <2>7. G[v] = <<v % Radix>> \o G[u] /\ G[v] \in Seq(Octet)
    BY <1>1, <1>3, GroupsFacts DEF G, u
  <2> QED BY <1>3, <2>6, <2>7 DEF AppendCompressedInt, G, H, u
<1> QED BY <1>2, <1>3

(* What the groups after the first denote is worth the radix.               *)
LEMMA FirstGroup ==
  ASSUME NEW b \in Octet, NEW t \in Seq(Octet), NEW n \in 0 .. Len(t)
  PROVE  /\ <<b>> \o t \in Seq(Octet) /\ Len(<<b>> \o t) = Len(t) + 1
         /\ (<<b>> \o t)[1] = b /\ \A k \in 1 .. Len(t) : (<<b>> \o t)[k + 1] = t[k]
         /\ Denoted(<<b>> \o t)[n + 1] = Payload(b) + Radix * Denoted(t)[n]
<1> DEFINE s == <<b>> \o t
           P == Powers(Radix)
           DS == Denoted(s)
           DT == Denoted(t)
           Bad == {k \in 0 .. Len(t) : DS[k + 1] # Payload(b) + Radix * DT[k]}
<1>1. <<b>> \in Seq(Octet) /\ Len(<<b>>) = 1 /\ <<b>>[1] = b /\ Len(t) \in Nat
  BY OneOctet, LenProperties
<1>2. /\ s \in Seq(Octet) /\ Len(s) = 1 + Len(t)
      /\ \A k \in 1 .. 1 + Len(t) : s[k] = IF k <= 1 THEN <<b>>[k] ELSE t[k - 1]
  BY <1>1, ConcatProperties
<1>3. s[1] = b /\ \A k \in 1 .. Len(t) : s[k + 1] = t[k]
  <2>1. 1 \in 1 .. 1 + Len(t) /\ 1 <= 1
    BY <1>1
  <2>2. \A k \in 1 .. Len(t) : k + 1 \in 1 .. 1 + Len(t) /\ ~(k + 1 <= 1) /\ (k + 1) - 1 = k
    BY <1>1
  <2> QED BY <1>1, <1>2, <2>1, <2>2
<1>4. Len(s) = Len(t) + 1
  BY <1>1, <1>2
<1> HIDE DEF s
<1>5. Payload(b) \in Nat /\ Radix \in Nat
  <2>1. Payload(b) \in 0 .. Radix - 1 /\ Radix \in Nat
    BY OctetFacts, RadixFacts
  <2> QED BY <2>1
<1>6. Bad = {}
  <2>1. SUFFICES ASSUME Bad # {} PROVE FALSE
    OBVIOUS
  <2>2. PICK k \in Bad : \A j \in Bad : k <= j
    <3>1. Bad \subseteq Nat
      BY <1>1
    <3> QED BY <2>1, <3>1, NatMin
  <2>3. k \in 0 .. Len(t) /\ DS[k + 1] # Payload(b) + Radix * DT[k]
    BY <2>2
  <2>4. k # 0
    <3>1. DS[1] = DS[0] + Payload(s[1]) * P[0] /\ DS[0] = 0 /\ P[0] = 1 /\ DT[0] = 0
      <4>1. 1 \in 1 .. Len(s) /\ 1 - 1 = 0
        BY <1>1, <1>4
      <4>2. DS[1] = DS[1 - 1] + Payload(s[1]) * P[1 - 1] /\ DS[0] = 0
        BY <1>2, <4>1, DenotedFacts
      <4> QED BY <4>1, <4>2, DenotedFacts, RadixFacts
    <3>2. DS[1] = Payload(b) + Radix * DT[0]
      BY <1>3, <1>5, <3>1
    <3> QED BY <2>3, <3>2
  <2>5. /\ k \in 1 .. Len(t) /\ k - 1 \in 0 .. Len(t) /\ ~(k <= k - 1) /\ (k - 1) + 1 = k
        /\ k + 1 \in 1 .. Len(s) /\ (k + 1) - 1 = k /\ k - 1 \in Nat
    BY <1>1, <1>4, <2>3, <2>4
  <2>6. DS[k] = Payload(b) + Radix * DT[k - 1]
    BY <2>2, <2>5
  <2>7. DS[k + 1] = DS[k] + Payload(s[k + 1]) * P[k] /\ s[k + 1] = t[k]
    BY <1>2, <1>3, <2>5, DenotedFacts
  <2>8. DT[k] = DT[k - 1] + Payload(t[k]) * P[k - 1] /\ DT[k - 1] \in Nat
    BY <2>5, DenotedFacts
  <2>9. P[k] = Radix * P[k - 1] /\ P[k - 1] \in Nat
    BY <2>5, RadixFacts
  <2>10. Payload(t[k]) \in Nat
    <3>1. Payload(t[k]) \in 0 .. Radix - 1
      BY <2>5, GroupIsNat, OctetFacts
    <3> QED BY <1>5, <3>1
  <2> DEFINE q == Payload(t[k])
             x == P[k - 1]
             d == DT[k - 1]
             R == Radix
  <2>11. R * (d + q * x) = R * d + R * (q * x) /\ R * (q * x) = q * (R * x)
         /\ R * d \in Nat /\ R * (q * x) \in Nat
    <3>1. R \in Nat /\ q \in Nat /\ x \in Nat /\ d \in Nat
      BY <1>5, <2>8, <2>9, <2>10
    <3> HIDE DEF R, q, x, d
    <3>2. q * x \in Nat
      BY <3>1, Products
    <3>3. R * (q * x) = (R * q) * x /\ q * (R * x) = (q * R) * x /\ R * q = q * R
      BY <3>1, Products
    <3> QED BY <3>1, <3>2, <3>3, Products
  <2>12. DS[k + 1] = (Payload(b) + R * d) + q * (R * x) /\ DT[k] = d + q * x
    BY <2>6, <2>7, <2>8, <2>9
  <2>13. Payload(b) + R * DT[k] = (Payload(b) + R * d) + R * (q * x)
    <3> DEFINE y == R * d
               z == R * (q * x)
               c == Payload(b)
    <3>1. R * DT[k] = y + z /\ y \in Nat /\ z \in Nat /\ c \in Nat
      BY <1>5, <2>11, <2>12
    <3> HIDE DEF y, z, c
    <3>2. c + R * DT[k] = (c + y) + z
      BY <3>1
    <3> QED BY <3>2 DEF y, z, c
  <2> QED BY <2>3, <2>11, <2>12, <2>13
<1>7. DS[n + 1] = Payload(b) + Radix * DT[n]
  BY <1>6
<1> QED BY <1>2, <1>3, <1>4, <1>7 DEF s

(* The groups after the first, where the integer goes on after it.          *)
LEMMA RestOfGroups ==
  ASSUME NEW s \in Seq(Octet), NEW n, Ends(s, n), n # 1
  PROVE  /\ Tail(s) \in Seq(Octet) /\ Ends(Tail(s), n - 1) /\ n - 1 \in 0 .. Len(Tail(s))
         /\ s[1] \in Octet /\ s[1] = Payload(s[1]) /\ s = <<s[1]>> \o Tail(s)
         /\ Denoted(s)[n] = Payload(s[1]) + Radix * Denoted(Tail(s))[n - 1]
<1> DEFINE t == Tail(s)
           u == <<s[1]>> \o t
<1>1. Len(s) \in Nat /\ n \in 1 .. Len(s) /\ Final(s[n]) /\ \A k \in 1 .. n - 1 : ~Final(s[k])
  BY LenProperties DEF Ends
<1>2. s # <<>> /\ 1 \in 1 .. Len(s) /\ 1 \in 1 .. n - 1
  BY <1>1
<1>3. t \in Seq(Octet) /\ Len(t) = Len(s) - 1 /\ \A k \in 1 .. Len(t) : t[k] = s[k + 1]
  BY <1>2, HeadTailProperties
<1>4. s[1] \in Octet
  BY <1>2, GroupIsNat
<1>5. s[1] = Payload(s[1])
  BY <1>1, <1>2, <1>4, OctetFacts
<1>6. n - 1 \in 1 .. Len(t) /\ n - 1 \in 0 .. Len(t) /\ (n - 1) + 1 = n
  BY <1>1, <1>2, <1>3
<1>7. Ends(t, n - 1)
  <2>1. Final(t[n - 1])
    BY <1>1, <1>3, <1>6
  <2>2. \A k \in 1 .. (n - 1) - 1 : k \in 1 .. Len(t) /\ k + 1 \in 1 .. n - 1
    BY <1>1, <1>6
  <2>3. \A k \in 1 .. (n - 1) - 1 : ~Final(t[k])
    BY <1>1, <1>3, <2>2
  <2> QED BY <1>6, <2>1, <2>3 DEF Ends
<1>8. /\ u \in Seq(Octet) /\ Len(u) = Len(t) + 1 /\ u[1] = s[1]
      /\ \A k \in 1 .. Len(t) : u[k + 1] = t[k]
      /\ Denoted(u)[(n - 1) + 1] = Payload(s[1]) + Radix * Denoted(t)[n - 1]
  <2> HIDE DEF t
  <2> QED BY <1>3, <1>4, <1>6, FirstGroup
<1>9. u = s
  <2>1. Len(u) = Len(s)
    BY <1>1, <1>3, <1>8
  <2>2. ASSUME NEW k \in 1 .. Len(s) PROVE u[k] = s[k]
    <3>1. CASE k = 1
      BY <1>8, <3>1
    <3>2. CASE k # 1
      <4>1. k - 1 \in 1 .. Len(t) /\ (k - 1) + 1 = k
        BY <1>1, <1>3, <3>2
      <4>2. u[(k - 1) + 1] = t[k - 1] /\ t[k - 1] = s[(k - 1) + 1]
        BY <1>3, <1>8, <4>1
      <4> QED BY <4>1, <4>2
    <3> QED BY <3>1, <3>2
  <2> HIDE DEF u
  <2> QED BY <1>8, <2>1, <2>2, SeqEqual
<1> QED BY <1>3, <1>4, <1>5, <1>6, <1>7, <1>8, <1>9

(* a is what denotes v, and nothing shorter does.                           *)
Shortest(a, v) ==
  /\ a \in Seq(Octet) /\ Ends(a, Len(a)) /\ Denoted(a)[Len(a)] = v
  /\ \A s \in Seq(Octet) : \A n \in Nat :
       Ends(s, n) /\ Denoted(s)[n] = v =>
         Len(a) <= n /\ (Len(a) = n => a = SubSeq(s, 1, n))

(* A value of one group.                                                    *)
LEMMA ShortestOfOne ==
  ASSUME NEW v \in 0 .. Radix - 1
  PROVE  Shortest(<<v + Radix>>, v)
<1> DEFINE b == v + Radix
           a == <<b>>
<1>1. Radix \in Nat /\ Radix >= 2 /\ v \in Nat
  <2>1. Radix \in Nat /\ Radix >= 2
    BY RadixFacts
  <2> QED BY <2>1
<1>2. b \in Octet /\ Final(b)
  BY <1>1 DEF Octet, Final
<1>3. Payload(b) = v
  <2>1. b = Payload(b) + Radix /\ Payload(b) \in 0 .. Radix - 1
    BY <1>2, OctetFacts
  <2> HIDE DEF b
  <2>2. b = v + Radix
    BY DEF b
  <2> QED BY <1>1, <2>1, <2>2
<1>4. a \in Seq(Octet) /\ Len(a) = 1 /\ a[1] = b
  BY <1>2, OneOctet
<1>5. \A s \in Seq(Octet) : Len(s) >= 1 => Denoted(s)[1] = Payload(s[1]) /\ s[1] \in Octet
  <2> SUFFICES ASSUME NEW s \in Seq(Octet), Len(s) >= 1
               PROVE  Denoted(s)[1] = Payload(s[1]) /\ s[1] \in Octet
    OBVIOUS
  <2>1. 1 \in 1 .. Len(s) /\ 1 - 1 = 0
    BY LenProperties
  <2>2. Denoted(s)[1] = Denoted(s)[1 - 1] + Payload(s[1]) * Powers(Radix)[1 - 1]
        /\ Denoted(s)[0] = 0 /\ Powers(Radix)[0] = 1
    BY <2>1, DenotedFacts, RadixFacts
  <2>3. s[1] \in Octet
    BY <2>1, GroupIsNat
  <2>4. Payload(s[1]) \in Nat
    <3>1. Payload(s[1]) \in 0 .. Radix - 1
      BY <2>3, OctetFacts
    <3> QED BY <1>1, <3>1
  <2> QED BY <2>1, <2>2, <2>3, <2>4
<1> HIDE DEF a
<1>6. Ends(a, Len(a)) /\ Denoted(a)[Len(a)] = v
  BY <1>2, <1>3, <1>4, <1>5 DEF Ends
<1>7. ASSUME NEW s \in Seq(Octet), NEW n \in Nat, Ends(s, n), Denoted(s)[n] = v
      PROVE  Len(a) <= n /\ (Len(a) = n => a = SubSeq(s, 1, n))
  <2>1. n \in 1 .. Len(s) /\ Final(s[n]) /\ Len(s) \in Nat
    BY <1>7, LenProperties DEF Ends
  <2>2. ASSUME n = 1 PROVE a = SubSeq(s, 1, n)
    <3>1. s[1] \in Octet /\ Payload(s[1]) = v /\ Final(s[1])
      BY <1>5, <1>7, <2>1, <2>2
    <3>2. s[1] = b
      BY <3>1, OctetFacts
    <3>3. 0 \in 0 .. Len(s) /\ 1 \in 0 .. Len(s)
      BY <2>1
    <3>4. SubSeq(s, 0 + 1, 1) \in Seq(Octet) /\ Len(SubSeq(s, 0 + 1, 1)) = 1 - 0
          /\ \A k \in 1 .. 1 - 0 : SubSeq(s, 0 + 1, 1)[k] = s[0 + k]
      BY <3>3, SubSeqFacts
    <3>5. /\ SubSeq(s, 1, 1) \in Seq(Octet) /\ Len(SubSeq(s, 1, 1)) = 1
          /\ SubSeq(s, 1, 1)[1] = s[1]
      BY <3>4
    <3> QED BY <1>4, <2>2, <3>2, <3>5, SeqEqual
  <2> QED BY <1>4, <2>1, <2>2
<1> QED BY <1>4, <1>6, <1>7 DEF Shortest, a

(* A value of more groups.                                                  *)
LEMMA ShortestOfMore ==
  ASSUME NEW v \in Nat, v >= Radix, NEW b, Shortest(b, v \div Radix)
  PROVE  Shortest(<<v % Radix>> \o b, v)
<1> DEFINE u == v \div Radix
           r == v % Radix
           a == <<r>> \o b
<1>1. Radix \in Nat /\ Radix >= 2
  BY RadixFacts
<1>2. r \in 0 .. Radix - 1 /\ u \in Nat /\ v = Radix * u + r
  BY RadixDivides
<1>3. b \in Seq(Octet) /\ Ends(b, Len(b)) /\ Denoted(b)[Len(b)] = u
  BY DEF Shortest
<1>4. \A s \in Seq(Octet) : \A n \in Nat :
        Ends(s, n) /\ Denoted(s)[n] = u => Len(b) <= n /\ (Len(b) = n => b = SubSeq(s, 1, n))
  BY DEF Shortest
<1> HIDE DEF u, r
<1>5. r \in Octet /\ ~Final(r) /\ Payload(r) = r
  <2>1. r \in Octet /\ ~Final(r)
    BY <1>1, <1>2 DEF Octet, Final
  <2> QED BY <2>1, OctetFacts
<1>6. Len(b) \in Nat /\ Len(b) \in 1 .. Len(b) /\ Len(b) \in 0 .. Len(b)
      /\ Final(b[Len(b)]) /\ \A k \in 1 .. Len(b) - 1 : ~Final(b[k])
  BY <1>3, LenProperties DEF Ends
<1>7. /\ a \in Seq(Octet) /\ Len(a) = Len(b) + 1 /\ a[1] = r
      /\ \A k \in 1 .. Len(b) : a[k + 1] = b[k]
      /\ Denoted(a)[Len(b) + 1] = Payload(r) + Radix * Denoted(b)[Len(b)]
  BY <1>3, <1>5, <1>6, FirstGroup
<1> HIDE DEF a
<1>8. Ends(a, Len(a))
  <2>1. ASSUME NEW k \in 1 .. Len(a) - 1 PROVE ~Final(a[k])
    <3>1. CASE k = 1
      BY <1>5, <1>7, <3>1
    <3>2. CASE k # 1
      <4>1. k - 1 \in 1 .. Len(b) - 1 /\ k - 1 \in 1 .. Len(b) /\ (k - 1) + 1 = k
        BY <1>6, <1>7, <3>2
      <4>2. a[(k - 1) + 1] = b[k - 1]
        BY <1>7, <4>1
      <4> QED BY <1>6, <4>1, <4>2
    <3> QED BY <3>1, <3>2
  <2>2. Len(a) \in 1 .. Len(a) /\ Final(a[Len(a)])
    BY <1>6, <1>7
  <2> QED BY <2>1, <2>2 DEF Ends
<1>9. Denoted(a)[Len(a)] = v
  <2>1. Denoted(a)[Len(a)] = r + Radix * u
    BY <1>3, <1>5, <1>7
  <2>2. Radix * u \in Nat /\ r \in Nat
    BY <1>1, <1>2, Products
  <2> QED BY <1>2, <2>1, <2>2
<1>10. ASSUME NEW s \in Seq(Octet), NEW n \in Nat, Ends(s, n), Denoted(s)[n] = v
       PROVE  Len(a) <= n /\ (Len(a) = n => a = SubSeq(s, 1, n))
  <2>1. n \in 1 .. Len(s) /\ Len(s) \in Nat
    BY <1>10, LenProperties DEF Ends
  <2>2. n # 1
    <3>1. SUFFICES ASSUME n = 1 PROVE FALSE
      OBVIOUS
    <3>2. 1 \in 0 .. Len(s) /\ Powers(Radix)[1] = Radix
      <4>1. Powers(Radix)[0 + 1] = Radix * Powers(Radix)[0] /\ Powers(Radix)[0] = 1
        BY RadixFacts
      <4>2. Powers(Radix)[1] = Radix
        BY <1>1, <4>1
      <4> QED BY <2>1, <3>1, <4>2
    <3>3. Denoted(s)[1] < Powers(Radix)[1]
      BY <3>2, DenotedBound
    <3> QED BY <1>1, <1>10, <3>1, <3>2, <3>3
  <2> DEFINE t == Tail(s)
             d == Denoted(t)[n - 1]
  <2>3. /\ t \in Seq(Octet) /\ Ends(t, n - 1) /\ n - 1 \in 0 .. Len(t)
        /\ s[1] \in Octet /\ s[1] = Payload(s[1]) /\ s = <<s[1]>> \o t
        /\ v = Payload(s[1]) + Radix * d
    BY <1>10, <2>2, RestOfGroups
  <2>4. d \in Nat /\ s[1] \in 0 .. Radix - 1
    BY <2>3, DenotedFacts, OctetFacts
  <2>5. Radix * d + s[1] = v
    <3>1. Radix * d \in Nat /\ s[1] \in Nat
      BY <1>1, <2>4, Products
    <3> QED BY <2>3, <3>1
  <2> HIDE DEF t, d
  <2>6. s[1] = r /\ d = u
    BY <2>4, <2>5, DivUnique DEF u, r
  <2>7. Len(b) <= n - 1 /\ (Len(b) = n - 1 => b = SubSeq(t, 1, n - 1))
    <3>1. n - 1 \in Nat
      BY <2>1, <2>2
    <3> QED BY <1>4, <2>3, <2>6, <3>1 DEF d
  <2>8. ASSUME Len(a) = n PROVE a = SubSeq(s, 1, n)
    <3>1. Len(b) = n - 1 /\ b = SubSeq(t, 1, n - 1)
      BY <1>6, <1>7, <2>1, <2>7, <2>8
    <3>2. 0 \in 0 .. Len(s) /\ n \in 0 .. Len(s) /\ 0 \in 0 .. Len(t)
          /\ n - 1 \in 0 .. Len(t) /\ 0 + 1 = 1 /\ Len(t) \in Nat
      <4>1. Len(t) \in Nat
        BY <2>3, LenProperties
      <4> QED BY <2>1, <2>3, <4>1
    <3>3. /\ SubSeq(s, 0 + 1, n) \in Seq(Octet) /\ Len(SubSeq(s, 0 + 1, n)) = n - 0
          /\ \A k \in 1 .. n - 0 : SubSeq(s, 0 + 1, n)[k] = s[0 + k]
      BY <2>1, <3>2, SubSeqFacts
    <3>4. /\ SubSeq(t, 0 + 1, n - 1) \in Seq(Octet)
          /\ \A k \in 1 .. (n - 1) - 0 : SubSeq(t, 0 + 1, n - 1)[k] = t[0 + k]
      <4>1. n - 1 \in 0 .. Len(t)
        BY <3>2
      <4> DEFINE m == n - 1
      <4>2. m \in 0 .. Len(t)
        BY <4>1
      <4> HIDE DEF m
      <4>3. /\ SubSeq(t, 0 + 1, m) \in Seq(Octet)
            /\ \A k \in 1 .. m - 0 : SubSeq(t, 0 + 1, m)[k] = t[0 + k]
        BY <2>3, <3>2, <4>2, SubSeqFacts
      <4> QED BY <4>3 DEF m
    <3> DEFINE w == SubSeq(s, 1, n)
    <3>5. w \in Seq(Octet) /\ Len(w) = n /\ \A k \in 1 .. n : w[k] = s[k]
      BY <2>1, <3>2, <3>3
    <3>6. \A k \in 1 .. n - 1 : b[k] = t[k]
      BY <2>1, <3>1, <3>2, <3>4
    <3>7. \A k \in 1 .. Len(t) : s[k + 1] = t[k]
      <4>1. \A k \in 1 .. Len(t) : (<<s[1]>> \o t)[k + 1] = t[k]
        BY <2>3, <3>2, FirstGroup
      <4> QED BY <2>3, <4>1
    <3> HIDE DEF w
    <3>8. ASSUME NEW k \in 1 .. n PROVE a[k] = w[k]
      <4>1. CASE k = 1
        BY <1>7, <2>6, <3>5, <4>1
      <4>2. CASE k # 1
        <5>1. k - 1 \in 1 .. n - 1 /\ k - 1 \in 1 .. Len(t) /\ (k - 1) + 1 = k
              /\ k - 1 \in 1 .. Len(b)
          BY <2>1, <3>1, <3>2, <4>2
        <5>2. a[(k - 1) + 1] = b[k - 1] /\ b[k - 1] = t[k - 1] /\ s[(k - 1) + 1] = t[k - 1]
          BY <1>7, <3>6, <3>7, <5>1
        <5> QED BY <3>5, <5>1, <5>2
      <4> QED BY <4>1, <4>2
    <3> QED BY <1>7, <2>8, <3>5, <3>8, SeqEqual DEF w
  <2>9. Len(a) <= n
    BY <1>6, <1>7, <2>1, <2>7
  <2> QED BY <2>8, <2>9
<1> QED BY <1>7, <1>8, <1>9, <1>10 DEF Shortest, a, r

(* What is appended for a value is its shortest encoding.                   *)
LEMMA AppendedIsShortest ==
  ASSUME NEW v \in Nat
  PROVE  Shortest(AppendCompressedInt(v), v)
<1> DEFINE Bad == {x \in Nat : ~Shortest(AppendCompressedInt(x), x)}
<1>1. SUFFICES ASSUME Bad # {} PROVE FALSE
  OBVIOUS
<1>2. PICK x \in Bad : \A y \in Bad : x <= y
  <2>1. Bad \subseteq Nat
    OBVIOUS
  <2> QED BY <1>1, <2>1, NatMin
<1>3. x \in Nat /\ ~Shortest(AppendCompressedInt(x), x) /\ Radix \in Nat
  BY <1>2, RadixFacts
<1>4. CASE ~(x >= Radix)
  <2>1. x \in 0 .. Radix - 1
    BY <1>3, <1>4
  <2> QED BY <1>3, <1>4, <2>1, AppendUnfold, ShortestOfOne
<1>5. CASE x >= Radix
  <2> DEFINE u == x \div Radix
  <2>1. u \in Nat /\ u < x
    BY <1>3, <1>5, RadixDivides
  <2>2. ~(x <= u)
    <3> HIDE DEF u
    <3> QED BY <1>3, <2>1
  <2>3. Shortest(AppendCompressedInt(u), u)
    <3> HIDE DEF u
    <3> QED BY <1>2, <2>1, <2>2
  <2> QED BY <1>3, <1>5, <2>3, AppendUnfold, ShortestOfMore
<1> QED BY <1>4, <1>5

(* What is appended for a value that was read reads as that value and is    *)
(* the shortest that does (AppendedIsTheShortest).                          *)
THEOREM AppendedIsNeverLonger == FeedSpec => []AppendedIsTheShortest
<1>1. FeedTypeOK => AppendedIsTheShortest
  <2> SUFFICES ASSUME FeedTypeOK, result.err = "nil" PROVE AppendedIsTheShortest
    BY DEF AppendedIsTheShortest
  <2>1. PICK n \in 1 .. MaxCompressedIntLen : Ends(bytes, n) /\ Denoted(bytes)[n] < Values
    BY ReadOnlyEnds DEF FeedTypeOK, result
  <2> DEFINE v == Denoted(bytes)[n]
             a == AppendCompressedInt(v)
  <2>2. n \in Nat /\ n <= MaxCompressedIntLen /\ MaxCompressedIntLen \in Nat
    BY CompressedIntAssumption
  <2>3. result = [err |-> "nil", value |-> v, length |-> n]
    BY <2>1, <2>2, ReadEnds DEF FeedTypeOK, result
  <2>4. v \in Nat /\ n \in 1 .. Len(bytes)
    <3>1. n \in 1 .. Len(bytes)
      BY <2>1 DEF Ends
    <3> QED BY <2>2, <3>1, WidthOfGroups DEF FeedTypeOK
  <2>5. Shortest(a, v)
    <3> HIDE DEF v
    <3> QED BY <2>4, AppendedIsShortest
  <2> HIDE DEF v, a
  <2>6. a \in Seq(Octet) /\ Ends(a, Len(a)) /\ Denoted(a)[Len(a)] = v /\ Len(a) \in Nat
    BY <2>5, LenProperties DEF Shortest
  <2>7. Len(a) <= n /\ (Len(a) = n => a = SubSeq(bytes, 1, n))
    BY <2>1, <2>2, <2>5 DEF Shortest, FeedTypeOK, v
  <2>8. ReadCompressedInt(a) = [err |-> "nil", value |-> v, length |-> Len(a)]
    <3>1. Len(a) <= MaxCompressedIntLen
      BY <2>2, <2>6, <2>7
    <3>2. Denoted(a)[Len(a)] < Values
      BY <2>1, <2>6 DEF v
    <3> QED BY <2>6, <3>1, <3>2, ReadEnds
  <2>9. a = SubSeq(bytes, 1, n) => Len(a) = n
    <3>1. bytes \in Seq(Octet) /\ 0 \in 0 .. Len(bytes) /\ n \in 0 .. Len(bytes) /\ 0 + 1 = 1
          /\ n - 0 = n
      BY <2>2, <2>4, LenProperties DEF FeedTypeOK
    <3>2. Len(SubSeq(bytes, 0 + 1, n)) = n - 0
      BY <3>1, SubSeqFacts
    <3> QED BY <3>1, <3>2
  <2> QED BY <2>3, <2>7, <2>8, <2>9 DEF AppendedIsTheShortest, a
<1> QED BY <1>1, FeedIsTyped, PTL

----------------------------------------------------------------------------
(* The header: reading and writing it back *)

(* c covers w: the same octets, or padded integers that make it longer      *)
(* than w.                                                                  *)
Covers(c, w) == Octets(w) = Octets(c) \/ (Padded(c) /\ Len(w) < Len(c))

(* The fields of a header, as far as they have been read.                   *)
Fields ==
  [detached : BOOLEAN, ckType : Nat, headerSize : Nat, checksum : Seq(Unit),
   dataChecksum : Seq(Unit), flags : Nat, compression : Nat,
   optional : Seq(Element),
   optCount : Nat, optId : Nat, optSize : Nat,
   chunkType : Nat, count : Nat,
   chunks : Seq(Entry),
   digest : Seq(Unit), uDigest : Seq(Unit), compLength : Nat]

(* What a reader leaves behind.                                             *)
Outcome ==
  [accepted : {FALSE}]
    \cup [accepted : {TRUE}, fields : Fields, bodyOffset : Nat, read : Seq(Unit)]

(* The fields of the parts of a header, in the order they are read.         *)
LeadPcs    == {"magic", "ckType", "headerSize", "checksum", "header"}
PlainPcs   == {"dataChecksum", "flags", "compression", "optCount"}
ElementPcs == {"optId", "optSize", "optData"}
CountPcs   == {"chunkType", "count"}
EntryPcs   == {"digest", "uDigest", "compLength", "length"}
PrefacePcs == PlainPcs \cup ElementPcs \cup {"indexSize"}
IndexPcs   == CountPcs \cup EntryPcs \cup {"entries"}

(* The types of the variables.                                              *)
HeaderTypeOK ==
  /\ file.units \in Seq(Unit) /\ turn \in 1 .. 3
  /\ pc \in LeadPcs \cup PrefacePcs \cup IndexPcs \cup {"sigCount", "done"}
  /\ src \in Seq(Unit) /\ pos \in Nat /\ end \in Nat /\ pos <= end /\ end <= Len(src)
  /\ h \in Fields /\ leadLen \in Nat
  /\ pc \notin {"magic", "ckType", "done"} => h.ckType \in DOMAIN DigestSize
  /\ results \in Seq(Outcome)
  /\ pc \in LeadPcs => end = Len(src)

(* The preface starts behind the lead in the stream, and at 0 in the part   *)
(* of the header that the others fetch.                                     *)
base == IF reader = "stream" THEN leadLen ELSE 0

(* An optional element, an entry of the index and the sequences of them,    *)
(* as they are written.                                                     *)
ElementBytes(e) == CInt(e.id) \o CInt(Len(e.data)) \o e.data
OptionalBytes(o) == FlattenSeq([k \in DOMAIN o |-> ElementBytes(o[k])])

EntryBytes(e) == e.digest \o e.uDigest \o CInt(e.compLength) \o CInt(e.length)
ChunkBytes(c) == FlattenSeq([k \in DOMAIN c |-> EntryBytes(c[k])])

(* The preface, as it is written for the fields of g.                       *)
Plains(g) == g.dataChecksum \o CInt(g.flags) \o CInt(g.compression)

Preface(g) ==
  Plains(g)
    \o IF Has(g.flags, OptionalElements)
       THEN CInt(g.optCount) \o OptionalBytes(g.optional) ELSE <<>>

(* What is written in front of field f of the preface.                      *)
PrefacePart(f, g) ==
  CASE f = "dataChecksum" -> <<>>
    [] f = "flags"        -> g.dataChecksum
    [] f = "compression"  -> g.dataChecksum \o CInt(g.flags)
    [] f = "optCount"     -> Plains(g)
    [] f = "optId"        -> Preface(g)
    [] f = "optSize"      -> Preface(g) \o CInt(g.optId)
    [] f = "optData"      -> Preface(g) \o CInt(g.optId) \o CInt(g.optSize)
    [] f = "indexSize"    -> Preface(g)

(* What is written in front of field f of the index.                        *)
Entries(g) == CInt(g.chunkType) \o CInt(g.count) \o ChunkBytes(g.chunks)
UDigest(g) == IF Has(g.flags, UncompressedSource) THEN g.uDigest ELSE <<>>

IndexPart(f, g) ==
  CASE f = "chunkType"  -> <<>>
    [] f = "count"      -> CInt(g.chunkType)
    [] f = "digest"     -> Entries(g)
    [] f = "uDigest"    -> Entries(g) \o g.digest
    [] f = "compLength" -> Entries(g) \o g.digest \o UDigest(g)
    [] f = "length"     -> Entries(g) \o g.digest \o UDigest(g) \o CInt(g.compLength)
    [] f = "entries"    -> Entries(g)

(* What the place in the header says about the lists read so far.           *)
Elements ==
  /\ pc \in LeadPcs \cup PlainPcs => h.optional = <<>>
  /\ pc \in LeadPcs \cup PrefacePcs \cup CountPcs => h.chunks = <<>>
  /\ pc \in ElementPcs \cup {"optCount"} => Has(h.flags, OptionalElements)
  /\ pc \in ElementPcs => Len(h.optional) < h.optCount
  /\ pc \in IndexPcs \cup {"indexSize", "sigCount"} =>
       IF Has(h.flags, OptionalElements) THEN Len(h.optional) = h.optCount
         ELSE h.optional = <<>>
  /\ pc = "uDigest" => Has(h.flags, UncompressedSource)
  /\ pc = "sigCount" => h.count = Len(h.chunks)
  /\ pc = "entries" => pos = end

(* A chunk's digests have the size of their type.                           *)
ChunkFits(g, c) ==
  /\ Len(c.digest) = DigestSize[g.chunkType]
  /\ IF Has(g.flags, UncompressedSource) THEN Len(c.uDigest) = DigestSize[g.chunkType]
     ELSE c.uDigest = <<>>

(* The values that have been validated.                                     *)
ValuesOK ==
  /\ pc \in {"compression", "optCount", "indexSize", "sigCount"}
             \cup ElementPcs \cup IndexPcs =>
       h.flags \in knownFlags
  /\ pc \in {"optCount", "indexSize", "sigCount"} \cup ElementPcs \cup IndexPcs =>
       h.compression \in CompressionTypes
  /\ pc \in {"count", "entries", "sigCount"} \cup EntryPcs => h.chunkType \in DOMAIN DigestSize
  /\ pc \in {"uDigest", "compLength", "length"} => Len(h.digest) = DigestSize[h.chunkType]
  /\ pc \in {"compLength", "length"} =>
       (Has(h.flags, UncompressedSource) => Len(h.uDigest) = DigestSize[h.chunkType])
  /\ \A k \in DOMAIN h.chunks : ChunkFits(h, h.chunks[k])

(* c covers the integer v, and is long enough for every smaller value.      *)
SizeCovers(c, v) == Covers(c, CInt(v)) /\ \A n \in 0 .. v : Len(CInt(n)) <= Len(c)

(* The inductive part: what has been read since the preface started         *)
(* covers what is written for the fields read so far. In the index, the     *)
(* preface, the size of the index and the index each cover their own        *)
(* part, so that the size can still be compared with the index once that    *)
(* is complete.                                                             *)
ReadSoFar ==
  /\ pc \in PrefacePcs \cup IndexPcs \cup {"sigCount"} => base <= pos
  /\ pc \in PrefacePcs => Covers(SubSeq(src, base + 1, pos), PrefacePart(pc, h))
     /\ end = Len(src)
  /\ pc \in IndexPcs =>
       \E a \in base .. pos : \E b \in a .. pos :
         /\ Covers(SubSeq(src, base + 1, a), Preface(h))
         /\ SizeCovers(SubSeq(src, a + 1, b), end - b)
         /\ Covers(SubSeq(src, b + 1, pos), IndexPart(pc, h))
  /\ pc = "sigCount" => Covers(SubSeq(src, base + 1, pos), Preface(h) \o IndexBytes(h))
     /\ end = Len(src)

(* NothingIsLostInReading of one result.                                    *)
ReadBack(r) ==
  r.accepted =>
      LET x == r.fields
      IN  \/ ~Writable(x) /\ EmptyOptional(x)
          \/ Writable(x) /\ Octets(HeaderBody(x)) = Octets(r.read)
          \/ Writable(x) /\ Padded(r.read) /\ Len(HeaderBody(x)) < Len(r.read)

(* The inductive invariant.                                                 *)
ReadInv ==
  /\ HeaderTypeOK /\ Elements /\ ValuesOK /\ ReadSoFar
  /\ \A k \in DOMAIN results : ReadBack(results[k])

----------------------------------------------------------------------------
(* What covers what *)

(* The octets of units.                                                     *)
LEMMA OctetsFacts ==
  ASSUME NEW u \in Seq(Unit)
  PROVE  /\ Octets(u) \in Seq(Octet) /\ Len(Octets(u)) = Len(u) /\ Len(u) \in Nat
         /\ \A k \in 1 .. Len(u) : u[k] \in Unit /\ Octets(u)[k] = u[k].octet
<1>1. Len(u) \in Nat /\ \A k \in 1 .. Len(u) : u[k] \in Unit
  BY LenProperties, ElementOfSeq
<1>2. \A k \in 1 .. Len(u) : u[k].octet \in Octet
  BY <1>1 DEF Unit
<1>3. Octets(u) = [k \in 1 .. Len(u) |-> u[k].octet]
  BY LenProperties DEF Octets
<1> QED BY <1>1, <1>2, <1>3

(* Octets as units.                                                         *)
LEMMA PlainFacts ==
  ASSUME NEW s \in Seq(Octet)
  PROVE  /\ Plain(s) \in Seq(Unit) /\ Len(Plain(s)) = Len(s)
         /\ Octets(Plain(s)) = s
<1>1. Len(s) \in Nat /\ \A k \in 1 .. Len(s) : s[k] \in Octet
  BY LenProperties, ElementOfSeq
<1>2. Plain(s) = [k \in 1 .. Len(s) |-> [octet |-> s[k], tag |-> 0]]
  BY LenProperties DEF Plain
<1>3. \A k \in 1 .. Len(s) : [octet |-> s[k], tag |-> 0] \in Unit
  BY <1>1 DEF Unit
<1>4. Plain(s) \in Seq(Unit) /\ Len(Plain(s)) = Len(s)
  BY <1>1, <1>2, <1>3
<1>5. \A k \in 1 .. Len(s) : Plain(s)[k].octet = s[k]
  BY <1>2
<1>6. Octets(Plain(s)) = s
  BY <1>1, <1>4, <1>5, OctetsFacts, SeqEqual
<1> QED BY <1>4, <1>6

(* An integer as it is written: the shortest octets that denote it.         *)
LEMMA CIntFacts ==
  ASSUME NEW v \in Nat
  PROVE  /\ CInt(v) \in Seq(Unit) /\ Octets(CInt(v)) = AppendCompressedInt(v)
         /\ Len(CInt(v)) = Len(AppendCompressedInt(v)) /\ Len(CInt(v)) \in Nat
         /\ Shortest(AppendCompressedInt(v), v) /\ Len(CInt(v)) >= 1
<1>1. Shortest(AppendCompressedInt(v), v)
  BY AppendedIsShortest
<1>2. AppendCompressedInt(v) \in Seq(Octet)
      /\ Ends(AppendCompressedInt(v), Len(AppendCompressedInt(v)))
  BY <1>1 DEF Shortest
<1>3. Len(AppendCompressedInt(v)) \in Nat /\ Len(AppendCompressedInt(v)) >= 1
  BY <1>2, LenProperties DEF Ends
<1> QED BY <1>1, <1>2, <1>3, PlainFacts DEF CInt

(* The octets of two parts that follow each other.                          *)
LEMMA OctetsConcat ==
  ASSUME NEW u \in Seq(Unit), NEW w \in Seq(Unit)
  PROVE  /\ u \o w \in Seq(Unit) /\ Len(u \o w) = Len(u) + Len(w)
         /\ Octets(u \o w) = Octets(u) \o Octets(w)
<1>1. /\ u \o w \in Seq(Unit) /\ Len(u \o w) = Len(u) + Len(w)
      /\ \A k \in 1 .. Len(u) + Len(w) :
           (u \o w)[k] = IF k <= Len(u) THEN u[k] ELSE w[k - Len(u)]
  BY ConcatProperties
<1> DEFINE l == Octets(u \o w)
           r == Octets(u) \o Octets(w)
<1>2. l \in Seq(Octet) /\ Len(l) = Len(u) + Len(w)
      /\ \A k \in 1 .. Len(u) + Len(w) : l[k] = (u \o w)[k].octet
  <2> DEFINE c == u \o w
  <2>1. c \in Seq(Unit) /\ Len(c) = Len(u) + Len(w)
    BY <1>1
  <2> HIDE DEF c
  <2>2. Octets(c) \in Seq(Octet) /\ Len(Octets(c)) = Len(u) + Len(w)
        /\ \A k \in 1 .. Len(u) + Len(w) : Octets(c)[k] = c[k].octet
    BY <2>1, OctetsFacts
  <2> QED BY <2>2 DEF c
<1>3. r \in Seq(Octet) /\ Len(r) = Len(u) + Len(w)
      /\ \A k \in 1 .. Len(u) + Len(w) :
           r[k] = IF k <= Len(u) THEN Octets(u)[k] ELSE Octets(w)[k - Len(u)]
  <2> DEFINE x == Octets(u)
             y == Octets(w)
  <2>1. x \in Seq(Octet) /\ y \in Seq(Octet) /\ Len(x) = Len(u) /\ Len(y) = Len(w)
    BY OctetsFacts
  <2> HIDE DEF x, y
  <2>2. /\ x \o y \in Seq(Octet) /\ Len(x \o y) = Len(u) + Len(w)
        /\ \A k \in 1 .. Len(u) + Len(w) :
             (x \o y)[k] = IF k <= Len(u) THEN x[k] ELSE y[k - Len(u)]
    <3>1. /\ x \o y \in Seq(Octet) /\ Len(x \o y) = Len(x) + Len(y)
          /\ \A k \in 1 .. Len(x) + Len(y) :
               (x \o y)[k] = IF k <= Len(x) THEN x[k] ELSE y[k - Len(x)]
      BY <2>1, ConcatProperties
    <3> QED BY <2>1, <3>1
  <2> QED BY <2>2 DEF x, y
<1>4. ASSUME NEW k \in 1 .. Len(u) + Len(w) PROVE l[k] = r[k]
  <2>1. CASE k <= Len(u)
    <3>1. k \in 1 .. Len(u)
      BY <2>1, OctetsFacts
    <3> HIDE DEF l, r
    <3> QED BY <1>1, <1>2, <1>3, <2>1, <3>1, OctetsFacts
  <2>2. CASE ~(k <= Len(u))
    <3>1. k - Len(u) \in 1 .. Len(w)
      BY <2>2, OctetsFacts
    <3> HIDE DEF l, r
    <3>2. l[k] = w[k - Len(u)].octet
      BY <1>1, <1>2, <2>2
    <3>3. r[k] = Octets(w)[k - Len(u)]
      BY <1>3, <2>2
    <3> QED BY <3>1, <3>2, <3>3, OctetsFacts
  <2> QED BY <2>1, <2>2
<1> HIDE DEF l, r
<1>5. l = r
  BY <1>2, <1>3, <1>4, SeqEqual
<1> QED BY <1>1, <1>5 DEF l, r

(* A padded part makes the whole padded.                                    *)
LEMMA PaddedConcat ==
  ASSUME NEW u \in Seq(Unit), NEW w \in Seq(Unit), Padded(u) \/ Padded(w)
  PROVE  Padded(u \o w)
<1>1. /\ u \o w \in Seq(Unit) /\ Len(u \o w) = Len(u) + Len(w) /\ Len(u) \in Nat
         /\ Len(w) \in Nat
      /\ \A k \in 1 .. Len(u) + Len(w) :
           (u \o w)[k] = IF k <= Len(u) THEN u[k] ELSE w[k - Len(u)]
  BY ConcatProperties, LenProperties
<1> DEFINE c == u \o w
<1>2. CASE Padded(u)
  <2>1. PICK k \in 2 .. Len(u) : u[k].octet = Radix /\ ~Final(u[k - 1].octet)
    BY <1>2 DEF Padded
  <2>2. k \in 2 .. Len(c) /\ c[k] = u[k] /\ c[k - 1] = u[k - 1]
    BY <1>1, <2>1
  <2> HIDE DEF c
  <2> QED BY <2>1, <2>2 DEF Padded, c
<1>3. CASE Padded(w)
  <2>1. PICK k \in 2 .. Len(w) : w[k].octet = Radix /\ ~Final(w[k - 1].octet)
    BY <1>3 DEF Padded
  <2> DEFINE n == Len(u) + k
  <2>2. n \in 2 .. Len(c) /\ c[n] = w[k] /\ c[n - 1] = w[k - 1]
    <3>1. n \in 1 .. Len(u) + Len(w) /\ n - 1 \in 1 .. Len(u) + Len(w)
          /\ ~(n <= Len(u)) /\ ~(n - 1 <= Len(u)) /\ n - Len(u) = k /\ (n - 1) - Len(u) = k - 1
          /\ n >= 2
      BY <1>1, <2>1
    <3> HIDE DEF n
    <3>2. c[n] = w[k]
      BY <1>1, <3>1
    <3>3. c[n - 1] = w[k - 1]
      BY <1>1, <3>1
    <3>4. n \in 2 .. Len(c)
      BY <1>1, <3>1
    <3> QED BY <3>2, <3>3, <3>4
  <2> HIDE DEF c, n
  <2> QED BY <2>1, <2>2 DEF Padded, c
<1> QED BY <1>2, <1>3

(* What covers two parts covers them together.                              *)
LEMMA CoversConcat ==
  ASSUME NEW c \in Seq(Unit), NEW w \in Seq(Unit), Covers(c, w),
         NEW d \in Seq(Unit), NEW x \in Seq(Unit), Covers(d, x)
  PROVE  Covers(c \o d, w \o x)
<1>1. /\ Len(c \o d) = Len(c) + Len(d) /\ Len(w \o x) = Len(w) + Len(x)
      /\ Octets(c \o d) = Octets(c) \o Octets(d) /\ Octets(w \o x) = Octets(w) \o Octets(x)
      /\ Len(c) \in Nat /\ Len(d) \in Nat /\ Len(w) \in Nat /\ Len(x) \in Nat
  BY OctetsConcat, OctetsFacts
<1>2. CASE Octets(w) = Octets(c) /\ Octets(x) = Octets(d)
  BY <1>1, <1>2 DEF Covers
<1>3. Len(w) <= Len(c) /\ Len(x) <= Len(d)
  <2>1. Len(Octets(c)) = Len(c) /\ Len(Octets(d)) = Len(d) /\ Len(Octets(w)) = Len(w)
        /\ Len(Octets(x)) = Len(x)
    BY OctetsFacts
  <2> QED BY <1>1, <2>1 DEF Covers
<1>4. CASE (Padded(c) /\ Len(w) < Len(c)) \/ (Padded(d) /\ Len(x) < Len(d))
  <2>1. Padded(c \o d)
    BY <1>4, PaddedConcat
  <2>2. Len(w \o x) < Len(c \o d)
    BY <1>1, <1>3, <1>4
  <2> QED BY <2>1, <2>2 DEF Covers
<1> QED BY <1>2, <1>4 DEF Covers

(* The length of an integer, group by group.                                *)
LEMMA LengthOfCInt ==
  ASSUME NEW n \in Nat
  PROVE  Len(CInt(n)) = IF n >= Radix THEN 1 + Len(CInt(n \div Radix)) ELSE 1
<1>1. Radix \in Nat /\ Radix >= 2
  BY RadixFacts
<1>2. CASE n >= Radix
  <2> DEFINE q == n \div Radix
             b == n % Radix
             t == AppendCompressedInt(q)
  <2>1. q \in Nat /\ b \in Octet
    <3>1. q \in Nat /\ b \in 0 .. Radix - 1
      BY RadixDivides
    <3> HIDE DEF q, b
    <3> QED BY <1>1, <3>1 DEF Octet
  <2> HIDE DEF q
  <2>2. t \in Seq(Octet)
    BY <2>1, AppendUnfold
  <2> HIDE DEF b, t
  <2>3. Len(<<b>> \o t) = Len(t) + 1 /\ Len(t) \in Nat
    <3>1. 0 \in 0 .. Len(t) /\ Len(t) \in Nat
      BY <2>2, LenProperties
    <3> QED BY <2>1, <2>2, <3>1, FirstGroup
  <2>4. AppendCompressedInt(n) = <<b>> \o t
    BY <1>2, AppendUnfold DEF b, t, q
  <2>5. Len(CInt(n)) = Len(<<b>> \o t) /\ Len(CInt(q)) = Len(t)
    BY <2>1, <2>4, CIntFacts DEF t
  <2> QED BY <1>2, <2>3, <2>5 DEF q
<1>3. CASE ~(n >= Radix)
  <2>1. AppendCompressedInt(n) = <<n + Radix>>
    BY <1>3, AppendUnfold
  <2> QED BY <1>3, <2>1, CIntFacts
<1> QED BY <1>2, <1>3

(* A smaller value is never written with more octets.                       *)
LEMMA CIntGrows ==
  ASSUME NEW v \in Nat
  PROVE  \A u \in 0 .. v : Len(CInt(u)) <= Len(CInt(v))
<1> DEFINE Bad == {x \in Nat : \E u \in 0 .. x : ~(Len(CInt(u)) <= Len(CInt(x)))}
<1>1. SUFFICES ASSUME Bad # {} PROVE FALSE
  OBVIOUS
<1>2. PICK x \in Bad : \A y \in Bad : x <= y
  <2>1. Bad \subseteq Nat
    OBVIOUS
  <2> QED BY <1>1, <2>1, NatMin
<1>3. PICK u \in 0 .. x : ~(Len(CInt(u)) <= Len(CInt(x)))
  BY <1>2
<1>4. x \in Nat /\ u \in Nat /\ Radix \in Nat /\ Radix >= 2
  BY <1>2, <1>3, RadixFacts
<1>5. Len(CInt(u)) \in Nat /\ Len(CInt(x)) \in Nat /\ Len(CInt(x)) >= 1
  BY <1>4, CIntFacts
<1>6. \A n \in Nat : Len(CInt(n)) = IF n >= Radix THEN 1 + Len(CInt(n \div Radix)) ELSE 1
  BY LengthOfCInt
<1>7. CASE ~(u >= Radix)
  BY <1>3, <1>4, <1>5, <1>6, <1>7
<1>8. CASE u >= Radix
  <2> DEFINE q == u \div Radix
             p == x \div Radix
  <2>1. x >= Radix /\ q \in Nat /\ p \in Nat /\ p < x /\ q <= p
    <3>1. x >= Radix
      BY <1>3, <1>4, <1>8
    <3>2. q \in Nat /\ p \in Nat /\ p < x /\ u = Radix * q + (u % Radix)
          /\ x = Radix * p + (x % Radix)
          /\ u % Radix \in 0 .. Radix - 1 /\ x % Radix \in 0 .. Radix - 1
      BY <1>4, <3>1, RadixDivides
    <3> DEFINE a == u % Radix
               b == x % Radix
    <3> HIDE DEF q, p, a, b
    <3>3. q <= p
      <4> SUFFICES ASSUME p + 1 <= q PROVE FALSE
        BY <3>2
      <4>1. Radix * (p + 1) <= Radix * q /\ Radix * (p + 1) = Radix * p + Radix * 1
        BY <1>4, <3>2, Products
      <4>2. Radix * p \in Nat /\ Radix * q \in Nat /\ Radix * 1 = Radix
        BY <1>4, <3>2, Products
      <4>3. u = Radix * q + a /\ x = Radix * p + b /\ a \in 0 .. Radix - 1
            /\ b \in 0 .. Radix - 1
        BY <3>2 DEF a, b
      <4> DEFINE m == Radix * p
                 n == Radix * q
      <4>4. m + Radix <= n /\ u = n + a /\ x = m + b /\ m \in Nat /\ n \in Nat
        BY <4>1, <4>2, <4>3
      <4> HIDE DEF m, n
      <4> QED BY <1>3, <1>4, <4>3, <4>4
    <3> QED BY <3>1, <3>2, <3>3
  <2> HIDE DEF q, p
  <2>2. Len(CInt(q)) <= Len(CInt(p))
    <3>1. ~(x <= p) /\ q \in 0 .. p
      BY <1>4, <2>1
    <3> QED BY <1>2, <2>1, <3>1
  <2>3. Len(CInt(u)) = 1 + Len(CInt(q)) /\ Len(CInt(x)) = 1 + Len(CInt(p))
    BY <1>4, <1>6, <1>8, <2>1 DEF q, p
  <2>4. Len(CInt(q)) \in Nat /\ Len(CInt(p)) \in Nat
    BY <2>1, CIntFacts
  <2> QED BY <1>3, <2>2, <2>3, <2>4
<1> QED BY <1>7, <1>8

(* An integer that is longer than its value needs ends in a group of        *)
(* zeroes.                                                                  *)
LEMMA LongerIsPadded ==
  ASSUME NEW s \in Seq(Octet), NEW n \in Nat, Ends(s, n),
         NEW a \in Seq(Octet), Ends(a, Len(a)), Denoted(a)[Len(a)] = Denoted(s)[n], Len(a) < n
  PROVE  n >= 2 /\ s[n] = Radix /\ ~Final(s[n - 1])
<1> DEFINE m == Len(a)
           P == Powers(Radix)
<1>1. m \in Nat /\ m >= 1 /\ m \in 0 .. Len(a) /\ n \in 1 .. Len(s) /\ n >= 2 /\ n - 1 \in Nat
      /\ n - 1 \in 0 .. Len(s) /\ m <= n - 1 /\ Len(s) \in Nat /\ n - 1 \in 1 .. n - 1
  BY LenProperties DEF Ends
<1> DEFINE q == Payload(s[n])
           x == P[n - 1]
           d == Denoted(s)[n - 1]
           v == Denoted(s)[n]
<1>2. s[n] \in Octet /\ Final(s[n]) /\ ~Final(s[n - 1])
  BY <1>1, GroupIsNat DEF Ends
<1>3. q \in Nat /\ s[n] = q + Radix /\ Radix \in Nat
  <2>1. q \in 0 .. Radix - 1 /\ s[n] = q + Radix
    BY <1>2, OctetFacts
  <2> QED BY <2>1, RadixFacts
<1>4. x \in Nat \ {0} /\ d \in Nat /\ v = d + q * x
  BY <1>1, RadixFacts, DenotedFacts
<1>5. v < P[m]
  <2>1. Denoted(a)[m] < P[m]
    BY <1>1, DenotedBound
  <2> QED BY <2>1
<1>6. P[m] <= x /\ P[m] \in Nat
  <2> HIDE DEF m
  <2> QED BY <1>1, RadixFacts
<1> HIDE DEF q, x, d, v, m
<1>7. q = 0
  <2> SUFFICES ASSUME q >= 1 PROVE FALSE
    BY <1>3
  <2>1. x * 1 <= x * q /\ x * q = q * x /\ q * x \in Nat
    BY <1>3, <1>4, Products
  <2> DEFINE z == q * x
             y == P[m]
  <2>2. x <= z /\ z \in Nat /\ v = d + z /\ v < y /\ y <= x /\ y \in Nat
    BY <1>4, <1>5, <1>6, <2>1
  <2> HIDE DEF z, y
  <2> QED BY <1>4, <2>2
<1> QED BY <1>1, <1>2, <1>3, <1>7

(* An integer that is read from the front of u covers what is written for   *)
(* it, and for every smaller value it is long enough.                       *)
LEMMA IntRead ==
  ASSUME NEW u \in Seq(Unit), NEW r, r = ReadCompressedInt(Octets(u)), r.err = "nil"
  PROVE  /\ r.length \in 1 .. Len(u) /\ r.value \in Nat /\ r.length \in Nat
         /\ SubSeq(u, 1, r.length) \in Seq(Unit)
         /\ Len(SubSeq(u, 1, r.length)) = r.length
         /\ SizeCovers(SubSeq(u, 1, r.length), r.value)
<1> DEFINE s == Octets(u)
<1>1. s \in Seq(Octet) /\ Len(s) = Len(u) /\ Len(u) \in Nat
      /\ \A k \in 1 .. Len(u) : u[k] \in Unit /\ s[k] = u[k].octet
  BY OctetsFacts
<1>2. PICK n \in 1 .. MaxCompressedIntLen : Ends(s, n) /\ Denoted(s)[n] < Values
  BY <1>1, ReadOnlyEnds
<1> DEFINE v == Denoted(s)[n]
           a == AppendCompressedInt(v)
           c == SubSeq(u, 1, n)
<1> HIDE DEF s
<1>3. n \in Nat /\ n <= MaxCompressedIntLen /\ n \in 1 .. Len(u)
  BY <1>1, <1>2, CompressedIntAssumption DEF Ends
<1>4. r = [err |-> "nil", value |-> v, length |-> n]
  BY <1>1, <1>2, <1>3, ReadEnds DEF s
<1>5. v \in Nat
  BY <1>1, <1>3, WidthOfGroups
<1> HIDE DEF v
<1>6. /\ a \in Seq(Octet) /\ Ends(a, Len(a)) /\ Denoted(a)[Len(a)] = v
      /\ Len(a) <= n /\ (Len(a) = n => a = SubSeq(s, 1, n))
      /\ CInt(v) \in Seq(Unit) /\ Octets(CInt(v)) = a /\ Len(CInt(v)) = Len(a) /\ Len(a) \in Nat
  <2>1. Shortest(a, v)
    BY <1>5, CIntFacts
  <2>2. Len(a) <= n /\ (Len(a) = n => a = SubSeq(s, 1, n))
    BY <1>1, <1>2, <1>3, <2>1 DEF Shortest, v
  <2> QED BY <1>5, <2>1, <2>2, CIntFacts DEF Shortest
<1> HIDE DEF a
<1>7. c \in Seq(Unit) /\ Len(c) = n /\ \A k \in 1 .. n : c[k] = u[k]
  <2>1. n \in 0 .. Len(u) /\ 0 \in 0 .. Len(u) /\ 0 + 1 = 1 /\ n - 0 = n /\ n \in 0 .. Len(u)
    BY <1>1, <1>3
  <2>2. /\ SubSeq(u, 0 + 1, n) \in Seq(Unit) /\ Len(SubSeq(u, 0 + 1, n)) = n - 0
        /\ \A k \in 1 .. n - 0 : SubSeq(u, 0 + 1, n)[k] = u[0 + k]
    BY <2>1, SubSeqFacts
  <2> QED BY <1>3, <2>1, <2>2
<1> HIDE DEF c
<1>8. SubSeq(s, 1, n) = Octets(c)
  <2>1. n \in 0 .. Len(s) /\ 0 \in 0 .. Len(s) /\ 0 + 1 = 1 /\ n - 0 = n
    BY <1>1, <1>3
  <2>2. /\ SubSeq(s, 0 + 1, n) \in Seq(Octet) /\ Len(SubSeq(s, 0 + 1, n)) = n - 0
        /\ \A k \in 1 .. n - 0 : SubSeq(s, 0 + 1, n)[k] = s[0 + k]
    BY <1>1, <2>1, SubSeqFacts
  <2>3. Octets(c) \in Seq(Octet) /\ Len(Octets(c)) = n
        /\ \A k \in 1 .. n : Octets(c)[k] = c[k].octet
    BY <1>7, OctetsFacts
  <2>4. \A k \in 1 .. n : SubSeq(s, 1, n)[k] = Octets(c)[k]
    BY <1>1, <1>3, <1>7, <2>2, <2>3
  <2>5. SubSeq(s, 1, n) \in Seq(Octet) /\ Len(SubSeq(s, 1, n)) = n
    BY <2>1, <2>2
  <2> QED BY <2>3, <2>4, <2>5, SeqEqual
<1>9. Covers(c, CInt(v))
  <2>1. CASE Len(a) = n
    BY <1>6, <1>8, <2>1 DEF Covers
  <2>2. CASE Len(a) < n
    <3>1. n >= 2 /\ s[n] = Radix /\ ~Final(s[n - 1])
      BY <1>1, <1>2, <1>3, <1>6, <2>2, LongerIsPadded DEF v
    <3>2. n \in 2 .. Len(c) /\ c[n].octet = Radix /\ ~Final(c[n - 1].octet)
      BY <1>1, <1>3, <1>7, <3>1
    <3> QED BY <1>6, <1>7, <2>2, <3>2 DEF Covers, Padded
  <2> QED BY <1>3, <1>6, <2>1, <2>2
<1>10. SizeCovers(c, v)
  <2> SUFFICES ASSUME NEW k \in 0 .. v PROVE Len(CInt(k)) <= Len(c)
    BY <1>9 DEF SizeCovers
  <2>1. Len(CInt(k)) <= Len(CInt(v)) /\ Len(CInt(k)) \in Nat
    <3>1. k \in Nat
      BY <1>5
    <3>2. Len(CInt(k)) <= Len(CInt(v))
      BY <1>5, CIntGrows
    <3> QED BY <3>1, <3>2, CIntFacts
  <2> QED BY <1>3, <1>6, <1>7, <2>1
<1> QED BY <1>1, <1>3, <1>4, <1>5, <1>7, <1>10 DEF c

(* A stretch that covers w, and the next one, which covers x.               *)
LEMMA CoversMore ==
  ASSUME NEW s \in Seq(Unit), NEW a \in Nat, NEW p \in Nat, NEW q \in Nat, a <= p, p <= q,
         q <= Len(s),
         NEW w \in Seq(Unit), Covers(SubSeq(s, a + 1, p), w),
         NEW x \in Seq(Unit), Covers(SubSeq(s, p + 1, q), x)
  PROVE  w \o x \in Seq(Unit) /\ Covers(SubSeq(s, a + 1, q), w \o x)
<1>1. a \in 0 .. Len(s) /\ p \in a .. Len(s) /\ q \in p .. Len(s) /\ p \in 0 .. Len(s)
  BY LenProperties
<1>2. SubSeq(s, a + 1, p) \in Seq(Unit) /\ SubSeq(s, p + 1, q) \in Seq(Unit)
  BY <1>1, SubSeqFacts
<1>3. SubSeq(s, a + 1, p) \o SubSeq(s, p + 1, q) = SubSeq(s, a + 1, q)
  BY <1>1, Joined
<1>4. Covers(SubSeq(s, a + 1, p) \o SubSeq(s, p + 1, q), w \o x)
  BY <1>2, CoversConcat
<1> QED BY <1>3, <1>4, OctetsConcat

(* An optional element as units.                                            *)
LEMMA ElementTyped ==
  ASSUME NEW e \in Element
  PROVE  ElementBytes(e) \in Seq(Unit)
<1>1. e.id \in Nat /\ e.data \in Seq(Unit) /\ Len(e.data) \in Nat
  BY LenProperties DEF Element
<1>2. CInt(e.id) \in Seq(Unit) /\ CInt(Len(e.data)) \in Seq(Unit)
  BY <1>1, CIntFacts
<1>3. CInt(e.id) \o CInt(Len(e.data)) \in Seq(Unit)
  BY <1>2, OctetsConcat
<1> QED BY <1>1, <1>3, OctetsConcat DEF ElementBytes

(* A chunk's entry as units.                                                *)
LEMMA EntryTyped ==
  ASSUME NEW e \in Entry
  PROVE  EntryBytes(e) \in Seq(Unit)
<1>1. e.digest \in Seq(Unit) /\ e.uDigest \in Seq(Unit) /\ e.compLength \in Nat
      /\ e.length \in Nat
  BY DEF Entry
<1>2. CInt(e.compLength) \in Seq(Unit) /\ CInt(e.length) \in Seq(Unit)
  BY <1>1, CIntFacts
<1>3. e.digest \o e.uDigest \in Seq(Unit)
  BY <1>1, OctetsConcat
<1>4. e.digest \o e.uDigest \o CInt(e.compLength) \in Seq(Unit)
  BY <1>2, <1>3, OctetsConcat
<1> QED BY <1>2, <1>4, OctetsConcat DEF EntryBytes

(* The optional elements with one more.                                     *)
LEMMA OptionalAppended ==
  ASSUME NEW o \in Seq(Element)
  PROVE  /\ OptionalBytes(o) \in Seq(Unit) /\ (o = <<>> => OptionalBytes(o) = <<>>)
         /\ \A e \in Element : OptionalBytes(Append(o, e)) = OptionalBytes(o) \o ElementBytes(e)
<1> DEFINE all(s) == [k \in DOMAIN s |-> ElementBytes(s[k])]
<1>1. \A s \in Seq(Element) : /\ all(s) \in Seq(Seq(Unit)) /\ Len(all(s)) = Len(s)
                              /\ \A k \in 1 .. Len(s) : all(s)[k] = ElementBytes(s[k])
  <2> SUFFICES ASSUME NEW s \in Seq(Element)
               PROVE  /\ all(s) \in Seq(Seq(Unit)) /\ Len(all(s)) = Len(s)
                      /\ \A k \in 1 .. Len(s) : all(s)[k] = ElementBytes(s[k])
    OBVIOUS
  <2>1. Len(s) \in Nat /\ DOMAIN s = 1 .. Len(s)
    BY LenProperties
  <2>2. ASSUME NEW k \in 1 .. Len(s) PROVE ElementBytes(s[k]) \in Seq(Unit)
    BY ElementOfSeq, ElementTyped
  <2>3. all(s) = [k \in 1 .. Len(s) |-> ElementBytes(s[k])]
    BY <2>1
  <2> HIDE DEF all
  <2> QED BY <2>1, <2>2, <2>3
<1>2. OptionalBytes(o) \in Seq(Unit) /\ (o = <<>> => OptionalBytes(o) = <<>>)
  <2>1. OptionalBytes(o) = FlattenSeq(all(o)) /\ all(o) \in Seq(Seq(Unit))
    BY <1>1 DEF OptionalBytes
  <2>2. o = <<>> => all(o) = <<>>
    BY <1>1, EmptySeq
  <2> HIDE DEF all
  <2> QED BY <2>1, <2>2, FlattenTyped
<1>3. ASSUME NEW e \in Element
      PROVE  OptionalBytes(Append(o, e)) = OptionalBytes(o) \o ElementBytes(e)
  <2>1. Append(o, e) \in Seq(Element) /\ Len(Append(o, e)) = Len(o) + 1
        /\ Append(o, e)[Len(o) + 1] = e
        /\ (\A k \in 1 .. Len(o) : Append(o, e)[k] = o[k]) /\ Len(o) \in Nat
    BY AppendProperties, LenProperties
  <2> DEFINE long == all(Append(o, e))
             short == all(o)
  <2>2. short \in Seq(Seq(Unit)) /\ Len(short) = Len(o)
        /\ \A k \in 1 .. Len(o) : short[k] = ElementBytes(o[k])
    BY <1>1
  <2>3. long \in Seq(Seq(Unit)) /\ Len(long) = Len(o) + 1
        /\ \A k \in 1 .. Len(o) + 1 : long[k] = ElementBytes(Append(o, e)[k])
    BY <1>1, <2>1
  <2>4. OptionalBytes(o) = FlattenSeq(short) /\ OptionalBytes(Append(o, e)) = FlattenSeq(long)
    BY DEF OptionalBytes
  <2> HIDE DEF all, long, short
  <2>5. long = Append(short, long[Len(short) + 1])
    <3>1. Len(long) = Len(short) + 1
      BY <2>2, <2>3
    <3>2. \A k \in 1 .. Len(short) : long[k] = short[k]
      BY <2>1, <2>2, <2>3
    <3> QED BY <2>2, <2>3, <3>1, <3>2, OneMore
  <2>6. long[Len(short) + 1] = ElementBytes(e)
    BY <2>1, <2>2, <2>3
  <2>7. ElementBytes(e) \in Seq(Unit)
    BY ElementTyped
  <2> QED BY <2>2, <2>4, <2>5, <2>6, <2>7, FlattenAppend
<1> QED BY <1>2, <1>3

(* The chunks' entries with one more.                                       *)
LEMMA ChunksAppended ==
  ASSUME NEW o \in Seq(Entry)
  PROVE  /\ ChunkBytes(o) \in Seq(Unit) /\ (o = <<>> => ChunkBytes(o) = <<>>)
         /\ \A e \in Entry : ChunkBytes(Append(o, e)) = ChunkBytes(o) \o EntryBytes(e)
<1> DEFINE all(s) == [k \in DOMAIN s |-> EntryBytes(s[k])]
<1>1. \A s \in Seq(Entry) : /\ all(s) \in Seq(Seq(Unit)) /\ Len(all(s)) = Len(s)
                              /\ \A k \in 1 .. Len(s) : all(s)[k] = EntryBytes(s[k])
  <2> SUFFICES ASSUME NEW s \in Seq(Entry)
               PROVE  /\ all(s) \in Seq(Seq(Unit)) /\ Len(all(s)) = Len(s)
                      /\ \A k \in 1 .. Len(s) : all(s)[k] = EntryBytes(s[k])
    OBVIOUS
  <2>1. Len(s) \in Nat /\ DOMAIN s = 1 .. Len(s)
    BY LenProperties
  <2>2. ASSUME NEW k \in 1 .. Len(s) PROVE EntryBytes(s[k]) \in Seq(Unit)
    BY ElementOfSeq, EntryTyped
  <2>3. all(s) = [k \in 1 .. Len(s) |-> EntryBytes(s[k])]
    BY <2>1
  <2> HIDE DEF all
  <2> QED BY <2>1, <2>2, <2>3
<1>2. ChunkBytes(o) \in Seq(Unit) /\ (o = <<>> => ChunkBytes(o) = <<>>)
  <2>1. ChunkBytes(o) = FlattenSeq(all(o)) /\ all(o) \in Seq(Seq(Unit))
    BY <1>1 DEF ChunkBytes
  <2>2. o = <<>> => all(o) = <<>>
    BY <1>1, EmptySeq
  <2> HIDE DEF all
  <2> QED BY <2>1, <2>2, FlattenTyped
<1>3. ASSUME NEW e \in Entry PROVE ChunkBytes(Append(o, e)) = ChunkBytes(o) \o EntryBytes(e)
  <2>1. Append(o, e) \in Seq(Entry) /\ Len(Append(o, e)) = Len(o) + 1
        /\ Append(o, e)[Len(o) + 1] = e
        /\ (\A k \in 1 .. Len(o) : Append(o, e)[k] = o[k]) /\ Len(o) \in Nat
    BY AppendProperties, LenProperties
  <2> DEFINE long == all(Append(o, e))
             short == all(o)
  <2>2. short \in Seq(Seq(Unit)) /\ Len(short) = Len(o)
        /\ \A k \in 1 .. Len(o) : short[k] = EntryBytes(o[k])
    BY <1>1
  <2>3. long \in Seq(Seq(Unit)) /\ Len(long) = Len(o) + 1
        /\ \A k \in 1 .. Len(o) + 1 : long[k] = EntryBytes(Append(o, e)[k])
    BY <1>1, <2>1
  <2>4. ChunkBytes(o) = FlattenSeq(short) /\ ChunkBytes(Append(o, e)) = FlattenSeq(long)
    BY DEF ChunkBytes
  <2> HIDE DEF all, long, short
  <2>5. long = Append(short, long[Len(short) + 1])
    <3>1. Len(long) = Len(short) + 1
      BY <2>2, <2>3
    <3>2. \A k \in 1 .. Len(short) : long[k] = short[k]
      BY <2>1, <2>2, <2>3
    <3> QED BY <2>2, <2>3, <3>1, <3>2, OneMore
  <2>6. long[Len(short) + 1] = EntryBytes(e)
    BY <2>1, <2>2, <2>3
  <2>7. EntryBytes(e) \in Seq(Unit)
    BY EntryTyped
  <2> QED BY <2>2, <2>4, <2>5, <2>6, <2>7, FlattenAppend
<1> QED BY <1>2, <1>3

(* The index, if entries without a second digest have none to write.        *)
LEMMA BodyOfEntries ==
  ASSUME NEW g,
         \A k \in DOMAIN g.chunks :
           Has(g.flags, UncompressedSource) \/ g.chunks[k].uDigest = <<>>
  PROVE  IndexBody(g) = CInt(g.chunkType) \o CInt(Len(g.chunks)) \o ChunkBytes(g.chunks)
<1> DEFINE written(c) == IF Has(g.flags, UncompressedSource) THEN c.uDigest ELSE <<>>
<1>1. \A k \in DOMAIN g.chunks : written(g.chunks[k]) = g.chunks[k].uDigest
  OBVIOUS
<1>2. IndexBody(g) =
        CInt(g.chunkType) \o CInt(Len(g.chunks))
          \o FlattenSeq([k \in DOMAIN g.chunks |->
               g.chunks[k].digest \o written(g.chunks[k])
                 \o CInt(g.chunks[k].compLength) \o CInt(g.chunks[k].length)])
  BY DEF IndexBody
<1> HIDE DEF written
<1>3. [k \in DOMAIN g.chunks |->
         g.chunks[k].digest \o written(g.chunks[k])
           \o CInt(g.chunks[k].compLength) \o CInt(g.chunks[k].length)]
      = [k \in DOMAIN g.chunks |-> EntryBytes(g.chunks[k])]
  BY <1>1 DEF EntryBytes
<1> QED BY <1>2, <1>3 DEF ChunkBytes

(* Every part of a header is a sequence of units.                           *)
LEMMA PartsTyped ==
  ASSUME NEW g \in Fields
  PROVE  /\ g.dataChecksum \in Seq(Unit) /\ CInt(g.flags) \in Seq(Unit)
            /\ CInt(g.compression) \in Seq(Unit)
         /\ g.dataChecksum \o CInt(g.flags) \in Seq(Unit) /\ Plains(g) \in Seq(Unit)
         /\ CInt(g.optCount) \in Seq(Unit) /\ CInt(g.optId) \in Seq(Unit)
            /\ CInt(g.optSize) \in Seq(Unit)
         /\ OptionalBytes(g.optional) \in Seq(Unit) /\ Preface(g) \in Seq(Unit)
         /\ Preface(g) \o CInt(g.optId) \in Seq(Unit)
         /\ Preface(g) \o CInt(g.optId) \o CInt(g.optSize) \in Seq(Unit)
         /\ CInt(g.chunkType) \in Seq(Unit) /\ CInt(g.count) \in Seq(Unit)
         /\ CInt(g.chunkType) \o CInt(g.count) \in Seq(Unit)
         /\ ChunkBytes(g.chunks) \in Seq(Unit) /\ Entries(g) \in Seq(Unit)
         /\ g.digest \in Seq(Unit) /\ UDigest(g) \in Seq(Unit)
            /\ CInt(g.compLength) \in Seq(Unit)
         /\ Entries(g) \o g.digest \in Seq(Unit)
         /\ Entries(g) \o g.digest \o UDigest(g) \in Seq(Unit)
         /\ Entries(g) \o g.digest \o UDigest(g) \o CInt(g.compLength) \in Seq(Unit)
<1>1. /\ g.dataChecksum \in Seq(Unit) /\ g.digest \in Seq(Unit) /\ g.uDigest \in Seq(Unit)
      /\ g.flags \in Nat /\ g.compression \in Nat /\ g.optCount \in Nat /\ g.optId \in Nat
      /\ g.optSize \in Nat /\ g.chunkType \in Nat /\ g.count \in Nat /\ g.compLength \in Nat
      /\ g.optional \in Seq(Element) /\ g.chunks \in Seq(Entry)
  BY DEF Fields
<1>2. /\ CInt(g.flags) \in Seq(Unit) /\ CInt(g.compression) \in Seq(Unit)
         /\ CInt(g.optCount) \in Seq(Unit)
      /\ CInt(g.optId) \in Seq(Unit) /\ CInt(g.optSize) \in Seq(Unit)
         /\ CInt(g.chunkType) \in Seq(Unit)
      /\ CInt(g.count) \in Seq(Unit) /\ CInt(g.compLength) \in Seq(Unit)
  BY <1>1, CIntFacts
<1>3. g.dataChecksum \o CInt(g.flags) \in Seq(Unit)
      /\ CInt(g.chunkType) \o CInt(g.count) \in Seq(Unit)
  BY <1>1, <1>2, OctetsConcat
<1>4. Plains(g) \in Seq(Unit)
  BY <1>2, <1>3, OctetsConcat DEF Plains
<1>5. OptionalBytes(g.optional) \in Seq(Unit) /\ ChunkBytes(g.chunks) \in Seq(Unit)
  BY <1>1, OptionalAppended, ChunksAppended
<1>6. Preface(g) \in Seq(Unit)
  <2>1. CInt(g.optCount) \o OptionalBytes(g.optional) \in Seq(Unit)
    BY <1>2, <1>5, OctetsConcat
  <2>2. Plains(g) \o (CInt(g.optCount) \o OptionalBytes(g.optional)) \in Seq(Unit)
    BY <1>4, <2>1, OctetsConcat
  <2>3. Plains(g) \o <<>> \in Seq(Unit)
    BY <1>4, ConcatEmptySeq
  <2> QED BY <2>2, <2>3 DEF Preface
<1>7. Preface(g) \o CInt(g.optId) \in Seq(Unit)
  BY <1>2, <1>6, OctetsConcat
<1>8. Preface(g) \o CInt(g.optId) \o CInt(g.optSize) \in Seq(Unit)
  BY <1>2, <1>7, OctetsConcat
<1>9. Entries(g) \in Seq(Unit)
  BY <1>3, <1>5, OctetsConcat DEF Entries
<1>10. UDigest(g) \in Seq(Unit)
  BY <1>1, EmptySeq DEF UDigest
<1>11. Entries(g) \o g.digest \in Seq(Unit)
  BY <1>1, <1>9, OctetsConcat
<1>12. Entries(g) \o g.digest \o UDigest(g) \in Seq(Unit)
  BY <1>10, <1>11, OctetsConcat
<1>13. Entries(g) \o g.digest \o UDigest(g) \o CInt(g.compLength) \in Seq(Unit)
  BY <1>2, <1>12, OctetsConcat
<1> QED BY <1>1, <1>2, <1>3, <1>4, <1>5, <1>6, <1>7, <1>8, <1>9, <1>10, <1>11, <1>12, <1>13

----------------------------------------------------------------------------
(* Reading one field *)

(* What is read after each field.                                           *)
LEMMA AfterFacts ==
  ASSUME NEW g, NEW p
  PROVE  /\ After("magic", g, p) = "ckType" /\ After("ckType", g, p) = "headerSize"
         /\ After("headerSize", g, p) = "checksum" /\ After("checksum", g, p) = "header"
         /\ After("dataChecksum", g, p) = "flags" /\ After("flags", g, p) = "compression"
         /\ After("compression", g, p) = IF Has(g.flags, OptionalElements) THEN "optCount"
            ELSE "indexSize"
         /\ After("optCount", g, p) = IF Len(g.optional) < g.optCount THEN "optId"
            ELSE "indexSize"
         /\ After("optId", g, p) = "optSize" /\ After("optSize", g, p) = "optData"
         /\ After("optData", g, p) = IF Len(g.optional) < g.optCount THEN "optId"
            ELSE "indexSize"
         /\ After("chunkType", g, p) = "count"
         /\ After("count", g, p) = IF p < end THEN "digest" ELSE "entries"
         /\ After("digest", g, p) = IF Has(g.flags, UncompressedSource) THEN "uDigest"
            ELSE "compLength"
         /\ After("uDigest", g, p) = "compLength" /\ After("compLength", g, p) = "length"
         /\ After("length", g, p) = IF p < end THEN "digest" ELSE "entries"
BY DEF After, FieldAfter

(* What has been read of the preface when a field of it is next.            *)
LEMMA PrefaceParts ==
  ASSUME NEW g
  PROVE  /\ PrefacePart("dataChecksum", g) = <<>> /\ PrefacePart("flags", g) = g.dataChecksum
         /\ PrefacePart("compression", g) = g.dataChecksum \o CInt(g.flags)
         /\ PrefacePart("optCount", g) = Plains(g)
         /\ PrefacePart("optId", g) = Preface(g)
         /\ PrefacePart("optSize", g) = Preface(g) \o CInt(g.optId)
         /\ PrefacePart("optData", g) = Preface(g) \o CInt(g.optId) \o CInt(g.optSize)
         /\ PrefacePart("indexSize", g) = Preface(g)
BY DEF PrefacePart

(* What has been read of the index when a field of it is next.              *)
LEMMA IndexParts ==
  ASSUME NEW g
  PROVE  /\ IndexPart("chunkType", g) = <<>> /\ IndexPart("count", g) = CInt(g.chunkType)
         /\ IndexPart("digest", g) = Entries(g) /\ IndexPart("entries", g) = Entries(g)
         /\ IndexPart("uDigest", g) = Entries(g) \o g.digest
         /\ IndexPart("compLength", g) = Entries(g) \o g.digest \o UDigest(g)
         /\ IndexPart("length", g) = Entries(g) \o g.digest \o UDigest(g) \o CInt(g.compLength)
BY DEF IndexPart

(* What has been read is a sequence of units.                               *)
LEMMA PartTyped ==
  ASSUME NEW g \in Fields
  PROVE  /\ \A f \in PrefacePcs : PrefacePart(f, g) \in Seq(Unit)
         /\ \A f \in IndexPcs : IndexPart(f, g) \in Seq(Unit)
<1>1. ASSUME NEW f \in PrefacePcs PROVE PrefacePart(f, g) \in Seq(Unit)
  <2>1. f \in {"dataChecksum", "flags", "compression", "optCount", "optId", "optSize", "optData",
               "indexSize"}
    BY DEF PrefacePcs, PlainPcs, ElementPcs
  <2> QED BY <2>1, PrefaceParts, PartsTyped, EmptySeq
<1>2. ASSUME NEW f \in IndexPcs PROVE IndexPart(f, g) \in Seq(Unit)
  <2>1. f \in {"chunkType", "count", "digest", "uDigest", "compLength", "length", "entries"}
    BY DEF IndexPcs, CountPcs, EntryPcs
  <2> QED BY <2>1, IndexParts, PartsTyped, EmptySeq
<1> QED BY <1>1, <1>2

(* The bytes a field takes.                                                 *)
LEMMA HereFacts ==
  ASSUME HeaderTypeOK, NEW n \in Nat, pos + n <= end
  PROVE  Here(n) \in Seq(Unit) /\ Len(Here(n)) = n /\ pos + n \in Nat /\ pos + n <= Len(src)
<1>1. /\ pos \in 0 .. Len(src) /\ pos + n \in pos .. Len(src) /\ (pos + n) - pos = n
      /\ src \in Seq(Unit) /\ pos + n \in Nat /\ pos + n <= Len(src)
  BY LenProperties DEF HeaderTypeOK
<1> DEFINE q == pos + n
<1>2. q \in pos .. Len(src) /\ q - pos = n
  BY <1>1
<1> HIDE DEF q
<1>3. SubSeq(src, pos + 1, q) \in Seq(Unit) /\ Len(SubSeq(src, pos + 1, q)) = n
  BY <1>1, <1>2, SubSeqFacts
<1> QED BY <1>1, <1>3 DEF Here, q

(* The next integer covers what is written for its value.                   *)
LEMMA NextIntFacts ==
  ASSUME HeaderTypeOK, NEW r, r = NextInt, r.err = "nil"
  PROVE  /\ r.length \in Nat /\ r.value \in Nat /\ pos + r.length <= end /\ r.length >= 1
         /\ SizeCovers(Here(r.length), r.value)
<1>1. pos \in 0 .. Len(src) /\ end \in pos .. Len(src) /\ src \in Seq(Unit) /\ pos \in Nat
      /\ end \in Nat
      /\ Len(src) \in Nat
  BY LenProperties DEF HeaderTypeOK
<1> DEFINE u == SubSeq(src, pos + 1, end)
<1>2. u \in Seq(Unit) /\ Len(u) = end - pos
  BY <1>1, SubSeqFacts
<1>3. r = ReadCompressedInt(Octets(u))
  BY DEF NextInt
<1> HIDE DEF u
<1>4. r.length \in 1 .. Len(u) /\ r.value \in Nat /\ r.length \in Nat
      /\ SizeCovers(SubSeq(u, 1, r.length), r.value)
  BY <1>2, <1>3, IntRead
<1> DEFINE n == r.length
<1>5. n \in Nat /\ n >= 1 /\ pos + n <= end
  BY <1>1, <1>2, <1>4
<1>6. SubSeq(u, 1, n) = Here(n)
  <2> HIDE DEF n
  <2> DEFINE l == SubSeq(u, 1, n)
             x == Here(n)
  <2>1. n \in 0 .. Len(u) /\ 0 \in 0 .. Len(u) /\ 0 + 1 = 1 /\ n - 0 = n
    BY <1>1, <1>2, <1>5
  <2>2. /\ SubSeq(u, 0 + 1, n) \in Seq(Unit) /\ Len(SubSeq(u, 0 + 1, n)) = n - 0
        /\ \A k \in 1 .. n - 0 : SubSeq(u, 0 + 1, n)[k] = u[0 + k]
    BY <1>2, <2>1, SubSeqFacts
  <2>3. l \in Seq(Unit) /\ Len(l) = n /\ \A k \in 1 .. n : l[k] = u[k]
    BY <1>5, <2>1, <2>2
  <2>4. \A k \in 1 .. end - pos : u[k] = src[pos + k]
    BY <1>1, SubSeqFacts DEF u
  <2>5. x \in Seq(Unit) /\ Len(x) = n /\ \A k \in 1 .. n : x[k] = src[pos + k]
    <3> DEFINE q == pos + n
    <3>1. q \in pos .. Len(src) /\ q - pos = n
      BY <1>1, <1>5
    <3> HIDE DEF q
    <3>2. /\ SubSeq(src, pos + 1, q) \in Seq(Unit) /\ Len(SubSeq(src, pos + 1, q)) = q - pos
          /\ \A k \in 1 .. q - pos : SubSeq(src, pos + 1, q)[k] = src[pos + k]
      BY <1>1, <3>1, SubSeqFacts
    <3>3. x = SubSeq(src, pos + 1, q)
      BY DEF Here, q
    <3> HIDE DEF x
    <3> QED BY <3>1, <3>2, <3>3
  <2> HIDE DEF l, x
  <2>6. \A k \in 1 .. n : l[k] = x[k]
    BY <1>1, <1>5, <2>3, <2>4, <2>5
  <2>7. l = x
    BY <2>3, <2>5, <2>6, SeqEqual
  <2> QED BY <2>7 DEF l, x
<1> QED BY <1>4, <1>5, <1>6

(* A step that reads an integer refuses the file or takes a value that      *)
(* its bytes cover.                                                         *)
LEMMA ReadIntStep ==
  ASSUME HeaderTypeOK, NEW f \in IntFields, ReadInt(f)
  PROVE  \/ Reject
         \/ \E n \in Nat, v \in Nat :
              /\ pc = f /\ Valid(f, v) /\ pos + n <= end /\ Take(n, [h EXCEPT ![f] = v])
              /\ Here(n) \in Seq(Unit) /\ SizeCovers(Here(n), v)
<1> DEFINE r == NextInt
<1>1. CASE r.err = "nil" /\ Valid(f, r.value) /\ Take(r.length, [h EXCEPT ![f] = r.value])
  <2>1. /\ r.length \in Nat /\ r.value \in Nat /\ pos + r.length <= end
        /\ SizeCovers(Here(r.length), r.value)
    BY <1>1, NextIntFacts
  <2>2. Here(r.length) \in Seq(Unit)
    BY <2>1, HereFacts
  <2> HIDE DEF r
  <2> QED BY <1>1, <2>1, <2>2, Zenon DEF ReadInt
<1>2. Reject
      \/ (r.err = "nil" /\ Valid(f, r.value) /\ Take(r.length, [h EXCEPT ![f] = r.value]))
  BY Zenon DEF ReadInt
<1> QED BY <1>1, <1>2

(* A step that reads a digest refuses the file or takes as many bytes as    *)
(* the digest has.                                                          *)
LEMMA ReadDigestStep ==
  ASSUME HeaderTypeOK, NEW f \in DigestFields, ReadDigest(f),
         NEW n, n = DigestSize[IF f \in {"digest", "uDigest"} THEN h.chunkType ELSE h.ckType],
           n \in Nat
  PROVE  \/ Reject
         \/ /\ pc = f /\ pos + n <= end /\ Take(n, [h EXCEPT ![f] = Here(n)])
            /\ Here(n) \in Seq(Unit) /\ Len(Here(n)) = n
<1>1. pc = f /\ (Reject \/ (Fits(n) /\ Take(n, [h EXCEPT ![f] = Here(n)])))
  BY Zenon DEF ReadDigest
<1>2. Fits(n) => pos + n <= end
  BY DEF Fits
<1> QED BY <1>1, <1>2, HereFacts

(* Nothing covers nothing.                                                  *)
LEMMA EmptyCovers ==
  ASSUME NEW s \in Seq(Unit), NEW a \in 0 .. Len(s)
  PROVE  Covers(SubSeq(s, a + 1, a), <<>>)
<1>1. a \in a .. Len(s) /\ a - a = 0 /\ a \in Nat
  BY LenProperties
<1>2. SubSeq(s, a + 1, a) \in Seq(Unit) /\ Len(SubSeq(s, a + 1, a)) = 0
  BY <1>1, SubSeqFacts
<1>3. SubSeq(s, a + 1, a) = <<>>
  BY <1>2, EmptySeq
<1> QED BY <1>3 DEF Covers

(* The parts of the header have different fields.                           *)
LEMMA PcSets ==
  /\ \A f \in PrefacePcs : f \notin IndexPcs /\ f \notin LeadPcs /\ f # "sigCount" /\ f # "done"
  /\ \A f \in IndexPcs : f \notin PrefacePcs /\ f \notin LeadPcs /\ f # "sigCount" /\ f # "done"
  /\ "sigCount" \notin PrefacePcs /\ "sigCount" \notin IndexPcs /\ "sigCount" \notin LeadPcs
  /\ \A f \in LeadPcs : f \notin PrefacePcs /\ f \notin IndexPcs /\ f # "sigCount"
  /\ "done" \notin PrefacePcs /\ "done" \notin IndexPcs
BY DEF PrefacePcs, PlainPcs, ElementPcs, IndexPcs, CountPcs, EntryPcs, LeadPcs

(* A field of the preface is taken: what has been read goes on to cover     *)
(* what is written for the fields.                                          *)
LEMMA TakePreface ==
  ASSUME HeaderTypeOK, ReadSoFar, pc \in PrefacePcs, base \in Nat,
         NEW n \in Nat, NEW g \in Fields, pos + n <= end, Take(n, g), pc' \in PrefacePcs,
         NEW w \in Seq(Unit), Covers(Here(n), w), PrefacePart(pc', g) = PrefacePart(pc, h) \o w
  PROVE  ReadSoFar'
<1>1. /\ pos' = pos + n /\ h' = g /\ src' = src /\ end' = end /\ turn' = turn
         /\ leadLen' = leadLen
  BY DEF Take
<1>2. base' = base
  BY <1>1 DEF base, reader
<1>3. /\ base <= pos /\ Covers(SubSeq(src, base + 1, pos), PrefacePart(pc, h)) /\ end = Len(src)
  BY PcSets DEF ReadSoFar
<1>4. /\ pos \in Nat /\ src \in Seq(Unit) /\ pos <= end /\ end <= Len(src) /\ end \in Nat
      /\ PrefacePart(pc, h) \in Seq(Unit) /\ Len(src) \in Nat
  BY PartTyped, LenProperties DEF HeaderTypeOK
<1> DEFINE q == pos + n
<1>5. q \in Nat /\ pos <= q /\ q <= Len(src) /\ base <= q
  BY <1>3, <1>4
<1>6. Covers(SubSeq(src, pos + 1, q), w)
  BY DEF Here
<1> HIDE DEF q
<1>7. Covers(SubSeq(src, base + 1, q), PrefacePart(pc, h) \o w)
  BY <1>3, <1>4, <1>5, <1>6, CoversMore
<1>8. pos' = q /\ PrefacePart(pc', h') = PrefacePart(pc, h) \o w
  BY <1>1 DEF q
<1>9. /\ base' <= pos' /\ Covers(SubSeq(src', base' + 1, pos'), PrefacePart(pc', h'))
         /\ end' = Len(src')
  BY <1>1, <1>2, <1>3, <1>5, <1>7, <1>8
<1> QED BY <1>9, PcSets DEF ReadSoFar

(* The same for a field of the index.                                       *)
LEMMA TakeIndex ==
  ASSUME HeaderTypeOK, ReadSoFar, pc \in IndexPcs, base \in Nat,
         NEW n \in Nat, NEW g \in Fields, pos + n <= end, Take(n, g), pc' \in IndexPcs,
         NEW w \in Seq(Unit), Covers(Here(n), w), Preface(g) = Preface(h),
         IndexPart(pc', g) = IndexPart(pc, h) \o w
  PROVE  ReadSoFar'
<1>1. /\ pos' = pos + n /\ h' = g /\ src' = src /\ end' = end /\ turn' = turn
         /\ leadLen' = leadLen
  BY DEF Take
<1>2. base' = base
  BY <1>1 DEF base, reader
<1>3. PICK a \in base .. pos, b \in base .. pos :
         /\ b \in a .. pos
         /\ Covers(SubSeq(src, base + 1, a), Preface(h))
         /\ SizeCovers(SubSeq(src, a + 1, b), end - b)
         /\ Covers(SubSeq(src, b + 1, pos), IndexPart(pc, h))
  <2>1. PICK a \in base .. pos : \E b \in a .. pos :
         /\ Covers(SubSeq(src, base + 1, a), Preface(h))
         /\ SizeCovers(SubSeq(src, a + 1, b), end - b)
         /\ Covers(SubSeq(src, b + 1, pos), IndexPart(pc, h))
    BY PcSets DEF ReadSoFar
  <2>2. PICK b \in a .. pos :
         /\ Covers(SubSeq(src, base + 1, a), Preface(h))
         /\ SizeCovers(SubSeq(src, a + 1, b), end - b)
         /\ Covers(SubSeq(src, b + 1, pos), IndexPart(pc, h))
    BY <2>1
  <2>3. b \in base .. pos
    BY <2>1, <2>2 DEF HeaderTypeOK
  <2> QED BY <2>2, <2>3
<1>4. /\ pos \in Nat /\ src \in Seq(Unit) /\ pos <= end /\ end <= Len(src) /\ end \in Nat
      /\ IndexPart(pc, h) \in Seq(Unit) /\ Len(src) \in Nat
  BY PartTyped, LenProperties DEF HeaderTypeOK
<1> DEFINE q == pos + n
<1>5. q \in Nat /\ pos <= q /\ q <= Len(src) /\ base <= q /\ a \in Nat /\ b \in Nat /\ b <= pos
      /\ a \in base .. q /\ b \in a .. q
  BY <1>3, <1>4
<1>6. Covers(SubSeq(src, pos + 1, q), w)
  BY DEF Here
<1> HIDE DEF q
<1>7. Covers(SubSeq(src, b + 1, q), IndexPart(pc, h) \o w)
  BY <1>3, <1>4, <1>5, <1>6, CoversMore
<1>8. pos' = q /\ IndexPart(pc', h') = IndexPart(pc, h) \o w /\ Preface(h') = Preface(h)
  BY <1>1 DEF q
<1>9. /\ base' <= pos'
      /\ a \in base' .. pos' /\ b \in a .. pos'
      /\ Covers(SubSeq(src', base' + 1, a), Preface(h'))
      /\ SizeCovers(SubSeq(src', a + 1, b), end' - b)
      /\ Covers(SubSeq(src', b + 1, pos'), IndexPart(pc', h'))
  BY <1>1, <1>2, <1>3, <1>5, <1>7, <1>8
<1>10. \E x \in base' .. pos' : \E y \in x .. pos' :
         /\ Covers(SubSeq(src', base' + 1, x), Preface(h'))
         /\ SizeCovers(SubSeq(src', x + 1, y), end' - y)
         /\ Covers(SubSeq(src', y + 1, pos'), IndexPart(pc', h'))
  BY <1>9
<1> QED BY <1>9, <1>10, PcSets DEF ReadSoFar

(* The part of the file that is fetched to read the lead from.              *)
LEMMA LeadPrefixIsNat ==
  LeadPrefix \in Nat
<1> DEFINE S == {DigestSize[t] : t \in DOMAIN DigestSize}
           most == CHOOSE n \in S : \A t \in DOMAIN DigestSize : DigestSize[t] <= n
<1>1. \E n \in S : \A t \in DOMAIN DigestSize : DigestSize[t] <= n
  BY HeaderAssumption
<1>2. most \in S
  BY <1>1, Zenon
<1>3. S \subseteq Nat
  BY HeaderAssumption
<1>4. most \in Nat
  BY <1>2, <1>3
<1>5. LeadPrefix = Len(Magic) + 2 * MaxCompressedIntLen + most
  BY Zenon DEF LeadPrefix
<1>6. Len(Magic) \in Nat /\ MaxCompressedIntLen \in Nat
  <2>1. 0 \in Octet
    BY RadixFacts DEF Octet
  <2>2. <<0>> \in Seq(Octet) /\ Len(<<0>>) = 1
    BY <2>1, OneOctet
  <2> QED BY <2>2, PlainFacts, CompressedIntAssumption DEF Magic
<1> HIDE DEF most
<1> QED BY <1>4, <1>5, <1>6

(* The file as a reader opens it.                                           *)
LEMMA OpenedFacts ==
  ASSUME NEW units \in Seq(Unit), NEW who
  PROVE  Opened(units, who) \in Seq(Unit) /\ Len(Opened(units, who)) \in Nat
<1>1. LeadPrefix \in Nat
  BY LeadPrefixIsNat
<1> DEFINE n == IF Len(units) < LeadPrefix THEN Len(units) ELSE LeadPrefix
<1>2. n \in 0 .. Len(units) /\ 0 \in 0 .. Len(units) /\ 0 + 1 = 1
  BY <1>1, LenProperties
<1> HIDE DEF n
<1>3. SubSeq(units, 0 + 1, n) \in Seq(Unit)
  BY <1>2, SubSeqFacts
<1>4. Opened(units, who) = IF who = "remote" THEN SubSeq(units, 1, n) ELSE units
  BY DEF Opened, n
<1>5. Opened(units, who) \in Seq(Unit)
  BY <1>2, <1>3, <1>4
<1> QED BY <1>5, LenProperties

(* A header of which nothing has been read.                                 *)
LEMMA BlankFacts ==
  /\ Blank \in Fields /\ Blank.optional = <<>> /\ Blank.chunks = <<>>
  /\ DOMAIN Blank.chunks = {}
<1>1. \A S : <<>> \in Seq(S)
  BY EmptySeq
<1> QED BY <1>1 DEF Blank, Fields

(* A reader that ends leaves its result and the next one starts.            *)
LEMMA ResultStep ==
  ASSUME ReadInv, NEW r \in Outcome, Result(r), ReadBack(r)
  PROVE  ReadInv'
<1>1. results' = Append(results, r) /\ file' = file
  BY DEF Result
<1>2. results \in Seq(Outcome) /\ \A k \in DOMAIN results : ReadBack(results[k])
  BY DEF ReadInv, HeaderTypeOK
<1>3. results' \in Seq(Outcome) /\ \A k \in DOMAIN results' : ReadBack(results'[k])
  <2>1. /\ Append(results, r) \in Seq(Outcome) /\ Len(Append(results, r)) = Len(results) + 1
        /\ Append(results, r)[Len(results) + 1] = r
        /\ \A k \in 1 .. Len(results) : Append(results, r)[k] = results[k]
    BY <1>2, AppendProperties
  <2>2. DOMAIN results = 1 .. Len(results) /\ Len(results) \in Nat
        /\ DOMAIN Append(results, r) = 1 .. Len(results) + 1
    BY <1>2, <2>1, LenProperties
  <2>3. ASSUME NEW k \in 1 .. Len(results) + 1 PROVE ReadBack(Append(results, r)[k])
    <3>1. CASE k = Len(results) + 1
      BY <2>1, <3>1
    <3>2. CASE k # Len(results) + 1
      <4>1. k \in 1 .. Len(results)
        BY <2>2, <3>2
      <4> QED BY <1>2, <2>1, <2>2, <4>1
    <3> QED BY <3>1, <3>2
  <2> QED BY <1>1, <2>1, <2>2, <2>3
<1>4. (\A k \in DOMAIN results : ReadBack(results[k]))'
  BY <1>3
<1>5. CASE turn = Len(Readers)
  <2>1. pc' = "done" /\ UNCHANGED <<turn, pos, h, leadLen, src, end>>
    BY <1>5 DEF Result
  <2>2. HeaderTypeOK'
    BY <1>1, <1>3, <2>1 DEF ReadInv, HeaderTypeOK, LeadPcs
  <2>3. Elements'
    BY <2>1 DEF Elements, LeadPcs, PrefacePcs, PlainPcs, ElementPcs, IndexPcs, CountPcs,
      EntryPcs
  <2>4. ValuesOK'
    <3>1. (\A k \in DOMAIN h.chunks : ChunkFits(h, h.chunks[k]))'
      BY <2>1 DEF ReadInv, ValuesOK, ChunkFits
    <3> QED BY <2>1, <3>1 DEF ValuesOK, IndexPcs, ElementPcs, EntryPcs, CountPcs
  <2>5. ReadSoFar'
    BY <2>1, PcSets DEF ReadSoFar
  <2> QED BY <1>4, <2>2, <2>3, <2>4, <2>5 DEF ReadInv
<1>6. CASE turn # Len(Readers)
  <2>1. /\ turn' = turn + 1 /\ pc' = "magic" /\ pos' = 0 /\ h' = Blank /\ leadLen' = 0
        /\ src' = Opened(file.units, Readers[turn + 1]) /\ end' = Len(src')
    BY <1>6 DEF Result
  <2>2. turn + 1 \in 1 .. 3
    BY <1>6 DEF ReadInv, HeaderTypeOK, Readers
  <2>3. src' \in Seq(Unit) /\ Len(src') \in Nat
    BY <2>1, OpenedFacts DEF ReadInv, HeaderTypeOK
  <2>4. HeaderTypeOK'
    BY <1>1, <1>3, <2>1, <2>2, <2>3, BlankFacts DEF ReadInv, HeaderTypeOK, LeadPcs
  <2>5. Elements'
    BY <2>1, BlankFacts DEF Elements, LeadPcs, PrefacePcs, PlainPcs, ElementPcs, IndexPcs,
      CountPcs, EntryPcs
  <2>6. ValuesOK'
    <3>1. (\A k \in DOMAIN h.chunks : ChunkFits(h, h.chunks[k]))'
      BY <2>1, BlankFacts
    <3> QED BY <2>1, <3>1 DEF ValuesOK, IndexPcs, ElementPcs, EntryPcs, CountPcs
  <2>7. ReadSoFar'
    BY <2>1, PcSets DEF ReadSoFar, LeadPcs
  <2> QED BY <1>4, <2>4, <2>5, <2>6, <2>7 DEF ReadInv
<1> QED BY <1>5, <1>6

(* A reader that refuses the file.                                          *)
LEMMA RejectStep ==
  ASSUME ReadInv, Reject
  PROVE  ReadInv'
<1>1. [accepted |-> FALSE] \in Outcome
  BY DEF Outcome
<1>2. ReadBack([accepted |-> FALSE])
  BY DEF ReadBack
<1> QED BY <1>1, <1>2, ResultStep DEF Reject

(* A field of the lead.                                                     *)
LEMMA LeadStep ==
  ASSUME ReadInv, NEW n \in Nat, NEW g \in Fields, pc \in LeadPcs, pos + n <= end, Take(n, g),
         pc' \in LeadPcs, g.optional = h.optional, g.chunks = h.chunks,
         pc' \notin {"magic", "ckType"} => g.ckType \in DOMAIN DigestSize
  PROVE  ReadInv'
<1>1. /\ pos' = pos + n /\ h' = g
      /\ UNCHANGED <<file, turn, src, end, leadLen, results>>
  BY DEF Take
<1>2. h.optional = <<>> /\ h.chunks = <<>> /\ DOMAIN h.chunks = {}
  <2>1. h.optional = <<>> /\ h.chunks = <<>>
    BY DEF ReadInv, Elements
  <2> QED BY <2>1
<1>3. HeaderTypeOK'
  BY <1>1 DEF ReadInv, HeaderTypeOK
<1>4. Elements'
  BY <1>1, <1>2 DEF Elements, LeadPcs, PrefacePcs, PlainPcs, ElementPcs, IndexPcs, CountPcs,
    EntryPcs
<1>5. ValuesOK'
  <2>1. (\A k \in DOMAIN h.chunks : ChunkFits(h, h.chunks[k]))'
    BY <1>1, <1>2
  <2> QED BY <2>1 DEF ValuesOK, LeadPcs, IndexPcs, ElementPcs, EntryPcs, CountPcs
<1>6. ReadSoFar'
  BY PcSets DEF ReadSoFar
<1>7. (\A k \in DOMAIN results : ReadBack(results[k]))'
  BY <1>1 DEF ReadInv
<1> QED BY <1>3, <1>4, <1>5, <1>6, <1>7 DEF ReadInv

(* Concatenation is associative on units.                                   *)
LEMMA Assoc ==
  ASSUME NEW a \in Seq(Unit), NEW b \in Seq(Unit), NEW c \in Seq(Unit)
  PROVE  (a \o b) \o c = a \o (b \o c) /\ a \o b \in Seq(Unit) /\ b \o c \in Seq(Unit)
BY ConcatAssociative, OctetsConcat

(* A field that is taken outside the lead: what is left to show of the      *)
(* invariant.                                                               *)
LEMMA TakeKeeps ==
  ASSUME ReadInv, NEW n \in Nat, NEW g \in Fields, pc \notin LeadPcs, pc # "done",
         pos + n <= end, Take(n, g),
         g.ckType = h.ckType, pc' \in PrefacePcs \cup IndexPcs, Elements', ValuesOK', ReadSoFar'
  PROVE  ReadInv'
<1>1. /\ pos' = pos + n /\ h' = g
      /\ UNCHANGED <<file, turn, src, end, leadLen, results>>
  BY DEF Take
<1>2. h.ckType \in DOMAIN DigestSize
  BY DEF ReadInv, HeaderTypeOK, LeadPcs
<1>3. HeaderTypeOK'
  BY <1>1, <1>2, PcSets DEF ReadInv, HeaderTypeOK
<1>4. (\A k \in DOMAIN results : ReadBack(results[k]))'
  BY <1>1 DEF ReadInv
<1> QED BY <1>3, <1>4 DEF ReadInv

(* Where the preface starts.                                                *)
LEMMA BaseIsNat ==
  ASSUME HeaderTypeOK PROVE base \in Nat
BY DEF HeaderTypeOK, base

(* One lemma per field: taking it keeps the invariant. The flags.           *)
LEMMA FlagsStep ==
  ASSUME ReadInv, pc = "flags", NEW n \in Nat, NEW v \in Nat, Valid("flags", v), pos + n <= end,
         NEW g, g = [h EXCEPT !["flags"] = v], Take(n, g),
         Here(n) \in Seq(Unit), Covers(Here(n), CInt(v))
  PROVE  ReadInv'
<1>1. /\ g \in Fields /\ g.flags = v /\ g.dataChecksum = h.dataChecksum /\ g.ckType = h.ckType
      /\ g.optional = h.optional /\ g.chunks = h.chunks /\ h \in Fields
  BY DEF ReadInv, HeaderTypeOK, Fields
<1>2. pc' = "compression" /\ h' = g
  BY AfterFacts DEF Take
<1>3. h.optional = <<>> /\ h.chunks = <<>> /\ DOMAIN h.chunks = {}
  <2>1. h.optional = <<>> /\ h.chunks = <<>>
    BY DEF ReadInv, Elements, PlainPcs, PrefacePcs
  <2> QED BY <2>1
<1>4. Elements'
  BY <1>1, <1>2, <1>3 DEF Elements, LeadPcs, PrefacePcs, PlainPcs, ElementPcs, IndexPcs,
    CountPcs, EntryPcs
<1>5. ValuesOK'
  <2>1. (\A k \in DOMAIN h.chunks : ChunkFits(h, h.chunks[k]))'
    BY <1>1, <1>2, <1>3
  <2> QED BY <1>1, <1>2, <2>1 DEF ValuesOK, Valid, IndexPcs, ElementPcs, EntryPcs, CountPcs
<1>6. pc \in PrefacePcs /\ pc' \in PrefacePcs
  BY <1>2 DEF PrefacePcs, PlainPcs
<1>7. ReadSoFar'
  <2>1. PrefacePart(pc', g) = PrefacePart(pc, h) \o CInt(v)
    BY <1>1, <1>2, PrefaceParts
  <2> QED BY <1>1, <1>6, <2>1, TakePreface, BaseIsNat, CIntFacts DEF ReadInv
<1> QED BY <1>1, <1>4, <1>5, <1>6, <1>7, TakeKeeps, PcSets

(* Four parts, the middle two regrouped.                                    *)
LEMMA AssocInner ==
  ASSUME NEW a \in Seq(Unit), NEW b \in Seq(Unit), NEW c \in Seq(Unit), NEW d \in Seq(Unit)
  PROVE  a \o (b \o (c \o d)) = (a \o (b \o c)) \o d
<1> DEFINE bc == b \o c
<1>1. bc \in Seq(Unit) /\ b \o (c \o d) = bc \o d
  BY Assoc
<1> HIDE DEF bc
<1>2. bc \in Seq(Unit)
  BY <1>1
<1>3. (a \o bc) \o d = a \o (bc \o d)
  BY <1>2, Assoc, SMTT(30)
<1> QED BY <1>1, <1>3 DEF bc

(* Three parts behind another, regrouped.                                   *)
LEMMA AssocThree ==
  ASSUME NEW a \in Seq(Unit), NEW x \in Seq(Unit), NEW y \in Seq(Unit), NEW z \in Seq(Unit)
  PROVE  a \o (x \o y \o z) = a \o x \o y \o z
<1> DEFINE xy == x \o y
<1>1. xy \in Seq(Unit) /\ (a \o x) \o y = a \o xy
  BY Assoc
<1> HIDE DEF xy
<1>2. xy \in Seq(Unit)
  BY <1>1
<1>3. (a \o xy) \o z = a \o (xy \o z)
  BY <1>2, Assoc, SMTT(30)
<1> QED BY <1>1, <1>3 DEF xy

(* The preface of a header depends on its own fields only.                  *)
LEMMA PrefaceSame ==
  ASSUME NEW g, NEW k, g.dataChecksum = k.dataChecksum, g.flags = k.flags,
         g.compression = k.compression,
         g.optCount = k.optCount, g.optional = k.optional
  PROVE  Preface(g) = Preface(k)
<1>1. Plains(g) = Plains(k)
  BY DEF Plains
<1>2. OptionalBytes(g.optional) = OptionalBytes(k.optional)
  OBVIOUS
<1>3. CInt(g.optCount) = CInt(k.optCount)
  OBVIOUS
<1>4. Has(g.flags, OptionalElements) <=> Has(k.flags, OptionalElements)
  OBVIOUS
<1> QED BY <1>1, <1>2, <1>3, <1>4, Zenon DEF Preface

----------------------------------------------------------------------------
(* The fields *)

(* The checksum of the data, the first field of the preface.                *)
LEMMA DataChecksumStep ==
  ASSUME ReadInv, pc = "dataChecksum", NEW n \in Nat, n = DigestSize[h.ckType], pos + n <= end,
         NEW g, g = [h EXCEPT !["dataChecksum"] = Here(n)], Take(n, g),
         Here(n) \in Seq(Unit), Len(Here(n)) = n
  PROVE  ReadInv'
<1>1. /\ g \in Fields /\ g.dataChecksum = Here(n) /\ h \in Fields
      /\ g.ckType = h.ckType /\ g.optional = h.optional
      /\ g.chunks = h.chunks
  BY DEF ReadInv, HeaderTypeOK, Fields
<1>2. pc' = "flags" /\ h' = g /\ pos' = pos + n /\ end' = end
  <2>1. pc' = After(pc, g, pos + n) /\ h' = g /\ pos' = pos + n /\ end' = end
    BY DEF Take
  <2>2. After("dataChecksum", g, pos + n) = "flags"
    <3>1. \A k, q : After("dataChecksum", k, q) = "flags"
      BY AfterFacts
    <3> QED BY <3>1
  <2> QED BY <1>1, <2>1, <2>2
<1>3. h.optional = <<>> /\ h.chunks = <<>> /\ DOMAIN h.chunks = {}
  <2>1. h.optional = <<>> /\ h.chunks = <<>>
    BY DEF ReadInv, Elements, PlainPcs, PrefacePcs
  <2> QED BY <2>1
<1>4. Elements'
  BY <1>1, <1>2, <1>3 DEF ReadInv, HeaderTypeOK, Elements, LeadPcs, PrefacePcs, PlainPcs,
    ElementPcs, IndexPcs, CountPcs, EntryPcs
<1>5. ValuesOK'
  <2>1. (\A k \in DOMAIN h.chunks : ChunkFits(h, h.chunks[k]))'
    BY <1>1, <1>2, <1>3
  <2> QED BY <1>1, <1>2, <2>1 DEF ReadInv, ValuesOK, Valid, LeadPcs, PrefacePcs, PlainPcs,
      ElementPcs, IndexPcs, CountPcs, EntryPcs
<1>6. pc \in PrefacePcs /\ pc' \in PrefacePcs
  BY <1>2 DEF LeadPcs, PrefacePcs, PlainPcs, ElementPcs, IndexPcs, CountPcs, EntryPcs
<1>7. ReadSoFar'
  <2>1. PrefacePart(pc', g) = PrefacePart(pc, h) \o Here(n)
    BY <1>1, <1>2, PrefaceParts, ConcatEmptySeq
  <2>2. Covers(Here(n), Here(n))
    BY DEF Covers
  <2> QED BY <1>1, <1>6, <2>1, <2>2, TakePreface, BaseIsNat DEF ReadInv
<1> QED BY <1>1, <1>4, <1>5, <1>6, <1>7, TakeKeeps, PcSets

(* The compression type.                                                    *)
LEMMA CompressionStep ==
  ASSUME ReadInv, pc = "compression", NEW n \in Nat, NEW v \in Nat, Valid("compression", v),
         pos + n <= end,
         NEW g, g = [h EXCEPT !["compression"] = v], Take(n, g),
         Here(n) \in Seq(Unit), Covers(Here(n), CInt(v))
  PROVE  ReadInv'
<1>1. /\ g \in Fields /\ g.compression = v /\ h \in Fields
      /\ g.ckType = h.ckType /\ g.dataChecksum = h.dataChecksum /\ g.flags = h.flags
         /\ g.optCount = h.optCount /\ g.optId = h.optId
      /\ g.optSize = h.optSize /\ g.optional = h.optional /\ g.chunks = h.chunks
  BY DEF ReadInv, HeaderTypeOK, Fields
<1>2. (pc' = IF Has(h.flags, OptionalElements) THEN "optCount" ELSE "indexSize") /\ h' = g
      /\ pos' = pos + n /\ end' = end
  <2>1. pc' = After(pc, g, pos + n) /\ h' = g /\ pos' = pos + n /\ end' = end
    BY DEF Take
  <2>2. After("compression", g, pos + n) = IF Has(g.flags, OptionalElements)
        THEN "optCount" ELSE "indexSize"
    <3>1. \A k, q : After("compression", k, q) = IF Has(k.flags, OptionalElements)
          THEN "optCount" ELSE "indexSize"
      BY AfterFacts
    <3> QED BY <3>1
  <2> QED BY <1>1, <2>1, <2>2
<1>3. h.optional = <<>> /\ h.chunks = <<>> /\ DOMAIN h.chunks = {}
  <2>1. h.optional = <<>> /\ h.chunks = <<>>
    BY DEF ReadInv, Elements, PlainPcs, PrefacePcs
  <2> QED BY <2>1
<1>4. Elements'
  BY <1>1, <1>2, <1>3 DEF ReadInv, HeaderTypeOK, Elements, LeadPcs, PrefacePcs, PlainPcs,
    ElementPcs, IndexPcs, CountPcs, EntryPcs
<1>5. ValuesOK'
  <2>1. (\A k \in DOMAIN h.chunks : ChunkFits(h, h.chunks[k]))'
    BY <1>1, <1>2, <1>3
  <2> QED BY <1>1, <1>2, <2>1 DEF ReadInv, ValuesOK, Valid, LeadPcs, PrefacePcs, PlainPcs,
      ElementPcs, IndexPcs, CountPcs, EntryPcs
<1>6. pc \in PrefacePcs /\ pc' \in PrefacePcs
  BY <1>2 DEF LeadPcs, PrefacePcs, PlainPcs, ElementPcs, IndexPcs, CountPcs, EntryPcs
<1>7. ReadSoFar'
  <2>1. PrefacePart(pc', g) = PrefacePart(pc, h) \o CInt(v)
    <3>1. Plains(g) = PrefacePart("compression", h) \o CInt(v) /\ Plains(g) \in Seq(Unit)
      BY <1>1, PrefaceParts, PartsTyped DEF Plains
    <3>2. ~Has(h.flags, OptionalElements) => Preface(g) = Plains(g)
      BY <1>1, <3>1, ConcatEmptySeq DEF Preface
    <3> QED BY <1>2, <3>1, <3>2, PrefaceParts
  <2> QED BY <1>1, <1>6, <2>1, TakePreface, BaseIsNat, CIntFacts DEF ReadInv
<1> QED BY <1>1, <1>4, <1>5, <1>6, <1>7, TakeKeeps, PcSets

(* The number of the optional elements.                                     *)
LEMMA OptCountStep ==
  ASSUME ReadInv, pc = "optCount", NEW n \in Nat, NEW v \in Nat, pos + n <= end,
         NEW g, g = [h EXCEPT !["optCount"] = v], Take(n, g),
         Here(n) \in Seq(Unit), Covers(Here(n), CInt(v))
  PROVE  ReadInv'
<1>1. /\ g \in Fields /\ g.optCount = v /\ h \in Fields
      /\ g.ckType = h.ckType /\ g.dataChecksum = h.dataChecksum /\ g.flags = h.flags
         /\ g.compression = h.compression /\ g.optId = h.optId
      /\ g.optSize = h.optSize /\ g.optional = h.optional /\ g.chunks = h.chunks
  BY DEF ReadInv, HeaderTypeOK, Fields
<1>2. (pc' = IF Len(h.optional) < v THEN "optId" ELSE "indexSize") /\ h' = g
      /\ pos' = pos + n /\ end' = end
  <2>1. pc' = After(pc, g, pos + n) /\ h' = g /\ pos' = pos + n /\ end' = end
    BY DEF Take
  <2>2. After("optCount", g, pos + n) = IF Len(g.optional) < g.optCount THEN "optId"
        ELSE "indexSize"
    <3>1. \A k, q : After("optCount", k, q) = IF Len(k.optional) < k.optCount THEN "optId"
          ELSE "indexSize"
      BY AfterFacts
    <3> QED BY <3>1
  <2> QED BY <1>1, <2>1, <2>2
<1>3. h.optional = <<>> /\ h.chunks = <<>> /\ DOMAIN h.chunks = {} /\ Len(h.optional) = 0
  <2>1. h.optional = <<>> /\ h.chunks = <<>>
    BY DEF ReadInv, Elements, PlainPcs, PrefacePcs
  <2> QED BY <2>1
<1>4. Elements'
  BY <1>1, <1>2, <1>3 DEF ReadInv, HeaderTypeOK, Elements, LeadPcs, PrefacePcs, PlainPcs,
    ElementPcs, IndexPcs, CountPcs, EntryPcs
<1>5. ValuesOK'
  <2>1. (\A k \in DOMAIN h.chunks : ChunkFits(h, h.chunks[k]))'
    BY <1>1, <1>2, <1>3
  <2> QED BY <1>1, <1>2, <2>1 DEF ReadInv, ValuesOK, Valid, LeadPcs, PrefacePcs, PlainPcs,
      ElementPcs, IndexPcs, CountPcs, EntryPcs
<1>6. pc \in PrefacePcs /\ pc' \in PrefacePcs
  BY <1>2 DEF LeadPcs, PrefacePcs, PlainPcs, ElementPcs, IndexPcs, CountPcs, EntryPcs
<1>7. ReadSoFar'
  <2>1. PrefacePart(pc', g) = PrefacePart(pc, h) \o CInt(v)
    <3>1. Plains(g) = PrefacePart("optCount", h)
      BY <1>1, PrefaceParts DEF Plains
    <3>2. OptionalBytes(g.optional) = <<>>
      BY <1>1, <1>3, OptionalAppended DEF Fields
    <3>3. CInt(v) \o OptionalBytes(g.optional) = CInt(v)
      BY <3>2, CIntFacts, ConcatEmptySeq
    <3>4. Has(g.flags, OptionalElements)
      BY <1>1 DEF ReadInv, Elements
    <3>5. Preface(g) = Plains(g) \o CInt(v)
      BY <1>1, <3>3, <3>4 DEF Preface
    <3> QED BY <1>2, <3>1, <3>5, PrefaceParts
  <2> QED BY <1>1, <1>6, <2>1, TakePreface, BaseIsNat, CIntFacts DEF ReadInv
<1> QED BY <1>1, <1>4, <1>5, <1>6, <1>7, TakeKeeps, PcSets

(* The id of an optional element.                                           *)
LEMMA OptIdStep ==
  ASSUME ReadInv, pc = "optId", NEW n \in Nat, NEW v \in Nat, pos + n <= end,
         NEW g, g = [h EXCEPT !["optId"] = v], Take(n, g),
         Here(n) \in Seq(Unit), Covers(Here(n), CInt(v))
  PROVE  ReadInv'
<1>1. /\ g \in Fields /\ g.optId = v /\ h \in Fields
      /\ g.ckType = h.ckType /\ g.dataChecksum = h.dataChecksum /\ g.flags = h.flags
         /\ g.compression = h.compression /\ g.optCount = h.optCount
      /\ g.optSize = h.optSize /\ g.optional = h.optional /\ g.chunks = h.chunks
  BY DEF ReadInv, HeaderTypeOK, Fields
<1>2. pc' = "optSize" /\ h' = g /\ pos' = pos + n /\ end' = end
  <2>1. pc' = After(pc, g, pos + n) /\ h' = g /\ pos' = pos + n /\ end' = end
    BY DEF Take
  <2>2. After("optId", g, pos + n) = "optSize"
    <3>1. \A k, q : After("optId", k, q) = "optSize"
      BY AfterFacts
    <3> QED BY <3>1
  <2> QED BY <1>1, <2>1, <2>2
<1>3. h.chunks = <<>> /\ DOMAIN h.chunks = {}
  <2>1. h.chunks = <<>>
    BY DEF ReadInv, Elements, PlainPcs, PrefacePcs, ElementPcs, CountPcs
  <2> QED BY <2>1
<1>4. Elements'
  BY <1>1, <1>2, <1>3 DEF ReadInv, HeaderTypeOK, Elements, LeadPcs, PrefacePcs, PlainPcs,
    ElementPcs, IndexPcs, CountPcs, EntryPcs
<1>5. ValuesOK'
  <2>1. (\A k \in DOMAIN h.chunks : ChunkFits(h, h.chunks[k]))'
    BY <1>1, <1>2, <1>3
  <2> QED BY <1>1, <1>2, <2>1 DEF ReadInv, ValuesOK, Valid, LeadPcs, PrefacePcs, PlainPcs,
      ElementPcs, IndexPcs, CountPcs, EntryPcs
<1>6. pc \in PrefacePcs /\ pc' \in PrefacePcs
  BY <1>2 DEF LeadPcs, PrefacePcs, PlainPcs, ElementPcs, IndexPcs, CountPcs, EntryPcs
<1>7. ReadSoFar'
  <2>1. PrefacePart(pc', g) = PrefacePart(pc, h) \o CInt(v)
    <3>1. Preface(g) = Preface(h)
      BY <1>1, PrefaceSame
    <3> QED BY <1>1, <1>2, <3>1, PrefaceParts
  <2> QED BY <1>1, <1>6, <2>1, TakePreface, BaseIsNat, CIntFacts DEF ReadInv
<1> QED BY <1>1, <1>4, <1>5, <1>6, <1>7, TakeKeeps, PcSets

(* The size of an optional element.                                         *)
LEMMA OptSizeStep ==
  ASSUME ReadInv, pc = "optSize", NEW n \in Nat, NEW v \in Nat, pos + n <= end,
         NEW g, g = [h EXCEPT !["optSize"] = v], Take(n, g),
         Here(n) \in Seq(Unit), Covers(Here(n), CInt(v))
  PROVE  ReadInv'
<1>1. /\ g \in Fields /\ g.optSize = v /\ h \in Fields
      /\ g.ckType = h.ckType /\ g.dataChecksum = h.dataChecksum /\ g.flags = h.flags
         /\ g.compression = h.compression /\ g.optCount = h.optCount
      /\ g.optId = h.optId /\ g.optional = h.optional /\ g.chunks = h.chunks
  BY DEF ReadInv, HeaderTypeOK, Fields
<1>2. pc' = "optData" /\ h' = g /\ pos' = pos + n /\ end' = end
  <2>1. pc' = After(pc, g, pos + n) /\ h' = g /\ pos' = pos + n /\ end' = end
    BY DEF Take
  <2>2. After("optSize", g, pos + n) = "optData"
    <3>1. \A k, q : After("optSize", k, q) = "optData"
      BY AfterFacts
    <3> QED BY <3>1
  <2> QED BY <1>1, <2>1, <2>2
<1>3. h.chunks = <<>> /\ DOMAIN h.chunks = {}
  <2>1. h.chunks = <<>>
    BY DEF ReadInv, Elements, PlainPcs, PrefacePcs, ElementPcs, CountPcs
  <2> QED BY <2>1
<1>4. Elements'
  BY <1>1, <1>2, <1>3 DEF ReadInv, HeaderTypeOK, Elements, LeadPcs, PrefacePcs, PlainPcs,
    ElementPcs, IndexPcs, CountPcs, EntryPcs
<1>5. ValuesOK'
  <2>1. (\A k \in DOMAIN h.chunks : ChunkFits(h, h.chunks[k]))'
    BY <1>1, <1>2, <1>3
  <2> QED BY <1>1, <1>2, <2>1 DEF ReadInv, ValuesOK, Valid, LeadPcs, PrefacePcs, PlainPcs,
      ElementPcs, IndexPcs, CountPcs, EntryPcs
<1>6. pc \in PrefacePcs /\ pc' \in PrefacePcs
  BY <1>2 DEF LeadPcs, PrefacePcs, PlainPcs, ElementPcs, IndexPcs, CountPcs, EntryPcs
<1>7. ReadSoFar'
  <2>1. PrefacePart(pc', g) = PrefacePart(pc, h) \o CInt(v)
    <3>1. Preface(g) = Preface(h)
      BY <1>1, PrefaceSame
    <3> QED BY <1>1, <1>2, <3>1, PrefaceParts
  <2> QED BY <1>1, <1>6, <2>1, TakePreface, BaseIsNat, CIntFacts DEF ReadInv
<1> QED BY <1>1, <1>4, <1>5, <1>6, <1>7, TakeKeeps, PcSets

(* The data of an optional element, which completes it.                     *)
LEMMA OptDataStep ==
  ASSUME ReadInv, pc = "optData", NEW n \in Nat, n = h.optSize, pos + n <= end,
         Here(n) \in Seq(Unit), Len(Here(n)) = n,
         NEW e, e = [id |-> h.optId, data |-> Here(n)],
         NEW g, g = [h EXCEPT !.optional = Append(h.optional, e)], Take(n, g)
  PROVE  ReadInv'
<1>1. /\ g \in Fields /\ g.optional = Append(h.optional, e) /\ h \in Fields
      /\ g.ckType = h.ckType /\ g.dataChecksum = h.dataChecksum /\ g.flags = h.flags
         /\ g.compression = h.compression
      /\ g.optCount = h.optCount /\ g.optId = h.optId /\ g.optSize = h.optSize
         /\ g.chunks = h.chunks
      /\ e \in Element /\ h.optional \in Seq(Element)
  <2>1. h \in Fields /\ h.optional \in Seq(Element) /\ h.optId \in Nat
    BY DEF ReadInv, HeaderTypeOK, Fields
  <2>2. e \in Element
    BY <2>1 DEF Element
  <2>3. Append(h.optional, e) \in Seq(Element)
    BY <2>1, <2>2, AppendProperties
  <2> HIDE DEF Element
  <2> QED BY <2>1, <2>2, <2>3 DEF Fields
<1>9. Len(g.optional) = Len(h.optional) + 1 /\ Len(h.optional) \in Nat /\ h.optCount \in Nat
  BY <1>1, AppendProperties, LenProperties DEF Fields
<1>2. (pc' = IF Len(g.optional) < h.optCount THEN "optId" ELSE "indexSize") /\ h' = g
      /\ pos' = pos + n /\ end' = end
  <2>1. pc' = After(pc, g, pos + n) /\ h' = g /\ pos' = pos + n /\ end' = end
    BY DEF Take
  <2>2. After("optData", g, pos + n) = IF Len(g.optional) < g.optCount THEN "optId"
        ELSE "indexSize"
    <3>1. \A k, q : After("optData", k, q) = IF Len(k.optional) < k.optCount THEN "optId"
          ELSE "indexSize"
      BY AfterFacts
    <3> QED BY <3>1
  <2> QED BY <1>1, <2>1, <2>2
<1>3. h.chunks = <<>> /\ DOMAIN h.chunks = {}
  <2>1. h.chunks = <<>>
    BY DEF ReadInv, Elements, PlainPcs, PrefacePcs, ElementPcs, CountPcs
  <2> QED BY <2>1
<1>4. Elements'
  BY <1>1, <1>2, <1>3, <1>9 DEF ReadInv, HeaderTypeOK, Elements, LeadPcs, PrefacePcs, PlainPcs,
    ElementPcs, IndexPcs, CountPcs, EntryPcs
<1>5. ValuesOK'
  <2>1. (\A k \in DOMAIN h.chunks : ChunkFits(h, h.chunks[k]))'
    BY <1>1, <1>2, <1>3
  <2> QED BY <1>1, <1>2, <2>1 DEF ReadInv, ValuesOK, Valid, LeadPcs, PrefacePcs, PlainPcs,
      ElementPcs, IndexPcs, CountPcs, EntryPcs
<1>6. pc \in PrefacePcs /\ pc' \in PrefacePcs
  BY <1>2 DEF LeadPcs, PrefacePcs, PlainPcs, ElementPcs, IndexPcs, CountPcs, EntryPcs
<1>7. ReadSoFar'
  <2>1. PrefacePart(pc', g) = PrefacePart(pc, h) \o Here(n)
    <3> DEFINE A == Plains(h)
               B == CInt(h.optCount)
               C == OptionalBytes(h.optional)
               x == CInt(h.optId)
               y == CInt(h.optSize)
               z == Here(n)
    <3>1. Has(g.flags, OptionalElements) /\ Has(h.flags, OptionalElements)
      BY <1>1 DEF ReadInv, Elements, ElementPcs
    <3>2. Plains(g) = A
      BY <1>1 DEF Plains
    <3>3. OptionalBytes(g.optional) = C \o (x \o y \o z)
      BY <1>1, OptionalAppended DEF ElementBytes
    <3>4. Preface(g) = A \o (B \o (C \o (x \o y \o z))) /\ Preface(h) = A \o (B \o C)
      BY <1>1, <3>1, <3>2, <3>3 DEF Preface
    <3>5. A \in Seq(Unit) /\ B \in Seq(Unit) /\ C \in Seq(Unit)
      BY <1>1, PartsTyped
    <3>9. x \in Seq(Unit) /\ y \in Seq(Unit) /\ z \in Seq(Unit)
      BY <1>1, PartsTyped
    <3>6. PrefacePart(pc', g) = Preface(g)
      BY <1>2, PrefaceParts
    <3>7. PrefacePart(pc, h) = Preface(h) \o x \o y
      BY PrefaceParts
    <3> HIDE DEF A, B, C, x, y, z
    <3> DEFINE p == A \o (B \o C)
               d == x \o y \o z
    <3>10. p \in Seq(Unit)
      BY <3>5, Assoc
    <3>11. d \in Seq(Unit)
      BY <3>9, Assoc
    <3>12. p \o d = p \o x \o y \o z
      <4> HIDE DEF p
      <4> QED BY <3>9, <3>10, AssocThree, SMTT(60)
    <3>13. A \o (B \o (C \o d)) = p \o d
      <4> HIDE DEF d
      <4> QED BY <3>5, <3>11, AssocInner, SMTT(60)
    <3> QED BY <3>4, <3>6, <3>7, <3>12, <3>13 DEF z
  <2>2. Covers(Here(n), Here(n))
    BY DEF Covers
  <2> QED BY <1>1, <1>6, <2>1, <2>2, TakePreface, BaseIsNat DEF ReadInv
<1> QED BY <1>1, <1>4, <1>5, <1>6, <1>7, TakeKeeps, PcSets

(* The type of the chunks' digests.                                         *)
LEMMA ChunkTypeStep ==
  ASSUME ReadInv, pc = "chunkType", NEW n \in Nat, NEW v \in Nat, Valid("chunkType", v),
         pos + n <= end,
         NEW g, g = [h EXCEPT !["chunkType"] = v], Take(n, g),
         Here(n) \in Seq(Unit), Covers(Here(n), CInt(v))
  PROVE  ReadInv'
<1>1. /\ g \in Fields /\ g.chunkType = v /\ h \in Fields
      /\ g.ckType = h.ckType /\ g.dataChecksum = h.dataChecksum /\ g.flags = h.flags
         /\ g.compression = h.compression /\ g.optCount = h.optCount /\ g.optional = h.optional
      /\ g.count = h.count /\ g.chunks = h.chunks /\ g.digest = h.digest
         /\ g.uDigest = h.uDigest /\ g.compLength = h.compLength
  BY DEF ReadInv, HeaderTypeOK, Fields
<1>2. pc' = "count" /\ h' = g /\ pos' = pos + n /\ end' = end
  <2>1. pc' = After(pc, g, pos + n) /\ h' = g /\ pos' = pos + n /\ end' = end
    BY DEF Take
  <2>2. After("chunkType", g, pos + n) = "count"
    <3>1. \A k, q : After("chunkType", k, q) = "count"
      BY AfterFacts
    <3> QED BY <3>1
  <2> QED BY <1>1, <2>1, <2>2
<1>3. h.chunks = <<>> /\ DOMAIN h.chunks = {}
  <2>1. h.chunks = <<>>
    BY DEF ReadInv, Elements, PlainPcs, PrefacePcs, ElementPcs, CountPcs
  <2> QED BY <2>1
<1>4. Elements'
  BY <1>1, <1>2, <1>3 DEF ReadInv, HeaderTypeOK, Elements, LeadPcs, PrefacePcs, PlainPcs,
    ElementPcs, IndexPcs, CountPcs, EntryPcs
<1>5. ValuesOK'
  <2>1. (\A k \in DOMAIN h.chunks : ChunkFits(h, h.chunks[k]))'
    BY <1>1, <1>2, <1>3
  <2> QED BY <1>1, <1>2, <2>1 DEF ReadInv, ValuesOK, Valid, LeadPcs, PrefacePcs, PlainPcs,
      ElementPcs, IndexPcs, CountPcs, EntryPcs
<1>6. pc \in IndexPcs /\ pc' \in IndexPcs
  BY <1>2 DEF LeadPcs, PrefacePcs, PlainPcs, ElementPcs, IndexPcs, CountPcs, EntryPcs
<1>7. ReadSoFar'
  <2>1. Preface(g) = Preface(h)
    BY <1>1, PrefaceSame
  <2>2. IndexPart(pc', g) = IndexPart(pc, h) \o CInt(v)
    BY <1>1, <1>2, IndexParts, CIntFacts, ConcatEmptySeq
  <2>3. Covers(Here(n), CInt(v)) /\ CInt(v) \in Seq(Unit)
    BY CIntFacts DEF Covers
  <2> QED BY <1>1, <1>6, <2>1, <2>2, <2>3, TakeIndex, BaseIsNat DEF ReadInv
<1> QED BY <1>1, <1>4, <1>5, <1>6, <1>7, TakeKeeps, PcSets

(* The number of the chunks.                                                *)
LEMMA CountStep ==
  ASSUME ReadInv, pc = "count", NEW n \in Nat, NEW v \in Nat, pos + n <= end,
         NEW g, g = [h EXCEPT !["count"] = v], Take(n, g),
         Here(n) \in Seq(Unit), Covers(Here(n), CInt(v))
  PROVE  ReadInv'
<1>1. /\ g \in Fields /\ g.count = v /\ h \in Fields
      /\ g.ckType = h.ckType /\ g.dataChecksum = h.dataChecksum /\ g.flags = h.flags
         /\ g.compression = h.compression /\ g.optCount = h.optCount /\ g.optional = h.optional
      /\ g.chunkType = h.chunkType /\ g.chunks = h.chunks /\ g.digest = h.digest
         /\ g.uDigest = h.uDigest /\ g.compLength = h.compLength
  BY DEF ReadInv, HeaderTypeOK, Fields
<1>2. (pc' = IF pos + n < end THEN "digest" ELSE "entries") /\ h' = g /\ pos' = pos + n
      /\ end' = end
  <2>1. pc' = After(pc, g, pos + n) /\ h' = g /\ pos' = pos + n /\ end' = end
    BY DEF Take
  <2>2. After("count", g, pos + n) = IF pos + n < end THEN "digest" ELSE "entries"
    <3>1. \A k, q : After("count", k, q) = IF q < end THEN "digest" ELSE "entries"
      BY AfterFacts
    <3> QED BY <3>1
  <2> QED BY <1>1, <2>1, <2>2
<1>3. h.chunks = <<>> /\ DOMAIN h.chunks = {}
  <2>1. h.chunks = <<>>
    BY DEF ReadInv, Elements, PlainPcs, PrefacePcs, ElementPcs, CountPcs
  <2> QED BY <2>1
<1>4. Elements'
  BY <1>1, <1>2, <1>3 DEF ReadInv, HeaderTypeOK, Elements, LeadPcs, PrefacePcs, PlainPcs,
    ElementPcs, IndexPcs, CountPcs, EntryPcs
<1>5. ValuesOK'
  <2>1. (\A k \in DOMAIN h.chunks : ChunkFits(h, h.chunks[k]))'
    BY <1>1, <1>2, <1>3
  <2> QED BY <1>1, <1>2, <2>1 DEF ReadInv, ValuesOK, Valid, LeadPcs, PrefacePcs, PlainPcs,
      ElementPcs, IndexPcs, CountPcs, EntryPcs
<1>6. pc \in IndexPcs /\ pc' \in IndexPcs
  BY <1>2 DEF LeadPcs, PrefacePcs, PlainPcs, ElementPcs, IndexPcs, CountPcs, EntryPcs
<1>7. ReadSoFar'
  <2>1. Preface(g) = Preface(h)
    BY <1>1, PrefaceSame
  <2>2. IndexPart(pc', g) = IndexPart(pc, h) \o CInt(v)
    <3>1. CInt(g.chunkType) \o CInt(g.count) \in Seq(Unit) /\ ChunkBytes(g.chunks) = <<>>
      BY <1>1, <1>3, PartsTyped, ChunksAppended DEF Fields
    <3>2. Entries(g) = CInt(g.chunkType) \o CInt(g.count)
      BY <3>1, ConcatEmptySeq DEF Entries
    <3> QED BY <1>1, <1>2, <3>2, IndexParts
  <2>3. Covers(Here(n), CInt(v)) /\ CInt(v) \in Seq(Unit)
    BY CIntFacts DEF Covers
  <2> QED BY <1>1, <1>6, <2>1, <2>2, <2>3, TakeIndex, BaseIsNat DEF ReadInv
<1> QED BY <1>1, <1>4, <1>5, <1>6, <1>7, TakeKeeps, PcSets

(* The digest of a chunk.                                                   *)
LEMMA DigestStep ==
  ASSUME ReadInv, pc = "digest", NEW n \in Nat, n = DigestSize[h.chunkType], pos + n <= end,
         NEW g, g = [h EXCEPT !["digest"] = Here(n)], Take(n, g),
         Here(n) \in Seq(Unit), Len(Here(n)) = n
  PROVE  ReadInv'
<1>1. /\ g \in Fields /\ g.digest = Here(n) /\ h \in Fields
      /\ g.ckType = h.ckType /\ g.dataChecksum = h.dataChecksum /\ g.flags = h.flags
         /\ g.compression = h.compression /\ g.optCount = h.optCount /\ g.optional = h.optional
      /\ g.chunkType = h.chunkType /\ g.count = h.count /\ g.chunks = h.chunks
         /\ g.uDigest = h.uDigest /\ g.compLength = h.compLength
  BY DEF ReadInv, HeaderTypeOK, Fields
<1>2. (pc' = IF Has(h.flags, UncompressedSource) THEN "uDigest" ELSE "compLength") /\ h' = g
      /\ pos' = pos + n /\ end' = end
  <2>1. pc' = After(pc, g, pos + n) /\ h' = g /\ pos' = pos + n /\ end' = end
    BY DEF Take
  <2>2. After("digest", g, pos + n) = IF Has(g.flags, UncompressedSource) THEN "uDigest"
        ELSE "compLength"
    <3>1. \A k, q : After("digest", k, q) = IF Has(k.flags, UncompressedSource)
          THEN "uDigest" ELSE "compLength"
      BY AfterFacts
    <3> QED BY <3>1
  <2> QED BY <1>1, <2>1, <2>2
<1>3. TRUE
  OBVIOUS
<1>4. Elements'
  BY <1>1, <1>2, <1>3 DEF ReadInv, HeaderTypeOK, Elements, LeadPcs, PrefacePcs, PlainPcs,
    ElementPcs, IndexPcs, CountPcs, EntryPcs
<1>5. ValuesOK'
  <2>1. (\A k \in DOMAIN h.chunks : ChunkFits(h, h.chunks[k]))'
    BY <1>1, <1>2 DEF ReadInv, ValuesOK, ChunkFits
  <2> QED BY <1>1, <1>2, <2>1 DEF ReadInv, ValuesOK, Valid, LeadPcs, PrefacePcs, PlainPcs,
      ElementPcs, IndexPcs, CountPcs, EntryPcs
<1>6. pc \in IndexPcs /\ pc' \in IndexPcs
  BY <1>2 DEF LeadPcs, PrefacePcs, PlainPcs, ElementPcs, IndexPcs, CountPcs, EntryPcs
<1>7. ReadSoFar'
  <2>1. Preface(g) = Preface(h)
    BY <1>1, PrefaceSame
  <2>2. IndexPart(pc', g) = IndexPart(pc, h) \o Here(n)
    <3>1. Entries(g) = Entries(h) /\ Entries(g) \o g.digest \in Seq(Unit)
      BY <1>1, PartsTyped DEF Entries
    <3>2. ~Has(h.flags, UncompressedSource) =>
            Entries(g) \o g.digest \o UDigest(g) = Entries(g) \o g.digest
      BY <1>1, <3>1, ConcatEmptySeq DEF UDigest
    <3> QED BY <1>1, <1>2, <3>1, <3>2, IndexParts
  <2>3. Covers(Here(n), Here(n)) /\ Here(n) \in Seq(Unit)
    BY CIntFacts DEF Covers
  <2> QED BY <1>1, <1>6, <2>1, <2>2, <2>3, TakeIndex, BaseIsNat DEF ReadInv
<1> QED BY <1>1, <1>4, <1>5, <1>6, <1>7, TakeKeeps, PcSets

(* The digest of a chunk's uncompressed data.                               *)
LEMMA UDigestStep ==
  ASSUME ReadInv, pc = "uDigest", NEW n \in Nat, n = DigestSize[h.chunkType], pos + n <= end,
         NEW g, g = [h EXCEPT !["uDigest"] = Here(n)], Take(n, g),
         Here(n) \in Seq(Unit), Len(Here(n)) = n
  PROVE  ReadInv'
<1>1. /\ g \in Fields /\ g.uDigest = Here(n) /\ h \in Fields
      /\ g.ckType = h.ckType /\ g.dataChecksum = h.dataChecksum /\ g.flags = h.flags
         /\ g.compression = h.compression /\ g.optCount = h.optCount /\ g.optional = h.optional
      /\ g.chunkType = h.chunkType /\ g.count = h.count /\ g.chunks = h.chunks
         /\ g.digest = h.digest /\ g.compLength = h.compLength
  BY DEF ReadInv, HeaderTypeOK, Fields
<1>2. pc' = "compLength" /\ h' = g /\ pos' = pos + n /\ end' = end
  <2>1. pc' = After(pc, g, pos + n) /\ h' = g /\ pos' = pos + n /\ end' = end
    BY DEF Take
  <2>2. After("uDigest", g, pos + n) = "compLength"
    <3>1. \A k, q : After("uDigest", k, q) = "compLength"
      BY AfterFacts
    <3> QED BY <3>1
  <2> QED BY <1>1, <2>1, <2>2
<1>3. TRUE
  OBVIOUS
<1>4. Elements'
  BY <1>1, <1>2, <1>3 DEF ReadInv, HeaderTypeOK, Elements, LeadPcs, PrefacePcs, PlainPcs,
    ElementPcs, IndexPcs, CountPcs, EntryPcs
<1>5. ValuesOK'
  <2>1. (\A k \in DOMAIN h.chunks : ChunkFits(h, h.chunks[k]))'
    BY <1>1, <1>2 DEF ReadInv, ValuesOK, ChunkFits
  <2> QED BY <1>1, <1>2, <2>1 DEF ReadInv, ValuesOK, Valid, LeadPcs, PrefacePcs, PlainPcs,
      ElementPcs, IndexPcs, CountPcs, EntryPcs
<1>6. pc \in IndexPcs /\ pc' \in IndexPcs
  BY <1>2 DEF LeadPcs, PrefacePcs, PlainPcs, ElementPcs, IndexPcs, CountPcs, EntryPcs
<1>7. ReadSoFar'
  <2>1. Preface(g) = Preface(h)
    BY <1>1, PrefaceSame
  <2>2. IndexPart(pc', g) = IndexPart(pc, h) \o Here(n)
    <3>1. Entries(g) = Entries(h)
      BY <1>1 DEF Entries
    <3>2. UDigest(g) = Here(n)
      BY <1>1 DEF ReadInv, Elements, UDigest
    <3> QED BY <1>1, <1>2, <3>1, <3>2, IndexParts
  <2>3. Covers(Here(n), Here(n)) /\ Here(n) \in Seq(Unit)
    BY CIntFacts DEF Covers
  <2> QED BY <1>1, <1>6, <2>1, <2>2, <2>3, TakeIndex, BaseIsNat DEF ReadInv
<1> QED BY <1>1, <1>4, <1>5, <1>6, <1>7, TakeKeeps, PcSets

(* The compressed length of a chunk.                                        *)
LEMMA CompLengthStep ==
  ASSUME ReadInv, pc = "compLength", NEW n \in Nat, NEW v \in Nat, pos + n <= end,
         NEW g, g = [h EXCEPT !["compLength"] = v], Take(n, g),
         Here(n) \in Seq(Unit), Covers(Here(n), CInt(v))
  PROVE  ReadInv'
<1>1. /\ g \in Fields /\ g.compLength = v /\ h \in Fields
      /\ g.ckType = h.ckType /\ g.dataChecksum = h.dataChecksum /\ g.flags = h.flags
         /\ g.compression = h.compression /\ g.optCount = h.optCount /\ g.optional = h.optional
      /\ g.chunkType = h.chunkType /\ g.count = h.count /\ g.chunks = h.chunks
         /\ g.digest = h.digest /\ g.uDigest = h.uDigest
  BY DEF ReadInv, HeaderTypeOK, Fields
<1>2. pc' = "length" /\ h' = g /\ pos' = pos + n /\ end' = end
  <2>1. pc' = After(pc, g, pos + n) /\ h' = g /\ pos' = pos + n /\ end' = end
    BY DEF Take
  <2>2. After("compLength", g, pos + n) = "length"
    <3>1. \A k, q : After("compLength", k, q) = "length"
      BY AfterFacts
    <3> QED BY <3>1
  <2> QED BY <1>1, <2>1, <2>2
<1>3. TRUE
  OBVIOUS
<1>4. Elements'
  BY <1>1, <1>2, <1>3 DEF ReadInv, HeaderTypeOK, Elements, LeadPcs, PrefacePcs, PlainPcs,
    ElementPcs, IndexPcs, CountPcs, EntryPcs
<1>5. ValuesOK'
  <2>1. (\A k \in DOMAIN h.chunks : ChunkFits(h, h.chunks[k]))'
    BY <1>1, <1>2 DEF ReadInv, ValuesOK, ChunkFits
  <2> QED BY <1>1, <1>2, <2>1 DEF ReadInv, ValuesOK, Valid, LeadPcs, PrefacePcs, PlainPcs,
      ElementPcs, IndexPcs, CountPcs, EntryPcs
<1>6. pc \in IndexPcs /\ pc' \in IndexPcs
  BY <1>2 DEF LeadPcs, PrefacePcs, PlainPcs, ElementPcs, IndexPcs, CountPcs, EntryPcs
<1>7. ReadSoFar'
  <2>1. Preface(g) = Preface(h)
    BY <1>1, PrefaceSame
  <2>2. IndexPart(pc', g) = IndexPart(pc, h) \o CInt(v)
    <3>1. Entries(g) = Entries(h) /\ UDigest(g) = UDigest(h)
      BY <1>1 DEF Entries, UDigest
    <3> QED BY <1>1, <1>2, <3>1, IndexParts
  <2>3. Covers(Here(n), CInt(v)) /\ CInt(v) \in Seq(Unit)
    BY CIntFacts DEF Covers
  <2> QED BY <1>1, <1>6, <2>1, <2>2, <2>3, TakeIndex, BaseIsNat DEF ReadInv
<1> QED BY <1>1, <1>4, <1>5, <1>6, <1>7, TakeKeeps, PcSets

(* The length of a chunk, which completes its entry.                        *)
LEMMA LengthStep ==
  ASSUME ReadInv, pc = "length", NEW n \in Nat, NEW v \in Nat, pos + n <= end,
         Here(n) \in Seq(Unit), Covers(Here(n), CInt(v)),
         NEW e, e = [digest |-> h.digest, compLength |-> h.compLength, length |-> v,
                     uDigest |-> UDigest(h)],
         NEW g, g = [h EXCEPT !.chunks = Append(h.chunks, e)], Take(n, g)
  PROVE  ReadInv'
<1>1. /\ g \in Fields /\ g.chunks = Append(h.chunks, e) /\ h \in Fields
      /\ g.ckType = h.ckType /\ g.dataChecksum = h.dataChecksum /\ g.flags = h.flags
         /\ g.compression = h.compression
      /\ g.optCount = h.optCount /\ g.optional = h.optional /\ g.chunkType = h.chunkType
         /\ g.count = h.count /\ g.digest = h.digest /\ g.uDigest = h.uDigest
            /\ g.compLength = h.compLength
      /\ e \in Entry /\ h.chunks \in Seq(Entry)
  <2>1. h \in Fields /\ h.chunks \in Seq(Entry) /\ h.digest \in Seq(Unit)
        /\ h.compLength \in Nat
    BY DEF ReadInv, HeaderTypeOK, Fields
  <2>2. UDigest(h) \in Seq(Unit)
    BY <2>1, PartsTyped
  <2>3. e \in Entry
    BY <2>1, <2>2 DEF Entry
  <2>4. Append(h.chunks, e) \in Seq(Entry)
    BY <2>1, <2>3, AppendProperties
  <2> HIDE DEF Entry
  <2> QED BY <2>1, <2>3, <2>4 DEF Fields
<1>9. /\ Len(g.chunks) = Len(h.chunks) + 1 /\ Len(h.chunks) \in Nat
         /\ DOMAIN g.chunks = 1 .. Len(h.chunks) + 1
      /\ DOMAIN h.chunks = 1 .. Len(h.chunks)
      /\ g.chunks[Len(h.chunks) + 1] = e
         /\ \A k \in 1 .. Len(h.chunks) : g.chunks[k] = h.chunks[k]
  BY <1>1, AppendProperties, LenProperties
<1>2. (pc' = IF pos + n < end THEN "digest" ELSE "entries") /\ h' = g /\ pos' = pos + n
      /\ end' = end
  <2>1. pc' = After(pc, g, pos + n) /\ h' = g /\ pos' = pos + n /\ end' = end
    BY DEF Take
  <2>2. After("length", g, pos + n) = IF pos + n < end THEN "digest" ELSE "entries"
    <3>1. \A k, q : After("length", k, q) = IF q < end THEN "digest" ELSE "entries"
      BY AfterFacts
    <3> QED BY <3>1
  <2> QED BY <1>1, <2>1, <2>2
<1>3. TRUE
  OBVIOUS
<1>4. Elements'
  <2>1. pc' \in {"digest", "entries"} /\ (pc' = "entries" => pos' = end')
    <3>1. pos \in Nat /\ end \in Nat
      BY DEF ReadInv, HeaderTypeOK
    <3> QED BY <1>2, <3>1
  <2>2. h'.flags = h.flags /\ h'.optional = h.optional /\ h'.optCount = h.optCount
    BY <1>1, <1>2
  <2>3. IF Has(h.flags, OptionalElements) THEN Len(h.optional) = h.optCount
        ELSE h.optional = <<>>
    BY DEF ReadInv, Elements, IndexPcs, EntryPcs
  <2> QED BY <2>1, <2>2, <2>3 DEF Elements, LeadPcs, PrefacePcs, PlainPcs, ElementPcs, IndexPcs,
      CountPcs, EntryPcs
<1>5. ValuesOK'
  <2>1. (\A k \in DOMAIN h.chunks : ChunkFits(h, h.chunks[k]))'
    <3>1. \A k \in 1 .. Len(h.chunks) : ChunkFits(h, h.chunks[k])
      BY <1>9 DEF ReadInv, ValuesOK
    <3>2. ChunkFits(g, e)
      BY <1>1 DEF ReadInv, ValuesOK, ChunkFits, UDigest
    <3>3. \A k \in DOMAIN g.chunks : ChunkFits(g, g.chunks[k])
      BY <1>1, <1>9, <3>1, <3>2 DEF ChunkFits
    <3> QED BY <1>2, <3>3
  <2> QED BY <1>1, <1>2, <2>1 DEF ReadInv, ValuesOK, Valid, LeadPcs, PrefacePcs, PlainPcs,
      ElementPcs, IndexPcs, CountPcs, EntryPcs
<1>6. pc \in IndexPcs /\ pc' \in IndexPcs
  BY <1>2 DEF LeadPcs, PrefacePcs, PlainPcs, ElementPcs, IndexPcs, CountPcs, EntryPcs
<1>7. ReadSoFar'
  <2>1. Preface(g) = Preface(h)
    BY <1>1, PrefaceSame
  <2>2. IndexPart(pc', g) = IndexPart(pc, h) \o CInt(v)
    <3> DEFINE M == CInt(h.chunkType) \o CInt(h.count)
               B == ChunkBytes(h.chunks)
               x == h.digest
               y == UDigest(h)
               z == CInt(h.compLength)
               w == CInt(v)
               d == x \o y \o z \o w
               p == M \o B
    <3>1. ChunkBytes(g.chunks) = B \o d
      <4>1. ChunkBytes(Append(h.chunks, e)) = B \o EntryBytes(e)
        BY <1>1, ChunksAppended
      <4>2. EntryBytes(e) = d
        BY DEF EntryBytes
      <4> QED BY <1>1, <4>1, <4>2
    <3>2. Entries(g) = M \o (B \o d) /\ Entries(h) = p
      BY <1>1, <3>1 DEF Entries
    <3>3. M \in Seq(Unit) /\ B \in Seq(Unit)
      BY <1>1, PartsTyped
    <3>4. x \in Seq(Unit) /\ y \in Seq(Unit) /\ z \in Seq(Unit) /\ p \in Seq(Unit)
      BY <1>1, <3>2, PartsTyped
    <3>5. w \in Seq(Unit)
      BY CIntFacts
    <3>6. IndexPart(pc, h) = p \o x \o y \o z
      BY <3>2, IndexParts
    <3>7. IndexPart(pc', g) = M \o (B \o d)
      <4>1. pc' \in {"digest", "entries"}
        BY <1>2
      <4>2. IndexPart(pc', g) = Entries(g)
        BY <4>1, IndexParts
      <4> QED BY <3>2, <4>2
    <3> HIDE DEF M, B, x, y, z, w
    <3>8. d \in Seq(Unit)
      <4>1. x \o y \o z \in Seq(Unit)
        BY <3>4, Assoc
      <4> QED BY <3>5, <4>1, Assoc
    <3>9. p \o d = p \o x \o y \o z \o w
      <4> DEFINE c == x \o y \o z
      <4>1. c \in Seq(Unit)
        BY <3>4, Assoc, SMTT(60)
      <4>2. p \o c = p \o x \o y \o z
        <5>1. x \in Seq(Unit) /\ y \in Seq(Unit) /\ z \in Seq(Unit) /\ p \in Seq(Unit)
          BY <3>4
        <5> HIDE DEF p
        <5> QED BY <5>1, AssocThree, SMTT(60)
      <4> HIDE DEF c, p
      <4>3. p \in Seq(Unit)
        BY <3>4
      <4>4. p \o (c \o w) = (p \o c) \o w
        BY <3>5, <4>1, <4>3, Assoc, SMTT(60)
      <4> QED BY <4>2, <4>4 DEF c
    <3>10. M \o (B \o d) = p \o d
      <4> HIDE DEF d
      <4> QED BY <3>3, <3>8, Assoc, SMTT(60)
    <3> QED BY <3>6, <3>7, <3>9, <3>10 DEF w
  <2>3. Covers(Here(n), CInt(v)) /\ CInt(v) \in Seq(Unit)
    BY CIntFacts DEF Covers
  <2> QED BY <1>1, <1>6, <2>1, <2>2, <2>3, TakeIndex, BaseIsNat DEF ReadInv
<1> QED BY <1>1, <1>4, <1>5, <1>6, <1>7, TakeKeeps, PcSets

----------------------------------------------------------------------------
(* The actions *)

(* One lemma per action: it keeps the invariant. ReadMagic.                 *)
LEMMA MagicStep ==
  ASSUME ReadInv, ReadMagic
  PROVE  ReadInv'
<1>1. pc = "magic" /\ pc \in LeadPcs /\ "ckType" \in LeadPcs
  BY DEF ReadMagic, LeadPcs
<1>2. CASE Fits(1) /\ Take(1, h)
  <2>1. pc' = "ckType"
    BY <1>1, <1>2, AfterFacts DEF Take
  <2>2. h \in Fields /\ pos + 1 <= end
    BY <1>2 DEF ReadInv, HeaderTypeOK, Fits
  <2> QED BY <1>1, <1>2, <2>1, <2>2, LeadStep
<1>3. CASE Fits(1) /\ Take(1, [h EXCEPT !.detached = TRUE])
  <2> DEFINE g == [h EXCEPT !.detached = TRUE]
  <2>1. g \in Fields /\ g.optional = h.optional /\ g.chunks = h.chunks
    BY DEF ReadInv, HeaderTypeOK, Fields
  <2>2. Take(1, g)
    BY <1>3
  <2> HIDE DEF g
  <2>3. pc' = "ckType"
    BY <1>1, <2>2, AfterFacts DEF Take
  <2>4. pos + 1 <= end
    BY <1>3 DEF Fits
  <2> QED BY <1>1, <2>1, <2>2, <2>3, <2>4, LeadStep
<1>4. CASE Reject
  BY <1>4, RejectStep
<1> QED BY <1>2, <1>3, <1>4, Zenon DEF ReadMagic

(* An integer of the lead.                                                  *)
LEMMA LeadIntStep ==
  ASSUME ReadInv, NEW f \in {"ckType", "headerSize"}, pc = f,
         NEW n \in Nat, NEW v \in Nat, Valid(f, v), pos + n <= end,
         NEW g, g = [h EXCEPT ![f] = v], Take(n, g)
  PROVE  ReadInv'
<1>1. g \in Fields /\ g.optional = h.optional /\ g.chunks = h.chunks
  BY DEF ReadInv, HeaderTypeOK, Fields
<1>2. pc' = After(f, g, pos + n)
  BY DEF Take
<1>3. pc \in LeadPcs
  BY DEF LeadPcs
<1>4. pc' \in LeadPcs
  <2>1. \A k, q : After(f, k, q) \in {"headerSize", "checksum"}
    BY AfterFacts
  <2> QED BY <1>2, <2>1 DEF LeadPcs
<1>5. g.ckType \in DOMAIN DigestSize
  <2>1. CASE f = "ckType"
    <3>1. g.ckType = v
      BY <2>1 DEF ReadInv, HeaderTypeOK, Fields
    <3> QED BY <2>1, <3>1 DEF Valid
  <2>2. CASE f = "headerSize"
    <3>1. g.ckType = h.ckType
      BY <2>2 DEF ReadInv, HeaderTypeOK, Fields
    <3> QED BY <2>2, <3>1 DEF ReadInv, HeaderTypeOK
  <2> QED BY <2>1, <2>2
<1> QED BY <1>1, <1>3, <1>4, <1>5, LeadStep

(* The header's checksum, the last field of the lead.                       *)
LEMMA ChecksumStep ==
  ASSUME ReadInv, pc = "checksum", NEW n \in Nat, pos + n <= end, Here(n) \in Seq(Unit),
         NEW g, g = [h EXCEPT !["checksum"] = Here(n)], Take(n, g)
  PROVE  ReadInv'
<1>1. g \in Fields /\ g.optional = h.optional /\ g.chunks = h.chunks /\ g.ckType = h.ckType
  BY DEF ReadInv, HeaderTypeOK, Fields
<1>2. pc' = After("checksum", g, pos + n)
  BY DEF Take
<1>3. pc \in LeadPcs
  BY DEF LeadPcs
<1>4. pc' \in LeadPcs
  <2>1. \A k, q : After("checksum", k, q) = "header"
    BY AfterFacts
  <2> QED BY <1>2, <2>1 DEF LeadPcs
<1>5. g.ckType \in DOMAIN DigestSize
  BY <1>1 DEF ReadInv, HeaderTypeOK
<1> QED BY <1>1, <1>3, <1>4, <1>5, LeadStep

(* What covers a size and every smaller one covers the size.                *)
LEMMA SizeCovered ==
  ASSUME NEW c, NEW v \in Nat, SizeCovers(c, v)
  PROVE  Covers(c, CInt(v))
BY DEF SizeCovers

(* ReadInt, for each of its fields.                                         *)
LEMMA IntStep ==
  ASSUME ReadInv, NEW f \in IntFields, ReadInt(f)
  PROVE  ReadInv'
<1>1. CASE Reject
  BY <1>1, RejectStep
<1>2. ASSUME NEW n \in Nat, NEW v \in Nat,
             pc = f /\ Valid(f, v) /\ pos + n <= end /\ Take(n, [h EXCEPT ![f] = v])
               /\ Here(n) \in Seq(Unit) /\ SizeCovers(Here(n), v)
      PROVE  ReadInv'
  <2> DEFINE g == [h EXCEPT ![f] = v]
  <2>1. pc = f /\ Valid(f, v) /\ pos + n <= end /\ Take(n, g) /\ Here(n) \in Seq(Unit)
        /\ Covers(Here(n), CInt(v))
    BY <1>2, SizeCovered
  <2>2. CASE f \in {"ckType", "headerSize"}
    BY <2>1, <2>2, LeadIntStep
  <2>3. CASE f = "flags"
    BY <2>1, <2>3, FlagsStep
  <2>4. CASE f = "compression"
    BY <2>1, <2>4, CompressionStep
  <2>5. CASE f = "optCount"
    BY <2>1, <2>5, OptCountStep
  <2>6. CASE f = "optId"
    BY <2>1, <2>6, OptIdStep
  <2>7. CASE f = "optSize"
    BY <2>1, <2>7, OptSizeStep
  <2>8. CASE f = "chunkType"
    BY <2>1, <2>8, ChunkTypeStep
  <2>9. CASE f = "count"
    BY <2>1, <2>9, CountStep
  <2>10. CASE f = "compLength"
    BY <2>1, <2>10, CompLengthStep
  <2> QED BY <2>2, <2>3, <2>4, <2>5, <2>6, <2>7, <2>8, <2>9, <2>10 DEF IntFields
<1>3. HeaderTypeOK
  BY DEF ReadInv
<1> QED BY <1>1, <1>2, <1>3, ReadIntStep

(* ReadDigest, for each of its fields.                                      *)
LEMMA DigestsStep ==
  ASSUME ReadInv, NEW f \in DigestFields, ReadDigest(f)
  PROVE  ReadInv'
<1> DEFINE n == DigestSize[IF f \in {"digest", "uDigest"} THEN h.chunkType ELSE h.ckType]
           g == [h EXCEPT ![f] = Here(n)]
<1>1. n \in Nat
  <2>1. pc = f
    BY DEF ReadDigest
  <2>2. (IF f \in {"digest", "uDigest"} THEN h.chunkType ELSE h.ckType) \in DOMAIN DigestSize
    BY <2>1 DEF DigestFields, ReadInv, HeaderTypeOK, ValuesOK, EntryPcs
  <2> QED BY <2>2, HeaderAssumption
<1>2. CASE Reject
  BY <1>2, RejectStep
<1>3. CASE pc = f /\ pos + n <= end /\ Take(n, g) /\ Here(n) \in Seq(Unit) /\ Len(Here(n)) = n
  <2>1. CASE f = "checksum"
    <3> HIDE DEF n
    <3> QED BY <1>1, <1>3, <2>1, ChecksumStep
  <2>2. CASE f = "dataChecksum"
    <3>1. n = DigestSize[h.ckType]
      BY <2>2
    <3> HIDE DEF n
    <3> QED BY <1>1, <1>3, <2>2, <3>1, DataChecksumStep
  <2>3. CASE f = "digest"
    <3>1. n = DigestSize[h.chunkType]
      BY <2>3
    <3> HIDE DEF n
    <3> QED BY <1>1, <1>3, <2>3, <3>1, DigestStep
  <2>4. CASE f = "uDigest"
    <3>1. n = DigestSize[h.chunkType]
      BY <2>4
    <3> HIDE DEF n
    <3> QED BY <1>1, <1>3, <2>4, <3>1, UDigestStep
  <2> QED BY <2>1, <2>2, <2>3, <2>4 DEF DigestFields
<1>4. HeaderTypeOK
  BY DEF ReadInv
<1>5. Reject
      \/ (pc = f /\ pos + n <= end /\ Take(n, g) /\ Here(n) \in Seq(Unit) /\ Len(Here(n)) = n)
  <2> DEFINE m == n
  <2>1. m = DigestSize[IF f \in {"digest", "uDigest"} THEN h.chunkType ELSE h.ckType]
        /\ m \in Nat
    BY <1>1
  <2> HIDE DEF m
  <2>2. Reject
        \/ (pc = f /\ pos + m <= end /\ Take(m, [h EXCEPT ![f] = Here(m)]) /\ Here(m) \in Seq(Unit)
                   /\ Len(Here(m)) = m)
    BY <1>4, <2>1, ReadDigestStep
  <2> QED BY <2>2 DEF m
<1> QED BY <1>2, <1>3, <1>5

(* ReadOptData.                                                             *)
LEMMA OptDatasStep ==
  ASSUME ReadInv, ReadOptData
  PROVE  ReadInv'
<1>1. pc = "optData"
  BY DEF ReadOptData
<1>2. CASE Reject
  BY <1>2, RejectStep
<1> DEFINE n == h.optSize
           e == [id |-> h.optId, data |-> Here(n)]
           g == [h EXCEPT !.optional = Append(h.optional, e)]
<1>3. CASE Fits(n) /\ Take(n, g)
  <2>1. n \in Nat
    BY DEF ReadInv, HeaderTypeOK, Fields
  <2>2. pos + n <= end /\ Take(n, g)
    BY <1>3 DEF Fits
  <2>3. HeaderTypeOK
    BY DEF ReadInv
  <2>4. n = h.optSize
    OBVIOUS
  <2> HIDE DEF n
  <2>5. Here(n) \in Seq(Unit) /\ Len(Here(n)) = n
    BY <2>1, <2>2, <2>3, HereFacts
  <2> HIDE DEF e, g
  <2>6. e = [id |-> h.optId, data |-> Here(n)]
        /\ g = [h EXCEPT !.optional = Append(h.optional, e)]
    BY DEF e, g
  <2> QED BY <1>1, <2>1, <2>2, <2>4, <2>5, <2>6, OptDataStep
<1> QED BY <1>2, <1>3, Zenon DEF ReadOptData

(* ReadLength.                                                              *)
LEMMA LengthsStep ==
  ASSUME ReadInv, ReadLength
  PROVE  ReadInv'
<1> DEFINE r == NextInt
           e == [digest |-> h.digest, compLength |-> h.compLength, length |-> r.value,
                 uDigest |-> UDigest(h)]
           g == [h EXCEPT !.chunks = Append(h.chunks, e)]
<1>1. pc = "length"
  BY DEF ReadLength
<1>2. CASE Reject
  BY <1>2, RejectStep
<1>3. CASE r.err = "nil" /\ Take(r.length, g)
  <2>1. HeaderTypeOK
    BY DEF ReadInv
  <2>2. /\ r.length \in Nat /\ r.value \in Nat /\ pos + r.length <= end
        /\ SizeCovers(Here(r.length), r.value)
    BY <1>3, <2>1, NextIntFacts
  <2>3. Here(r.length) \in Seq(Unit) /\ Covers(Here(r.length), CInt(r.value))
    BY <2>1, <2>2, HereFacts, SizeCovered
  <2> HIDE DEF r, e, g
  <2>4. e = [digest |-> h.digest, compLength |-> h.compLength, length |-> r.value,
             uDigest |-> UDigest(h)]
        /\ g = [h EXCEPT !.chunks = Append(h.chunks, e)]
    BY DEF e, g
  <2> QED BY <1>1, <1>3, <2>2, <2>3, <2>4, LengthStep
<1> QED BY <1>2, <1>3, Zenon DEF ReadLength, UDigest

(* ReadIndexSize: the index starts, and ends where its size says.           *)
LEMMA IndexSizeStep ==
  ASSUME ReadInv, ReadIndexSize
  PROVE  ReadInv'
<1> DEFINE r == NextInt
           n == r.length
           v == r.value
<1>1. pc = "indexSize"
  BY DEF ReadIndexSize
<1>2. CASE Reject
  BY <1>2, RejectStep
<1>3. CASE /\ r.err = "nil" /\ Fits(n + v)
           /\ pos' = pos + n /\ end' = pos + n + v /\ pc' = "chunkType"
           /\ UNCHANGED <<file, turn, src, h, leadLen, results>>
  <2>1. HeaderTypeOK /\ Elements /\ ValuesOK /\ ReadSoFar
    BY DEF ReadInv
  <2>2. n \in Nat /\ v \in Nat /\ pos + n <= end /\ SizeCovers(Here(n), v)
    BY <1>3, <2>1, NextIntFacts
  <2> HIDE DEF r, n, v
  <2>3. pos + (n + v) <= end
    BY <1>3 DEF Fits
  <2>4. /\ pos \in Nat /\ end \in Nat /\ src \in Seq(Unit) /\ end <= Len(src) /\ base \in Nat
           /\ h \in Fields
        /\ Len(src) \in Nat
    BY <2>1, BaseIsNat, LenProperties DEF HeaderTypeOK
  <2>5. base <= pos /\ Covers(SubSeq(src, base + 1, pos), Preface(h))
    BY <1>1, <2>1, PrefaceParts DEF ReadSoFar, PrefacePcs
  <2>6. base' = base
    BY <1>3 DEF base, reader
  <2>7. pos + n \in Nat /\ pos + n + v \in Nat /\ pos + n + v <= end /\ pos + n <= pos + n + v
        /\ (pos + n + v) - (pos + n) = v /\ pos + n <= Len(src)
    BY <2>2, <2>3, <2>4
  <2>8. HeaderTypeOK'
    <3>1. /\ pos' \in Nat /\ end' \in Nat /\ pos' <= end' /\ end' <= Len(src)
      BY <1>3, <2>4, <2>7
    <3>2. h.ckType \in DOMAIN DigestSize
      BY <1>1, <2>1 DEF HeaderTypeOK
    <3>3. "chunkType" \in IndexPcs /\ "chunkType" \notin LeadPcs
      BY DEF IndexPcs, CountPcs, LeadPcs
    <3> QED BY <1>3, <2>1, <3>1, <3>2, <3>3 DEF HeaderTypeOK
  <2>9. Elements'
    BY <1>1, <1>3, <2>1 DEF Elements, LeadPcs, PrefacePcs, PlainPcs, ElementPcs, IndexPcs,
      CountPcs, EntryPcs
  <2>10. ValuesOK'
    <3>1. (\A k \in DOMAIN h.chunks : ChunkFits(h, h.chunks[k]))'
      BY <1>3, <2>1 DEF ValuesOK, ChunkFits
    <3> QED BY <1>1, <1>3, <2>1, <3>1 DEF ValuesOK, PrefacePcs, PlainPcs, ElementPcs, IndexPcs,
        CountPcs, EntryPcs
  <2>11. ReadSoFar'
    <3> DEFINE b == pos + n
    <3>1. b \in Nat /\ b <= Len(src) /\ pos' = b /\ end' - b = v /\ base' <= pos'
          /\ pos \in base' .. pos' /\ b \in pos .. pos'
      BY <1>3, <2>2, <2>4, <2>5, <2>6, <2>7
    <3>2. SizeCovers(SubSeq(src, pos + 1, b), v)
      BY <2>2 DEF Here
    <3> HIDE DEF b
    <3>3. Covers(SubSeq(src, b + 1, b), <<>>)
      BY <2>4, <3>1, EmptyCovers
    <3>4. IndexPart("chunkType", h) = <<>>
      BY IndexParts
    <3>5. /\ Covers(SubSeq(src', base' + 1, pos), Preface(h'))
          /\ SizeCovers(SubSeq(src', pos + 1, b), end' - b)
          /\ Covers(SubSeq(src', b + 1, pos'), IndexPart(pc', h'))
      BY <1>3, <2>5, <2>6, <3>1, <3>2, <3>3, <3>4
    <3>6. \E x \in base' .. pos' : \E y \in x .. pos' :
            /\ Covers(SubSeq(src', base' + 1, x), Preface(h'))
            /\ SizeCovers(SubSeq(src', x + 1, y), end' - y)
            /\ Covers(SubSeq(src', y + 1, pos'), IndexPart(pc', h'))
      BY <3>1, <3>5
    <3>7. pc' \in IndexPcs
      BY <1>3 DEF IndexPcs, CountPcs
    <3> QED BY <3>1, <3>6, <3>7, PcSets DEF ReadSoFar
  <2>12. (\A k \in DOMAIN results : ReadBack(results[k]))'
    BY <1>3 DEF ReadInv
  <2> QED BY <2>8, <2>9, <2>10, <2>11, <2>12 DEF ReadInv
<1> QED BY <1>2, <1>3, Zenon DEF ReadIndexSize

(* FetchHeader: the preface starts.                                         *)
LEMMA FetchStep ==
  ASSUME ReadInv, FetchHeader
  PROVE  ReadInv'
<1> DEFINE from == IF reader = "remote" THEN HeaderStart(h.ckType, h.headerSize) ELSE pos
           hdr == SubSeq(file.units, from + 1, from + h.headerSize)
<1>1. pc = "header" /\ HeaderTypeOK /\ Elements /\ ValuesOK
  BY DEF FetchHeader, ReadInv
<1>2. pc \in LeadPcs /\ end = Len(src) /\ h.ckType \in DOMAIN DigestSize /\ h \in Fields
      /\ pos \in Nat
  BY <1>1 DEF HeaderTypeOK, LeadPcs
<1>3. h.optional = <<>> /\ h.chunks = <<>> /\ DOMAIN h.chunks = {}
  <2>1. h.optional = <<>> /\ h.chunks = <<>>
    BY <1>1, <1>2 DEF Elements
  <2> QED BY <2>1
<1>4. ASSUME pc' = "dataChecksum", UNCHANGED <<file, turn, h, results>>
      PROVE  /\ (\A k \in DOMAIN results : ReadBack(results[k]))' /\ Elements' /\ ValuesOK'
             /\ "dataChecksum" \in PrefacePcs /\ "dataChecksum" \notin LeadPcs
  <2>1. (\A k \in DOMAIN results : ReadBack(results[k]))'
    BY <1>4 DEF ReadInv
  <2>2. Elements'
    BY <1>3, <1>4 DEF Elements, LeadPcs, PrefacePcs, PlainPcs, ElementPcs, IndexPcs, CountPcs,
      EntryPcs
  <2>3. ValuesOK'
    <3>1. (\A k \in DOMAIN h.chunks : ChunkFits(h, h.chunks[k]))'
      BY <1>3, <1>4
    <3> QED BY <1>4, <3>1 DEF ValuesOK, PrefacePcs, PlainPcs, ElementPcs, IndexPcs, CountPcs,
        EntryPcs
  <2> QED BY <2>1, <2>2, <2>3 DEF PrefacePcs, PlainPcs, LeadPcs
<1>5. CASE Reject
  BY <1>5, RejectStep
<1>6. CASE /\ reader = "stream"
           /\ pc' = "dataChecksum" /\ leadLen' = pos
           /\ UNCHANGED <<file, turn, src, pos, end, h, results>>
  <2>1. HeaderTypeOK'
    BY <1>1, <1>2, <1>4, <1>6 DEF HeaderTypeOK
  <2>2. ReadSoFar'
    <3>1. base' = pos /\ pos' = pos
      BY <1>6 DEF base, reader
    <3>2. Covers(SubSeq(src, pos + 1, pos), <<>>)
      <4>1. src \in Seq(Unit) /\ pos \in 0 .. Len(src)
        BY <1>1, LenProperties DEF HeaderTypeOK
      <4> QED BY <4>1, EmptyCovers
    <3>3. PrefacePart("dataChecksum", h') = <<>>
      BY PrefaceParts
    <3>4. /\ base' <= pos' /\ Covers(SubSeq(src', base' + 1, pos'), PrefacePart(pc', h'))
             /\ end' = Len(src')
      BY <1>2, <1>6, <3>1, <3>2, <3>3
    <3>5. pc' \in PrefacePcs
      BY <1>4, <1>6
    <3> QED BY <3>4, <3>5, PcSets DEF ReadSoFar
  <2> QED BY <1>4, <1>6, <2>1, <2>2 DEF ReadInv
<1>7. CASE /\ reader # "stream" /\ from + h.headerSize <= Len(file.units)
           /\ pc' = "dataChecksum" /\ leadLen' = from
           /\ src' = hdr /\ pos' = 0 /\ end' = Len(hdr)
           /\ UNCHANGED <<file, turn, h, results>>
  <2>1. from \in Nat
    <3>1. h.ckType \in Nat /\ h.headerSize \in Nat
      BY <1>2 DEF Fields
    <3>2. Len(CInt(h.ckType)) \in Nat /\ Len(CInt(h.headerSize)) \in Nat
          /\ DigestSize[h.ckType] \in Nat
      BY <1>2, <3>1, CIntFacts, HeaderAssumption
    <3>3. Len(Magic) \in Nat
      <4>1. <<0>> \in Seq(Octet)
        <5>1. 0 \in Octet
          BY RadixFacts DEF Octet
        <5> QED BY <5>1, OneOctet
      <4>2. Magic \in Seq(Unit)
        BY <4>1, PlainFacts DEF Magic
      <4> QED BY <4>2, LenProperties
    <3> QED BY <1>2, <3>2, <3>3 DEF HeaderStart
  <2>2. h.headerSize \in Nat /\ file.units \in Seq(Unit) /\ Len(file.units) \in Nat
    BY <1>1, <1>2, LenProperties DEF Fields, HeaderTypeOK
  <2> HIDE DEF from
  <2>3. hdr \in Seq(Unit) /\ Len(hdr) \in Nat
    <3> DEFINE q == from + h.headerSize
    <3>1. from \in 0 .. Len(file.units) /\ q \in from .. Len(file.units)
      BY <1>7, <2>1, <2>2
    <3> HIDE DEF q
    <3>2. SubSeq(file.units, from + 1, q) \in Seq(Unit)
      BY <2>2, <3>1, SubSeqFacts
    <3> QED BY <3>2, LenProperties DEF q
  <2> HIDE DEF hdr
  <2>4. HeaderTypeOK'
    BY <1>1, <1>2, <1>4, <1>7, <2>1, <2>3 DEF HeaderTypeOK
  <2>5. ReadSoFar'
    <3>1. base' = 0 /\ pos' = 0
      BY <1>7 DEF base, reader
    <3>2. Covers(SubSeq(hdr, 0 + 1, 0), <<>>)
      BY <2>3, EmptyCovers
    <3>3. PrefacePart("dataChecksum", h') = <<>>
      BY PrefaceParts
    <3>4. /\ base' <= pos' /\ Covers(SubSeq(src', base' + 1, pos'), PrefacePart(pc', h'))
             /\ end' = Len(src')
      BY <1>7, <3>1, <3>2, <3>3
    <3>5. pc' \in PrefacePcs
      BY <1>4, <1>7
    <3> QED BY <3>4, <3>5, PcSets DEF ReadSoFar
  <2> QED BY <1>4, <1>7, <2>4, <2>5 DEF ReadInv
<1> QED BY <1>5, <1>6, <1>7, Zenon DEF FetchHeader

(* The index with its size in front: a padded index is written shorter,     *)
(* and its size is then written no longer than it was read.                 *)
LEMMA IndexCovered ==
  ASSUME NEW c \in Seq(Unit), NEW d \in Seq(Unit), NEW w \in Seq(Unit), Covers(d, w),
         SizeCovers(c, Len(d))
  PROVE  Covers(c \o d, CInt(Len(w)) \o w) /\ CInt(Len(w)) \o w \in Seq(Unit)
<1>1. Len(w) \in Nat /\ Len(d) \in Nat /\ Len(c) \in Nat /\ CInt(Len(w)) \in Seq(Unit)
      /\ Len(CInt(Len(w))) \in Nat
  BY LenProperties, CIntFacts
<1>2. CASE Octets(w) = Octets(d)
  <2>1. Len(w) = Len(d)
    <3>1. Len(Octets(w)) = Len(w) /\ Len(Octets(d)) = Len(d)
      BY OctetsFacts
    <3> QED BY <1>2, <3>1
  <2>2. Covers(c, CInt(Len(w)))
    BY <1>1, <2>1, SizeCovered
  <2> QED BY <1>1, <2>2, CoversConcat, OctetsConcat
<1>3. CASE Padded(d) /\ Len(w) < Len(d)
  <2>1. Len(CInt(Len(w))) <= Len(c)
    <3>1. Len(w) \in 0 .. Len(d)
      BY <1>1, <1>3
    <3> QED BY <3>1 DEF SizeCovers
  <2>2. Padded(c \o d)
    BY <1>3, PaddedConcat
  <2>3. Len(c \o d) = Len(c) + Len(d) /\ Len(CInt(Len(w)) \o w) = Len(CInt(Len(w))) + Len(w)
        /\ CInt(Len(w)) \o w \in Seq(Unit)
    BY <1>1, OctetsConcat
  <2>4. Len(CInt(Len(w)) \o w) < Len(c \o d)
    BY <1>1, <1>3, <2>1, <2>3
  <2> QED BY <2>2, <2>3, <2>4 DEF Covers
<1> QED BY <1>2, <1>3 DEF Covers

(* CheckCount: the index has been read to its end.                          *)
LEMMA CheckStep ==
  ASSUME ReadInv, CheckCount
  PROVE  ReadInv'
<1>1. pc = "entries" /\ HeaderTypeOK /\ Elements /\ ValuesOK /\ ReadSoFar
  BY DEF CheckCount, ReadInv
<1>2. CASE Reject
  BY <1>2, RejectStep
<1>3. CASE /\ CountAgrees
           /\ pc' = "sigCount" /\ end' = Len(src)
           /\ UNCHANGED <<file, turn, src, pos, h, leadLen, results>>
  <2>1. h.count = Len(h.chunks) /\ pos = end /\ h \in Fields /\ src \in Seq(Unit)
        /\ pos \in Nat /\ end \in Nat
        /\ pos <= Len(src) /\ Len(src) \in Nat /\ h.ckType \in DOMAIN DigestSize /\ base \in Nat
    BY <1>1, <1>3, BaseIsNat, LenProperties DEF CountAgrees, Elements, HeaderTypeOK
  <2>2. "sigCount" \notin LeadPcs
    BY PcSets
  <2>3. HeaderTypeOK'
    BY <1>1, <1>3, <2>1, <2>2 DEF HeaderTypeOK
  <2>4. Elements'
    BY <1>1, <1>3, <2>1 DEF Elements, LeadPcs, PrefacePcs, PlainPcs, ElementPcs, IndexPcs,
      CountPcs, EntryPcs
  <2>5. ValuesOK'
    <3>1. (\A k \in DOMAIN h.chunks : ChunkFits(h, h.chunks[k]))'
      BY <1>1, <1>3 DEF ValuesOK, ChunkFits
    <3> QED BY <1>1, <1>3, <3>1 DEF ValuesOK, PrefacePcs, PlainPcs, ElementPcs, IndexPcs,
        CountPcs, EntryPcs
  <2>6. ReadSoFar'
    <3>1. base <= pos
      BY <1>1 DEF ReadSoFar, IndexPcs
    <3>2. PICK a \in base .. pos : \E b \in a .. pos :
            /\ Covers(SubSeq(src, base + 1, a), Preface(h))
            /\ SizeCovers(SubSeq(src, a + 1, b), end - b)
            /\ Covers(SubSeq(src, b + 1, pos), IndexPart("entries", h))
      BY <1>1 DEF ReadSoFar, IndexPcs
    <3>3. PICK b \in a .. pos :
            /\ Covers(SubSeq(src, base + 1, a), Preface(h))
            /\ SizeCovers(SubSeq(src, a + 1, b), end - b)
            /\ Covers(SubSeq(src, b + 1, pos), Entries(h))
      BY <3>2, IndexParts
    <3> DEFINE c == SubSeq(src, a + 1, b)
               d == SubSeq(src, b + 1, pos)
               w == Entries(h)
    <3>4. a \in Nat /\ b \in Nat /\ base <= a /\ a <= b /\ b <= pos
      BY <2>1, <3>2, <3>3
    <3>5. c \in Seq(Unit) /\ d \in Seq(Unit) /\ Len(d) = end - b
      <4>1. a \in 0 .. Len(src) /\ b \in a .. Len(src) /\ b \in 0 .. Len(src)
            /\ pos \in b .. Len(src)
        BY <2>1, <3>4
      <4>2. c \in Seq(Unit)
        BY <2>1, <4>1, SubSeqFacts
      <4>3. d \in Seq(Unit) /\ Len(d) = pos - b
        BY <2>1, <4>1, SubSeqFacts
      <4> QED BY <2>1, <4>2, <4>3
    <3>6. w \in Seq(Unit) /\ Preface(h) \in Seq(Unit)
      BY <2>1, PartsTyped
    <3>7. IndexBytes(h) = CInt(Len(w)) \o w
      <4>1. w = CInt(h.chunkType) \o CInt(Len(h.chunks)) \o ChunkBytes(h.chunks)
        BY <2>1 DEF Entries
      <4>2. \A k \in DOMAIN h.chunks :
              Has(h.flags, UncompressedSource) \/ h.chunks[k].uDigest = <<>>
        BY <1>1 DEF ValuesOK, ChunkFits
      <4> HIDE DEF w
      <4>3. IndexBody(h) = w
        BY <4>1, <4>2, BodyOfEntries
      <4> QED BY <4>3 DEF IndexBytes
    <3>8. c \o d = SubSeq(src, a + 1, pos)
      <4>1. a \in 0 .. Len(src) /\ b \in a .. Len(src) /\ pos \in b .. Len(src)
        BY <2>1, <3>4
      <4> QED BY <2>1, <4>1, Joined
    <3>9. Covers(d, w) /\ SizeCovers(c, Len(d))
      BY <3>3, <3>5
    <3> HIDE DEF c, d, w
    <3>10. Covers(c \o d, CInt(Len(w)) \o w) /\ CInt(Len(w)) \o w \in Seq(Unit)
      BY <3>5, <3>6, <3>9, IndexCovered
    <3>11. Covers(SubSeq(src, base + 1, pos), Preface(h) \o IndexBytes(h))
      <4>1. Covers(SubSeq(src, a + 1, pos), IndexBytes(h)) /\ IndexBytes(h) \in Seq(Unit)
        BY <3>7, <3>8, <3>10
      <4>2. a <= pos
        BY <2>1, <3>4
      <4> QED BY <2>1, <3>3, <3>4, <3>6, <4>1, <4>2, CoversMore
    <3>12. base' = base
      BY <1>3 DEF base, reader
    <3>13. /\ base' <= pos'
              /\ Covers(SubSeq(src', base' + 1, pos'), Preface(h') \o IndexBytes(h'))
                 /\ end' = Len(src')
      BY <1>3, <3>1, <3>11, <3>12
    <3> QED BY <1>3, <3>13, PcSets DEF ReadSoFar
  <2>7. (\A k \in DOMAIN results : ReadBack(results[k]))'
    BY <1>3 DEF ReadInv
  <2> QED BY <2>3, <2>4, <2>5, <2>6, <2>7 DEF ReadInv
<1> QED BY <1>2, <1>3, Zenon DEF CheckCount

(* What is accepted is what is written for it, but for padding.             *)
LEMMA CoveredIsReadBack ==
  ASSUME HeaderTypeOK, Elements, ValuesOK, pc = "sigCount",
         NEW c \in Seq(Unit), Covers(c, Preface(h) \o IndexBytes(h) \o CInt(0))
  PROVE  \/ ~Writable(h) /\ EmptyOptional(h)
         \/ Writable(h) /\ Octets(HeaderBody(h)) = Octets(c)
         \/ Writable(h) /\ Padded(c) /\ Len(HeaderBody(h)) < Len(c)
<1>1. IF Has(h.flags, OptionalElements) THEN Len(h.optional) = h.optCount ELSE h.optional = <<>>
  BY DEF Elements
<1>2. CASE Has(h.flags, OptionalElements) /\ h.optional = <<>>
  BY <1>2 DEF Writable, EmptyOptional
<1>3. CASE Has(h.flags, OptionalElements) <=> h.optional # <<>>
  <2>1. Writable(h)
    <3>1. h.flags \in knownFlags /\ h.compression \in CompressionTypes
          /\ h.chunkType \in DOMAIN DigestSize
      BY DEF ValuesOK
    <3>2. \A k \in DOMAIN h.chunks : ChunkFits(h, h.chunks[k])
      BY DEF ValuesOK
    <3> QED BY <1>3, <3>1, <3>2 DEF Writable, ChunkFits
  <2>2. PrefaceBytes(h) = Preface(h)
    <3>1. CASE h.optional = <<>>
      <4>1. PrefaceBytes(h) = Plains(h) \o <<>>
        BY <3>1 DEF PrefaceBytes, Plains
      <4>2. Preface(h) = Plains(h) \o <<>>
        BY <1>3, <3>1 DEF Preface
      <4> QED BY <4>1, <4>2
    <3>2. CASE h.optional # <<>>
      <4>1. PrefaceBytes(h) = Plains(h) \o (CInt(Len(h.optional)) \o OptionalBytes(h.optional))
        BY <3>2 DEF PrefaceBytes, Plains, OptionalBytes, ElementBytes
      <4>2. Preface(h) = Plains(h) \o (CInt(h.optCount) \o OptionalBytes(h.optional))
        BY <1>3, <3>2 DEF Preface
      <4>3. Len(h.optional) = h.optCount
        BY <1>1, <1>3, <3>2
      <4> QED BY <4>1, <4>2, <4>3
    <3> QED BY <3>1, <3>2
  <2>3. HeaderBody(h) = Preface(h) \o IndexBytes(h) \o CInt(0)
    BY <2>2 DEF HeaderBody, SignatureBytes
  <2> QED BY <2>1, <2>3 DEF Covers
<1> QED BY <1>1, <1>2, <1>3

(* ReadSignatures: the header is accepted.                                  *)
LEMMA SignaturesStep ==
  ASSUME ReadInv, ReadSignatures
  PROVE  ReadInv'
<1> DEFINE r == NextInt
           n == r.length
           read == SubSeq(src, IF reader = "stream" THEN leadLen + 1 ELSE 1, pos + n)
           out == [accepted |-> TRUE, fields |-> h, bodyOffset |-> BodyOffset(n), read |-> read]
<1>1. pc = "sigCount" /\ HeaderTypeOK /\ Elements /\ ValuesOK /\ ReadSoFar
  BY DEF ReadSignatures, ReadInv
<1>2. CASE Reject
  BY <1>2, RejectStep
<1>3. CASE r.err = "nil" /\ r.value = 0 /\ Result(out)
  <2>1. n \in Nat /\ pos + n <= end /\ SizeCovers(Here(n), 0)
    <3>1. n \in Nat /\ pos + n <= end /\ SizeCovers(Here(n), r.value)
      BY <1>1, <1>3, NextIntFacts
    <3> QED BY <1>3, <3>1
  <2>2. h \in Fields /\ src \in Seq(Unit) /\ pos \in Nat /\ Len(src) \in Nat /\ base \in Nat
        /\ base <= pos
        /\ leadLen \in Nat /\ end <= Len(src) /\ end \in Nat
    BY <1>1, BaseIsNat, LenProperties DEF HeaderTypeOK, ReadSoFar
  <2> HIDE DEF r, n
  <2>3. read = SubSeq(src, base + 1, pos + n)
    <3>1. CASE reader = "stream"
      BY <3>1 DEF base
    <3>2. CASE reader # "stream"
      <4>1. base + 1 = 1
        BY <3>2 DEF base
      <4> QED BY <3>2, <4>1
    <3> QED BY <3>1, <3>2
  <2> HIDE DEF read
  <2>4. /\ Covers(SubSeq(src, base + 1, pos), Preface(h) \o IndexBytes(h))
        /\ Preface(h) \o IndexBytes(h) \in Seq(Unit)
    <3>1. Preface(h) \in Seq(Unit)
      BY <2>2, PartsTyped
    <3>2. IndexBytes(h) \in Seq(Unit)
      <4> DEFINE w == CInt(h.chunkType) \o CInt(Len(h.chunks)) \o ChunkBytes(h.chunks)
      <4>1. w \in Seq(Unit)
        <5>1. h.chunkType \in Nat /\ h.chunks \in Seq(Entry) /\ Len(h.chunks) \in Nat
          BY <2>2, LenProperties DEF Fields
        <5>2. CInt(h.chunkType) \in Seq(Unit) /\ CInt(Len(h.chunks)) \in Seq(Unit)
              /\ ChunkBytes(h.chunks) \in Seq(Unit)
          BY <5>1, CIntFacts, ChunksAppended
        <5>3. CInt(h.chunkType) \o CInt(Len(h.chunks)) \in Seq(Unit)
          BY <5>2, OctetsConcat
        <5> QED BY <5>2, <5>3, OctetsConcat
      <4>2. \A k \in DOMAIN h.chunks :
              Has(h.flags, UncompressedSource) \/ h.chunks[k].uDigest = <<>>
        BY <1>1 DEF ValuesOK, ChunkFits
      <4>3. IndexBytes(h) = CInt(Len(w)) \o w
        BY <4>2, BodyOfEntries DEF IndexBytes
      <4> HIDE DEF w
      <4> QED BY <4>1, <4>3, LenProperties, CIntFacts, OctetsConcat
    <3> QED BY <1>1, <3>1, <3>2, OctetsConcat DEF ReadSoFar
  <2>5. Covers(read, Preface(h) \o IndexBytes(h) \o CInt(0)) /\ read \in Seq(Unit)
    <3> DEFINE q == pos + n
    <3>1. q \in Nat /\ pos <= q /\ q <= Len(src) /\ base \in 0 .. Len(src)
          /\ q \in base .. Len(src)
      BY <2>1, <2>2
    <3>2. Covers(SubSeq(src, pos + 1, q), CInt(0)) /\ CInt(0) \in Seq(Unit)
      <4>1. Covers(Here(n), CInt(0))
        BY <2>1, SizeCovered
      <4> QED BY <4>1, CIntFacts DEF Here
    <3>3. read = SubSeq(src, base + 1, q)
      BY <2>3
    <3> HIDE DEF q
    <3>4. Covers(SubSeq(src, base + 1, q), (Preface(h) \o IndexBytes(h)) \o CInt(0))
      BY <2>2, <2>4, <3>1, <3>2, CoversMore
    <3>5. SubSeq(src, base + 1, q) \in Seq(Unit)
      BY <2>2, <3>1, SubSeqFacts
    <3> QED BY <3>3, <3>4, <3>5
  <2>6. BodyOffset(n) \in Nat
    <3>1. h.headerSize \in Nat
      BY <2>2 DEF Fields
    <3>2. n \in Nat /\ pos \in Nat /\ leadLen \in Nat
      BY <2>1, <2>2
    <3>3. pos + n \in Nat /\ leadLen + h.headerSize \in Nat
      BY <3>1, <3>2
    <3> QED BY <3>3 DEF BodyOffset
  <2>7. out \in Outcome
    BY <2>2, <2>5, <2>6 DEF Outcome
  <2>8. ReadBack(out)
    BY <1>1, <2>5, CoveredIsReadBack DEF ReadBack
  <2> HIDE DEF out
  <2> QED BY <1>3, <2>7, <2>8, ResultStep
<1> QED BY <1>2, <1>3, Zenon DEF ReadSignatures

(* The first reader starts with nothing read.                               *)
LEMMA ReadInit == Init => ReadInv
<1> SUFFICES ASSUME Init PROVE ReadInv
  OBVIOUS
<1>1. /\ file \in Files /\ results = <<>> /\ turn = 1 /\ pc = "magic" /\ pos = 0 /\ h = Blank
         /\ leadLen = 0
      /\ src = Opened(file.units, Readers[1]) /\ end = Len(src)
  BY DEF Init, Begin
<1>2. file.units \in Seq(Unit)
  BY <1>1, HeaderAssumption
<1>3. src \in Seq(Unit) /\ Len(src) \in Nat
  BY <1>1, <1>2, OpenedFacts
<1>4. results \in Seq(Outcome) /\ DOMAIN results = {}
  BY <1>1, EmptySeq
<1>5. HeaderTypeOK
  BY <1>1, <1>2, <1>3, <1>4, BlankFacts DEF HeaderTypeOK, LeadPcs
<1>6. Elements
  BY <1>1, BlankFacts DEF Elements, LeadPcs, PrefacePcs, PlainPcs, ElementPcs, IndexPcs,
    CountPcs, EntryPcs
<1>7. ValuesOK
  BY <1>1, BlankFacts DEF ValuesOK, PrefacePcs, PlainPcs, ElementPcs, IndexPcs, CountPcs,
    EntryPcs
<1>8. ReadSoFar
  BY <1>1, PcSets DEF ReadSoFar, LeadPcs
<1> QED BY <1>4, <1>5, <1>6, <1>7, <1>8 DEF ReadInv

(* A step that changes nothing.                                             *)
LEMMA ReadStutters ==
  ASSUME ReadInv, UNCHANGED vars
  PROVE  ReadInv'
<1>1. UNCHANGED <<file, turn, pc, src, pos, end, h, leadLen, results>>
  BY DEF vars
<1>2. HeaderTypeOK' /\ Elements'
  BY <1>1 DEF ReadInv, HeaderTypeOK, Elements
<1>3. ValuesOK'
  <2>1. (\A k \in DOMAIN h.chunks : ChunkFits(h, h.chunks[k]))'
    BY <1>1 DEF ReadInv, ValuesOK, ChunkFits
  <2> QED BY <1>1, <2>1 DEF ReadInv, ValuesOK
<1>4. base' = base
  BY <1>1 DEF base, reader
<1>5. ReadSoFar'
  BY <1>1, <1>4 DEF ReadInv, ReadSoFar
<1>6. (\A k \in DOMAIN results : ReadBack(results[k]))'
  BY <1>1 DEF ReadInv
<1> QED BY <1>2, <1>3, <1>5, <1>6 DEF ReadInv

(* ReadInv holds in every state, whatever the files, the digests and        *)
(* their sizes: at every field of every reader, the bytes read so far       *)
(* cover what is written for the fields read from them, and what a reader   *)
(* has accepted it would write as it read it.                               *)
THEOREM ReadingInvariant == Spec => []ReadInv
<1>1. ASSUME ReadInv, [Next]_vars PROVE ReadInv'
  <2>1. CASE ReadMagic
    BY <1>1, <2>1, MagicStep
  <2>2. CASE FetchHeader
    BY <1>1, <2>2, FetchStep
  <2>3. CASE ReadOptData
    BY <1>1, <2>3, OptDatasStep
  <2>4. CASE ReadIndexSize
    BY <1>1, <2>4, IndexSizeStep
  <2>5. CASE ReadLength
    BY <1>1, <2>5, LengthsStep
  <2>6. CASE CheckCount
    BY <1>1, <2>6, CheckStep
  <2>7. CASE ReadSignatures
    BY <1>1, <2>7, SignaturesStep
  <2>8. CASE UNCHANGED vars
    BY <1>1, <2>8, ReadStutters
  <2>9. ASSUME NEW f \in IntFields, ReadInt(f) PROVE ReadInv'
    BY <1>1, <2>9, IntStep
  <2>10. ASSUME NEW f \in DigestFields, ReadDigest(f) PROVE ReadInv'
    BY <1>1, <2>10, DigestsStep
  <2>11. Done => UNCHANGED vars
    BY DEF Done
  <2> QED BY <1>1, <2>1, <2>2, <2>3, <2>4, <2>5, <2>6, <2>7, <2>8, <2>9, <2>10, <2>11 DEF Next
<1> QED BY <1>1, ReadInit, PTL DEF Spec

(* Whatever file a reader accepts, writing the header it read gives the     *)
(* bytes it read or, where they were padded, fewer of them; it cannot       *)
(* write it only if it has a chunk or element no writer makes               *)
(* (NothingIsLostInReading).                                                *)
THEOREM NothingIsLost == Spec => []NothingIsLostInReading
<1>1. ReadInv => NothingIsLostInReading
  BY DEF ReadInv, ReadBack, NothingIsLostInReading
<1> QED BY <1>1, ReadingInvariant, PTL

----------------------------------------------------------------------------
(* The readers agree *)

(* A place of the stream reader in the units u of a file: what it reads     *)
(* next, where, and what it has read.  It starts at StartPlace; GoesOn says *)
(* that it does not stop there, NextPlace where it gets then.               *)
StartPlace(u) == [pc |-> "magic", pos |-> 0, end |-> Len(u), h |-> Blank]

IntAt(u, s)      == ReadCompressedInt(Octets(SubSeq(u, s.pos + 1, s.end)))
TakenAt(u, s, n) == SubSeq(u, s.pos + 1, s.pos + n)
DigestAt(s)      == DigestSize[IF s.pc \in {"digest", "uDigest"} THEN s.h.chunkType ELSE s.h.ckType]
FitsAt(s, n)     == s.pos + n <= s.end

GoesOn(u, s) ==
  \/ s.pc = "magic" /\ FitsAt(s, 1) /\ TakenAt(u, s, 1) \in {Magic, DetachedMagic}
  \/ s.pc \in IntFields /\ IntAt(u, s).err = "nil" /\ Valid(s.pc, IntAt(u, s).value)
  \/ s.pc \in DigestFields /\ FitsAt(s, DigestAt(s))
  \/ s.pc = "header"
  \/ s.pc = "optData" /\ FitsAt(s, s.h.optSize)
  \/ s.pc = "indexSize" /\ IntAt(u, s).err = "nil"
       /\ FitsAt(s, IntAt(u, s).length + IntAt(u, s).value)
  \/ s.pc = "length" /\ IntAt(u, s).err = "nil"
  \/ s.pc = "entries" /\ s.h.count = Len(s.h.chunks)

Onward(s, n, g) ==
  [pc |-> FieldAfter(s.pc, g, s.pos + n < s.end), pos |-> s.pos + n, end |-> s.end, h |-> g]

NextPlace(u, s) ==
  LET r == IntAt(u, s)
  IN  CASE s.pc = "magic" ->
             Onward(s, 1, IF TakenAt(u, s, 1) = Magic THEN s.h ELSE [s.h EXCEPT !.detached = TRUE])
        [] s.pc \in IntFields -> Onward(s, r.length, [s.h EXCEPT ![s.pc] = r.value])
        [] s.pc \in DigestFields ->
             Onward(s, DigestAt(s), [s.h EXCEPT ![s.pc] = TakenAt(u, s, DigestAt(s))])
        [] s.pc = "header" -> [s EXCEPT !.pc = "dataChecksum"]
        [] s.pc = "optData" ->
             Onward(s, s.h.optSize,
                    [s.h EXCEPT !.optional =
                       Append(@, [id |-> s.h.optId, data |-> TakenAt(u, s, s.h.optSize)])])
        [] s.pc = "indexSize" ->
             [pc |-> "chunkType", pos |-> s.pos + r.length, end |-> s.pos + r.length + r.value,
              h |-> s.h]
        [] s.pc = "length" ->
             Onward(s, r.length,
                    [s.h EXCEPT !.chunks =
                       Append(@, [digest |-> s.h.digest, compLength |-> s.h.compLength,
                                  length |-> r.value, uDigest |-> UDigest(s.h)])])
        [] s.pc = "entries" -> [s EXCEPT !.pc = "sigCount", !.end = Len(u)]

(* The stream reader gets to s.                                             *)
Path(u, P, m) ==
  /\ P[0] = StartPlace(u)
  /\ \A i \in 0 .. m - 1 : GoesOn(u, P[i]) /\ P[i + 1] = NextPlace(u, P[i])

Reached(u, s) == \E m \in Nat : \E P : Path(u, P, m) /\ P[m] = s

(* It ends at s with the result r.                                          *)
EndsAt(u, s, r) ==
  /\ ~GoesOn(u, s)
  /\ IF s.pc = "sigCount" /\ IntAt(u, s).err = "nil" /\ IntAt(u, s).value = 0
     THEN r.accepted /\ r.fields = s.h /\ r.bodyOffset = s.pos + IntAt(u, s).length
     ELSE ~r.accepted

(* Where in the file the reader's units begin, and the place in the file    *)
(* that it is at.                                                           *)
shift == IF reader = "stream" \/ pc \in LeadPcs THEN 0 ELSE leadLen

place == [pc |-> pc, pos |-> pos + shift,
          end |-> IF pc \in IndexPcs THEN end + shift ELSE Len(file.units), h |-> h]

SourceOK ==
  /\ Len(src) + shift <= Len(file.units)
  /\ \A k \in 1 .. Len(src) : src[k] = file.units[k + shift]
  /\ reader = "stream" => Len(src) = Len(file.units)

(* The two integers of a lead, and whether they are as short as possible.   *)
TypeInt(units) == ReadCompressedInt(Octets(SubSeq(units, 2, Len(units))))

SizeInt(units) ==
  ReadCompressedInt(Octets(SubSeq(units, 2 + TypeInt(units).length, Len(units))))

ShortestLead(units) ==
  TypeInt(units).err = "nil" /\ SizeInt(units).err = "nil" =>
    TypeInt(units).length + SizeInt(units).length =
      Len(CInt(TypeInt(units).value)) + Len(CInt(SizeInt(units).value))

(* The remote reader looks for the header where a shortest lead ends.       *)
Astray == reader = "remote" /\ ~ShortestLead(file.units)

(* What has been read of the lead.                                          *)
LeadRead ==
  LET t    == TypeInt(file.units)
      size == SizeInt(file.units)
  IN  /\ pc = "magic" => pos = 0
      /\ pc = "ckType" => pos = 1
      /\ pc = "headerSize" =>
           t.err = "nil" /\ t.length \in Nat /\ pos = 1 + t.length /\ h.ckType = t.value
      /\ pc \in {"checksum", "header"} =>
           /\ t.err = "nil" /\ size.err = "nil" /\ t.length \in Nat /\ size.length \in Nat
           /\ h.ckType = t.value /\ h.headerSize = size.value
           /\ pos = 1 + t.length + size.length
                      + IF pc = "header" THEN DigestSize[h.ckType] ELSE 0

AgreeInv ==
  /\ Len(results) = IF pc = "done" THEN Len(Readers) ELSE turn - 1
  /\ pc # "done" => Astray \/ (SourceOK /\ LeadRead /\ Reached(file.units, place))
  /\ Len(results) >= 1 => \E s : Reached(file.units, s) /\ EndsAt(file.units, s, results[1])
  /\ reader # "stream" /\ pc \notin LeadPcs \cup {"done"} => Len(src) = h.headerSize
  /\ \A k \in 2 .. Len(results) : (k = 2 => ShortestLead(file.units)) => Agrees(k)

----------------------------------------------------------------------------
(* What the first n groups denote depends on nothing behind them.           *)
LEMMA DenotedSame ==
  ASSUME NEW s \in Seq(Octet), NEW w \in Seq(Octet), NEW n \in Nat, n <= Len(s), n <= Len(w),
         \A k \in 1 .. n : w[k] = s[k]
  PROVE  Denoted(w)[n] = Denoted(s)[n]
<1> DEFINE Bad == {j \in Nat : j <= n /\ Denoted(w)[j] # Denoted(s)[j]}
<1>1. SUFFICES ASSUME Bad # {} PROVE FALSE
  OBVIOUS
<1>2. PICK j \in Bad : \A k \in Bad : j <= k
  <2>1. Bad \subseteq Nat
    OBVIOUS
  <2> QED BY <1>1, <2>1, NatMin
<1>3. j \in Nat /\ j <= n /\ Denoted(w)[j] # Denoted(s)[j]
  BY <1>2
<1>4. Denoted(w)[0] = 0 /\ Denoted(s)[0] = 0
  BY DenotedFacts
<1>5. j # 0
  BY <1>3, <1>4
<1>6. Len(s) \in Nat /\ Len(w) \in Nat
  BY LenProperties
<1>7. j - 1 \in Nat /\ j - 1 <= n /\ ~(j <= j - 1) /\ j \in 1 .. n /\ j \in 1 .. Len(s)
      /\ j \in 1 .. Len(w)
  BY <1>3, <1>5, <1>6
<1>8. Denoted(w)[j - 1] = Denoted(s)[j - 1]
  BY <1>2, <1>7
<1>9. w[j] = s[j]
  BY <1>7
<1>10. Denoted(w)[j] = Denoted(w)[j - 1] + Payload(w[j]) * Powers(Radix)[j - 1]
  BY <1>7, DenotedFacts
<1>11. Denoted(s)[j] = Denoted(s)[j - 1] + Payload(s[j]) * Powers(Radix)[j - 1]
  BY <1>7, DenotedFacts
<1> QED BY <1>3, <1>8, <1>9, <1>10, <1>11

(* An integer is read from the front of u as from the front of more.        *)
LEMMA SameInteger ==
  ASSUME NEW u \in Seq(Unit), NEW w \in Seq(Unit), Len(u) <= Len(w),
         \A k \in 1 .. Len(u) : w[k] = u[k],
         ReadCompressedInt(Octets(u)).err = "nil"
  PROVE  /\ ReadCompressedInt(Octets(w)) = ReadCompressedInt(Octets(u))
         /\ ReadCompressedInt(Octets(u)).length <= MaxCompressedIntLen
<1> DEFINE s == Octets(u)
           x == Octets(w)
<1>1. /\ s \in Seq(Octet) /\ Len(s) = Len(u) /\ x \in Seq(Octet) /\ Len(x) = Len(w)
      /\ Len(u) \in Nat /\ Len(w) \in Nat
      /\ \A k \in 1 .. Len(u) : s[k] = u[k].octet
      /\ \A k \in 1 .. Len(w) : x[k] = w[k].octet
  BY OctetsFacts
<1>2. \A k \in 1 .. Len(u) : x[k] = s[k]
  BY <1>1
<1>3. ReadCompressedInt(s).err = "nil"
  OBVIOUS
<1> HIDE DEF s, x
<1>4. PICK n \in 1 .. MaxCompressedIntLen : Ends(s, n) /\ Denoted(s)[n] < Values
  BY <1>1, <1>3, ReadOnlyEnds
<1>5. n \in 1 .. Len(s) /\ Final(s[n]) /\ \A k \in 1 .. n - 1 : ~Final(s[k])
  BY <1>4 DEF Ends
<1>6. n \in Nat /\ n <= MaxCompressedIntLen /\ n \in 1 .. Len(x) /\ n <= Len(s) /\ n <= Len(x)
      /\ \A k \in 1 .. n : x[k] = s[k]
  BY <1>1, <1>2, <1>4, <1>5, CompressedIntAssumption
<1>7. Ends(x, n)
  <2>1. \A k \in 1 .. n - 1 : x[k] = s[k]
    BY <1>6
  <2>2. x[n] = s[n]
    BY <1>6
  <2> QED BY <1>5, <1>6, <2>1, <2>2 DEF Ends
<1>8. Denoted(x)[n] = Denoted(s)[n]
  BY <1>1, <1>6, DenotedSame
<1>9. ReadCompressedInt(s) = [err |-> "nil", value |-> Denoted(s)[n], length |-> n]
  BY <1>1, <1>4, <1>6, ReadEnds
<1>10. ReadCompressedInt(x) = [err |-> "nil", value |-> Denoted(s)[n], length |-> n]
  BY <1>1, <1>4, <1>6, <1>7, <1>8, ReadEnds
<1> QED BY <1>6, <1>9, <1>10 DEF s, x

----------------------------------------------------------------------------
(* The stream reader is at its start.                                       *)
LEMMA ReachedStart ==
  ASSUME NEW u
  PROVE  Reached(u, StartPlace(u))
<1> DEFINE P == [i \in Nat |-> StartPlace(u)]
<1>1. P[0] = StartPlace(u)
  OBVIOUS
<1>2. Path(u, P, 0)
  BY <1>1 DEF Path
<1> QED BY <1>1, <1>2 DEF Reached

(* From a place where it goes on it gets to the next one.                   *)
LEMMA ReachedNext ==
  ASSUME NEW u, NEW s, Reached(u, s), GoesOn(u, s)
  PROVE  Reached(u, NextPlace(u, s))
<1>1. PICK m \in Nat : \E P : Path(u, P, m) /\ P[m] = s
  BY DEF Reached
<1>2. PICK P : Path(u, P, m) /\ P[m] = s
  BY <1>1
<1> DEFINE Q == [i \in Nat |-> IF i <= m THEN P[i] ELSE NextPlace(u, s)]
<1>3. m + 1 \in Nat /\ ~(m + 1 <= m) /\ 0 <= m /\ 0 \in Nat /\ (m + 1) - 1 = m
  OBVIOUS
<1>4. Q[m + 1] = NextPlace(u, s) /\ Q[0] = P[0] /\ Q[m] = s
  BY <1>2, <1>3
<1>5. ASSUME NEW i \in 0 .. (m + 1) - 1
      PROVE  GoesOn(u, Q[i]) /\ Q[i + 1] = NextPlace(u, Q[i])
  <2>1. CASE i = m
    BY <1>4, <2>1
  <2>2. CASE i # m
    <3>1. i \in 0 .. m - 1 /\ i \in Nat /\ i <= m /\ i + 1 \in Nat /\ i + 1 <= m
      BY <1>3, <1>5, <2>2
    <3>2. GoesOn(u, P[i]) /\ P[i + 1] = NextPlace(u, P[i])
      BY <1>2, <3>1 DEF Path
    <3>3. Q[i] = P[i] /\ Q[i + 1] = P[i + 1]
      BY <3>1
    <3> QED BY <3>2, <3>3
  <2> QED BY <2>1, <2>2
<1> HIDE DEF Q
<1>6. Path(u, Q, m + 1)
  BY <1>2, <1>4, <1>5 DEF Path
<1> QED BY <1>3, <1>4, <1>6 DEF Reached

(* There is one place at which the stream reader stops.                     *)
LEMMA OneEnd ==
  ASSUME NEW u, NEW s, Reached(u, s), ~GoesOn(u, s), NEW t, Reached(u, t), ~GoesOn(u, t)
  PROVE  s = t
<1>1. PICK m \in Nat : \E P : Path(u, P, m) /\ P[m] = s
  BY DEF Reached
<1>2. PICK P : Path(u, P, m) /\ P[m] = s
  BY <1>1
<1>3. PICK n \in Nat : \E Q : Path(u, Q, n) /\ Q[n] = t
  BY DEF Reached
<1>4. PICK Q : Path(u, Q, n) /\ Q[n] = t
  BY <1>3
<1>5. ASSUME NEW j \in Nat, j <= m, j <= n PROVE P[j] = Q[j]
  <2> DEFINE Bad == {i \in Nat : i <= j /\ P[i] # Q[i]}
  <2>1. SUFFICES ASSUME Bad # {} PROVE FALSE
    BY <1>5
  <2>2. PICK i \in Bad : \A k \in Bad : i <= k
    <3>1. Bad \subseteq Nat
      OBVIOUS
    <3> QED BY <2>1, <3>1, NatMin
  <2>3. i \in Nat /\ i <= j /\ P[i] # Q[i]
    BY <2>2
  <2>4. i # 0
    BY <1>2, <1>4, <2>3 DEF Path
  <2>5. i - 1 \in Nat /\ i - 1 <= j /\ ~(i <= i - 1) /\ i - 1 \in 0 .. m - 1
        /\ i - 1 \in 0 .. n - 1 /\ (i - 1) + 1 = i
    BY <1>5, <2>3, <2>4
  <2>6. P[i - 1] = Q[i - 1]
    BY <2>2, <2>5
  <2>7. P[i] = NextPlace(u, P[i - 1])
    BY <1>2, <2>5 DEF Path
  <2>8. Q[i] = NextPlace(u, Q[i - 1])
    BY <1>4, <2>5 DEF Path
  <2> QED BY <2>3, <2>6, <2>7, <2>8
<1>6. ~(m < n)
  <2>1. SUFFICES ASSUME m < n PROVE FALSE
    OBVIOUS
  <2>2. m \in 0 .. n - 1 /\ m <= n
    BY <2>1
  <2>3. GoesOn(u, Q[m]) /\ Q[m] = P[m]
    BY <1>4, <1>5, <2>2 DEF Path
  <2> QED BY <1>2, <2>3
<1>7. ~(n < m)
  <2>1. SUFFICES ASSUME n < m PROVE FALSE
    OBVIOUS
  <2>2. n \in 0 .. m - 1 /\ n <= m
    BY <2>1
  <2>3. GoesOn(u, P[n]) /\ Q[n] = P[n]
    BY <1>2, <1>5, <2>2 DEF Path
  <2> QED BY <1>4, <2>3
<1>8. m = n
  BY <1>6, <1>7
<1> QED BY <1>2, <1>4, <1>5, <1>8

(* What GoesOn and NextPlace are for each field.                            *)
LEMMA GoesOnFacts ==
  ASSUME NEW u, NEW s
  PROVE  /\ s.pc = "magic" =>
              (GoesOn(u, s) <=> FitsAt(s, 1) /\ TakenAt(u, s, 1) \in {Magic, DetachedMagic})
         /\ s.pc \in IntFields =>
              (GoesOn(u, s) <=> IntAt(u, s).err = "nil" /\ Valid(s.pc, IntAt(u, s).value))
         /\ s.pc \in DigestFields => (GoesOn(u, s) <=> FitsAt(s, DigestAt(s)))
         /\ s.pc = "header" => GoesOn(u, s)
         /\ s.pc = "optData" => (GoesOn(u, s) <=> FitsAt(s, s.h.optSize))
         /\ s.pc = "indexSize" =>
              (GoesOn(u, s) <=> /\ IntAt(u, s).err = "nil"
                                /\ FitsAt(s, IntAt(u, s).length + IntAt(u, s).value))
         /\ s.pc = "length" => (GoesOn(u, s) <=> IntAt(u, s).err = "nil")
         /\ s.pc = "entries" => (GoesOn(u, s) <=> s.h.count = Len(s.h.chunks))
         /\ s.pc = "sigCount" => ~GoesOn(u, s)
BY Zenon DEF GoesOn, IntFields, DigestFields

(* Where it gets, for each field.                                           *)
LEMMA NextPlaceFacts ==
  ASSUME NEW u, NEW s
  PROVE  /\ s.pc = "magic" =>
              NextPlace(u, s) =
                Onward(s, 1, IF TakenAt(u, s, 1) = Magic THEN s.h
                             ELSE [s.h EXCEPT !.detached = TRUE])
         /\ s.pc \in IntFields =>
              NextPlace(u, s) =
                Onward(s, IntAt(u, s).length, [s.h EXCEPT ![s.pc] = IntAt(u, s).value])
         /\ s.pc \in DigestFields =>
              NextPlace(u, s) =
                Onward(s, DigestAt(s), [s.h EXCEPT ![s.pc] = TakenAt(u, s, DigestAt(s))])
         /\ s.pc = "header" => NextPlace(u, s) = [s EXCEPT !.pc = "dataChecksum"]
         /\ s.pc = "optData" =>
              NextPlace(u, s) =
                Onward(s, s.h.optSize,
                       [s.h EXCEPT !.optional =
                          Append(s.h.optional,
                                 [id |-> s.h.optId, data |-> TakenAt(u, s, s.h.optSize)])])
         /\ s.pc = "indexSize" =>
              NextPlace(u, s) = [pc |-> "chunkType", pos |-> s.pos + IntAt(u, s).length,
                                 end |-> s.pos + IntAt(u, s).length + IntAt(u, s).value, h |-> s.h]
         /\ s.pc = "length" =>
              NextPlace(u, s) =
                Onward(s, IntAt(u, s).length,
                       [s.h EXCEPT !.chunks =
                          Append(s.h.chunks,
                                 [digest |-> s.h.digest, compLength |-> s.h.compLength,
                                  length |-> IntAt(u, s).value, uDigest |-> UDigest(s.h)])])
         /\ s.pc = "entries" => NextPlace(u, s) = [s EXCEPT !.pc = "sigCount", !.end = Len(u)]
<1>1. ASSUME s.pc = "magic" PROVE s.pc \notin IntFields /\ s.pc \notin DigestFields
  BY <1>1 DEF IntFields, DigestFields
<1>2. ASSUME s.pc \in IntFields
      PROVE  s.pc \notin DigestFields \cup {"magic", "header", "optData", "indexSize", "length",
                                         "entries"}
  BY <1>2 DEF IntFields, DigestFields
<1>3. ASSUME s.pc \in DigestFields
      PROVE  s.pc \notin IntFields \cup {"magic", "header", "optData", "indexSize", "length",
                                      "entries"}
  BY <1>3 DEF IntFields, DigestFields
<1>4. ASSUME s.pc \in {"header", "optData", "indexSize", "length", "entries"}
      PROVE  s.pc \notin IntFields /\ s.pc \notin DigestFields /\ s.pc # "magic"
  BY <1>4 DEF IntFields, DigestFields
<1>5. CASE s.pc = "magic"
  BY <1>1, <1>5 DEF NextPlace
<1>6. CASE s.pc \in IntFields
  BY <1>2, <1>6 DEF NextPlace
<1>7. CASE s.pc \in DigestFields
  BY <1>3, <1>7 DEF NextPlace
<1>8. CASE s.pc = "header"
  BY <1>4, <1>8 DEF NextPlace
<1>9. CASE s.pc = "optData"
  BY <1>4, <1>9 DEF NextPlace
<1>10. CASE s.pc = "indexSize"
  BY <1>4, <1>10 DEF NextPlace
<1>11. CASE s.pc = "length"
  BY <1>4, <1>11 DEF NextPlace
<1>12. CASE s.pc = "entries"
  BY <1>4, <1>12 DEF NextPlace
<1> QED BY <1>5, <1>6, <1>7, <1>8, <1>9, <1>10, <1>11, <1>12

(* The readers by their turn.                                               *)
LEMMA ReaderFacts ==
  ASSUME HeaderTypeOK
  PROVE  (reader = "stream" <=> turn = 1) /\ (reader = "remote" <=> turn = 2)
         /\ Len(Readers) = 3
         /\ Readers[1] = "stream" /\ Readers[2] = "remote" /\ Readers[3] = "detached"
<1>1. turn \in 1 .. 3
  BY DEF HeaderTypeOK
<1>2. Len(Readers) = 3 /\ Readers[1] = "stream" /\ Readers[2] = "remote" /\ Readers[3] = "detached"
  BY DEF Readers
<1> QED BY <1>1, <1>2 DEF reader

(* The place in the file, and the part of the file that the reader's units  *)
(* are.                                                                     *)
LEMMA PlaceFacts ==
  ASSUME HeaderTypeOK, SourceOK
  PROVE  /\ shift \in Nat /\ Len(src) \in Nat /\ Len(file.units) \in Nat
         /\ file.units \in Seq(Unit) /\ src \in Seq(Unit)
         /\ pos \in Nat /\ end \in Nat /\ pos <= end /\ end <= Len(src)
         /\ Len(src) + shift <= Len(file.units)
         /\ \A k \in 1 .. Len(src) : src[k] = file.units[k + shift]
         /\ place.pc = pc /\ place.pos = pos + shift /\ place.h = h
         /\ place.end = IF pc \in IndexPcs THEN end + shift ELSE Len(file.units)
         /\ place.end \in Nat /\ end + shift <= place.end /\ place.end <= Len(file.units)
         /\ place.pos <= place.end /\ place.pos \in Nat
<1>1. /\ Len(src) \in Nat /\ Len(file.units) \in Nat
      /\ file.units \in Seq(Unit) /\ src \in Seq(Unit)
      /\ pos \in Nat /\ end \in Nat /\ pos <= end /\ end <= Len(src) /\ leadLen \in Nat
  BY LenProperties DEF HeaderTypeOK
<1>2. shift \in Nat
  BY <1>1 DEF shift
<1>3. Len(src) + shift <= Len(file.units) /\ \A k \in 1 .. Len(src) : src[k] = file.units[k + shift]
  BY DEF SourceOK
<1>4. place.pc = pc /\ place.pos = pos + shift /\ place.h = h
      /\ place.end = IF pc \in IndexPcs THEN end + shift ELSE Len(file.units)
  BY DEF place
<1> QED BY <1>1, <1>2, <1>3, <1>4

(* What the reader takes stands at its place in the file.                   *)
LEMMA SameTaken ==
  ASSUME HeaderTypeOK, SourceOK, NEW n \in Nat, pos + n <= end
  PROVE  TakenAt(file.units, place, n) = Here(n) /\ FitsAt(place, n)
<1> DEFINE x == Here(n)
           y == TakenAt(file.units, place, n)
           q == pos + n
           p == place.pos
           b == p + n
<1>1. /\ q \in pos .. Len(src) /\ pos \in 0 .. Len(src) /\ q - pos = n
      /\ src \in Seq(Unit) /\ file.units \in Seq(Unit)
      /\ p \in 0 .. Len(file.units) /\ b \in p .. Len(file.units) /\ b - p = n
      /\ b <= place.end /\ Len(src) \in Nat /\ pos \in Nat
  <2>1. /\ pos \in Nat /\ end \in Nat /\ Len(src) \in Nat /\ pos <= end /\ end <= Len(src)
        /\ src \in Seq(Unit) /\ file.units \in Seq(Unit)
    BY PlaceFacts
  <2>2. /\ p \in Nat /\ p = pos + shift /\ shift \in Nat /\ Len(file.units) \in Nat
        /\ place.end \in Nat /\ end + shift <= place.end /\ place.end <= Len(file.units)
    BY PlaceFacts
  <2> HIDE DEF p
  <2> QED BY <2>1, <2>2
<1>2. x = SubSeq(src, pos + 1, q)
  BY DEF Here
<1>3. y = SubSeq(file.units, p + 1, b)
  BY DEF TakenAt
<1>4. p = pos + shift /\ shift \in Nat
  BY PlaceFacts
<1>5. \A k \in 1 .. Len(src) : src[k] = file.units[k + shift]
  BY PlaceFacts
<1>6. pos \in Nat /\ Len(src) \in Nat /\ pos + n <= Len(src) /\ p = pos + shift /\ shift \in Nat
  BY <1>1, <1>4
<1>7. FitsAt(place, n)
  BY <1>1 DEF FitsAt
<1> HIDE DEF x, y, q, p, b
<1>8. x \in Seq(Unit) /\ Len(x) = n /\ \A k \in 1 .. n : x[k] = src[pos + k]
  BY <1>1, <1>2, SubSeqFacts
<1>9. y \in Seq(Unit) /\ Len(y) = n /\ \A k \in 1 .. n : y[k] = file.units[p + k]
  BY <1>1, <1>3, SubSeqFacts
<1>10. ASSUME NEW k \in 1 .. n PROVE x[k] = y[k]
  <2>1. pos + k \in 1 .. Len(src) /\ (pos + k) + shift = p + k
    BY <1>6
  <2>2. src[pos + k] = file.units[(pos + k) + shift]
    BY <1>5, <2>1
  <2> QED BY <1>8, <1>9, <2>1, <2>2
<1>11. x = y
  BY <1>8, <1>9, <1>10, SeqEqual
<1> QED BY <1>7, <1>11 DEF x, y

(* Outside the index a section goes on to the end of the units.             *)
LEMMA WholeSource ==
  ASSUME ReadInv, pc # "done", pc \notin IndexPcs
  PROVE  end = Len(src)
<1>1. pc \in LeadPcs \cup PrefacePcs \cup {"sigCount"}
  BY DEF ReadInv, HeaderTypeOK
<1> QED BY <1>1 DEF ReadInv, HeaderTypeOK, ReadSoFar

(* The integer that it reads is the one there; the stream reader also fails *)
(* where there is none.                                                     *)
LEMMA SameInt ==
  ASSUME ReadInv, SourceOK, pc # "done"
  PROVE  /\ NextInt.err = "nil" => IntAt(file.units, place) = NextInt
         /\ NextInt.err = "nil" => NextInt.length <= MaxCompressedIntLen
         /\ reader = "stream" => IntAt(file.units, place) = NextInt
<1> DEFINE u == SubSeq(src, pos + 1, end)
           p == place.pos
           e == place.end
           w == SubSeq(file.units, p + 1, e)
<1>0. HeaderTypeOK
  BY DEF ReadInv
<1>1. /\ pos \in 0 .. Len(src) /\ end \in pos .. Len(src) /\ src \in Seq(Unit)
      /\ file.units \in Seq(Unit) /\ p \in 0 .. Len(file.units) /\ e \in p .. Len(file.units)
      /\ end - pos <= e - p /\ Len(src) \in Nat /\ pos \in Nat /\ end \in Nat
      /\ end - pos \in Nat /\ e - p \in Nat
  BY <1>0, PlaceFacts
<1>2. p = pos + shift /\ shift \in Nat /\ \A k \in 1 .. Len(src) : src[k] = file.units[k + shift]
  BY <1>0, PlaceFacts
<1>3. /\ NextInt = ReadCompressedInt(Octets(u))
      /\ IntAt(file.units, place) = ReadCompressedInt(Octets(w))
  BY DEF NextInt, IntAt
<1>4. reader = "stream" => e - p = end - pos
  <2>1. ASSUME reader = "stream" PROVE e - p = end - pos
    <3>1. shift = 0 /\ Len(src) = Len(file.units)
      BY <2>1 DEF shift, SourceOK
    <3>2. pc \notin IndexPcs => end = Len(src)
      BY WholeSource
    <3>3. p = pos /\ e = end
      BY <1>0, <1>2, <3>1, <3>2, PlaceFacts
    <3> QED BY <3>3
  <2> QED BY <2>1
<1> HIDE DEF u, p, e, w
<1>5. u \in Seq(Unit) /\ Len(u) = end - pos /\ \A k \in 1 .. end - pos : u[k] = src[pos + k]
  BY <1>1, SubSeqFacts DEF u
<1>6. w \in Seq(Unit) /\ Len(w) = e - p /\ \A k \in 1 .. e - p : w[k] = file.units[p + k]
  BY <1>1, SubSeqFacts DEF w
<1>7. Len(u) <= Len(w)
  BY <1>1, <1>5, <1>6
<1>8. ASSUME NEW k \in 1 .. Len(u) PROVE w[k] = u[k]
  <2>1. k \in 1 .. end - pos /\ k \in 1 .. e - p /\ pos + k \in 1 .. Len(src)
        /\ (pos + k) + shift = p + k
    BY <1>1, <1>2, <1>5
  <2>2. src[pos + k] = file.units[(pos + k) + shift]
    BY <1>2, <2>1
  <2> QED BY <1>5, <1>6, <2>1, <2>2
<1>9. reader = "stream" => u = w
  BY <1>4, <1>5, <1>6, <1>8, SeqEqual
<1> QED BY <1>3, <1>5, <1>6, <1>7, <1>8, <1>9, SameInteger

TakenPcs == {"magic", "ckType", "headerSize", "checksum"} \cup PlainPcs \cup ElementPcs
              \cup {"chunkType", "count", "digest", "uDigest", "compLength", "length"}

(* A field that is taken is followed by one of the same part.               *)
LEMMA SamePart ==
  ASSUME NEW f \in TakenPcs, NEW g, NEW m \in BOOLEAN
  PROVE  /\ FieldAfter(f, g, m) \in LeadPcs <=> f \in LeadPcs
         /\ FieldAfter(f, g, m) \in IndexPcs <=> f \in IndexPcs
         /\ FieldAfter(f, g, m) # "done"
         /\ f \notin IndexPcs => FieldAfter(f, g, m) = FieldAfter(f, g, TRUE)
<1>1. CASE f \in {"magic", "ckType", "headerSize", "checksum"}
  BY <1>1 DEF FieldAfter, LeadPcs, IndexPcs, CountPcs, EntryPcs
<1>2. CASE f \in PlainPcs
  BY <1>2 DEF FieldAfter, LeadPcs, PlainPcs, IndexPcs, CountPcs, EntryPcs
<1>3. CASE f \in ElementPcs
  BY <1>3 DEF FieldAfter, LeadPcs, ElementPcs, IndexPcs, CountPcs, EntryPcs
<1>4. CASE f \in {"chunkType", "count", "digest", "uDigest", "compLength", "length"}
  BY <1>4 DEF FieldAfter, LeadPcs, IndexPcs, CountPcs, EntryPcs
<1> QED BY <1>1, <1>2, <1>3, <1>4 DEF TakenPcs

(* A field that the reader takes is one that the stream reader gets over.   *)
LEMMA TakeOnward ==
  ASSUME ReadInv, SourceOK, pc \in TakenPcs, NEW n \in Nat, NEW g, pos + n <= end, Take(n, g)
  PROVE  place' = Onward(place, n, g) /\ SourceOK'
<1>1. /\ pos' = pos + n /\ h' = g /\ pc' = FieldAfter(pc, g, pos + n < end)
      /\ UNCHANGED <<file, turn, src, end, leadLen, results>>
  BY DEF Take, After
<1>2. (pc' \in LeadPcs <=> pc \in LeadPcs) /\ (pc' \in IndexPcs <=> pc \in IndexPcs)
  <2> DEFINE more == pos + n < end
  <2>1. more \in BOOLEAN
    OBVIOUS
  <2>2. pc' = FieldAfter(pc, g, more)
    BY <1>1
  <2> HIDE DEF more
  <2> QED BY <2>1, <2>2, SamePart
<1>3. shift' = shift
  BY <1>1, <1>2 DEF shift, reader
<1>4. SourceOK'
  BY <1>1, <1>3 DEF SourceOK, reader
<1>5. /\ place.pc = pc /\ place.pos = pos + shift /\ pos \in Nat /\ end \in Nat /\ shift \in Nat
      /\ place.end = IF pc \in IndexPcs THEN end + shift ELSE Len(file.units)
  BY PlaceFacts DEF ReadInv
<1>6. FieldAfter(place.pc, g, place.pos + n < place.end) = pc'
  <2>1. CASE pc \in IndexPcs
    <3>1. place.pos + n < place.end <=> pos + n < end
      BY <1>5, <2>1
    <3> QED BY <1>1, <1>5, <3>1
  <2>2. CASE pc \notin IndexPcs
    <3>1. /\ FieldAfter(pc, g, pos + n < end) = FieldAfter(pc, g, TRUE)
          /\ FieldAfter(pc, g, place.pos + n < place.end) = FieldAfter(pc, g, TRUE)
      <4> DEFINE more == pos + n < end
                 there == place.pos + n < place.end
      <4>1. more \in BOOLEAN /\ there \in BOOLEAN
        OBVIOUS
      <4> HIDE DEF more, there
      <4>2. /\ FieldAfter(pc, g, more) = FieldAfter(pc, g, TRUE)
            /\ FieldAfter(pc, g, there) = FieldAfter(pc, g, TRUE)
        BY <2>2, <4>1, SamePart
      <4> QED BY <4>2 DEF more, there
    <3> QED BY <1>1, <1>5, <3>1
  <2> QED BY <2>1, <2>2
<1>7. place' = [pc |-> pc', pos |-> pos' + shift',
                end |-> IF pc' \in IndexPcs THEN end' + shift' ELSE Len(file.units)', h |-> h']
  BY DEF place
<1>8. place' = [pc |-> pc', pos |-> pos + shift + n, end |-> place.end, h |-> g]
  <2>1. pos' + shift' = pos + shift + n
    BY <1>1, <1>3, <1>5
  <2>2. (IF pc' \in IndexPcs THEN end' + shift' ELSE Len(file.units)') = place.end
    BY <1>1, <1>2, <1>3, <1>5
  <2> QED BY <1>1, <1>7, <2>1, <2>2
<1> QED BY <1>4, <1>5, <1>6, <1>8 DEF Onward

(* The reader goes on as the stream reader does.                            *)
LEMMA GoOn ==
  ASSUME AgreeInv, ReadInv, pc # "done", pc' # "done", pc' \in LeadPcs <=> pc \in LeadPcs,
         UNCHANGED <<file, turn, src, leadLen, results>>,
         pc \notin LeadPcs => h'.headerSize = h.headerSize,
         SourceOK /\ LeadRead => /\ SourceOK' /\ LeadRead' /\ GoesOn(file.units, place)
                                 /\ place' = NextPlace(file.units, place)
  PROVE  AgreeInv'
<1>1. Len(results') = turn' - 1
  BY DEF AgreeInv
<1>2. Astray' \/ (SourceOK /\ LeadRead /\ Reached(file.units, place))'
  <2>1. CASE Astray
    BY <2>1 DEF Astray, reader, Readers
  <2>2. CASE SourceOK /\ LeadRead /\ Reached(file.units, place)
    BY <2>2, ReachedNext
  <2> QED BY <2>1, <2>2 DEF AgreeInv
<1>3. (Len(results) >= 1 => \E s : Reached(file.units, s) /\ EndsAt(file.units, s, results[1]))'
  BY DEF AgreeInv
<1>4. (reader # "stream" /\ pc \notin LeadPcs \cup {"done"} => Len(src) = h.headerSize)'
  BY DEF AgreeInv, reader
<1>5. (\A k \in 2 .. Len(results) : (k = 2 => ShortestLead(file.units)) => Agrees(k))'
  BY DEF AgreeInv, Agrees, Accepts
<1> QED BY <1>1, <1>2, <1>3, <1>4, <1>5 DEF AgreeInv

(* What a reader opens is the start of the file.                            *)
LEMMA OpenedIsTheStart ==
  ASSUME NEW units \in Seq(Unit), NEW who
  PROVE  /\ Len(Opened(units, who)) <= Len(units)
         /\ \A k \in 1 .. Len(Opened(units, who)) : Opened(units, who)[k] = units[k]
         /\ who # "remote" => Opened(units, who) = units
<1> DEFINE n == IF Len(units) < LeadPrefix THEN Len(units) ELSE LeadPrefix
<1>1. CASE who = "remote"
  <2>1. Len(units) \in Nat
    BY LenProperties
  <2>2. LeadPrefix \in Nat
    BY LeadPrefixIsNat
  <2>3. n \in 0 .. Len(units) /\ 0 \in 0 .. Len(units) /\ n \in Nat /\ 0 + 1 = 1 /\ n - 0 = n
        /\ n <= Len(units)
    BY <2>1, <2>2
  <2>4. Opened(units, who) = SubSeq(units, 0 + 1, n)
    BY <1>1, <2>3 DEF Opened
  <2> HIDE DEF n
  <2>5. /\ Len(SubSeq(units, 0 + 1, n)) = n - 0
        /\ \A k \in 1 .. n - 0 : SubSeq(units, 0 + 1, n)[k] = units[0 + k]
    BY <2>3, SubSeqFacts
  <2> QED BY <1>1, <2>3, <2>4, <2>5
<1>2. CASE who # "remote"
  BY <1>2, LenProperties DEF Opened
<1> QED BY <1>1, <1>2

(* The reader is through with the file: the next one starts at its start.   *)
LEMMA ResultAgrees ==
  ASSUME AgreeInv, ReadInv, pc # "done", NEW r, Result(r),
         reader = "stream" /\ SourceOK => EndsAt(file.units, place, r),
         reader # "stream" /\ ~Astray /\ r.accepted =>
           /\ results[1].accepted /\ results[1].fields = r.fields
           /\ results[1].bodyOffset <= r.bodyOffset
  PROVE  AgreeInv'
<1>1. results' = Append(results, r) /\ file' = file
  BY DEF Result
<1>2. turn \in 1 .. 3 /\ results \in Seq(Outcome) /\ Len(results) = turn - 1 /\ HeaderTypeOK
  BY DEF AgreeInv, ReadInv, HeaderTypeOK
<1>3. /\ Len(results') = turn /\ results'[turn] = r
      /\ \A k \in 1 .. turn - 1 : results'[k] = results[k]
      /\ DOMAIN results' = 1 .. turn /\ DOMAIN results = 1 .. turn - 1
  <2> DEFINE S == Outcome \cup {r}
  <2>0. results \in Seq(S) /\ r \in S
    BY <1>2
  <2> HIDE DEF S
  <2>1. /\ Append(results, r) \in Seq(S) /\ Len(Append(results, r)) = Len(results) + 1
        /\ Append(results, r)[Len(results) + 1] = r
        /\ \A k \in 1 .. Len(results) : Append(results, r)[k] = results[k]
    BY <2>0, AppendProperties
  <2>2. Len(results) + 1 = turn
    BY <1>2
  <2> QED BY <1>1, <1>2, <2>1, <2>2, LenProperties
<1>4. \E s : Reached(file.units, s) /\ EndsAt(file.units, s, results'[1])
  <2>1. CASE turn = 1
    <3>1. reader = "stream"
      BY <1>2, <2>1, ReaderFacts
    <3>2. SourceOK /\ Reached(file.units, place)
      BY <3>1 DEF AgreeInv, Astray
    <3>3. EndsAt(file.units, place, results'[1])
      BY <1>3, <2>1, <3>1, <3>2
    <3> QED BY <3>2, <3>3
  <2>2. CASE turn # 1
    <3>1. Len(results) >= 1 /\ 1 \in 1 .. turn - 1
      BY <1>2, <2>2
    <3>2. \E s : Reached(file.units, s) /\ EndsAt(file.units, s, results[1])
      BY <3>1 DEF AgreeInv
    <3> QED BY <1>3, <3>1, <3>2
  <2> QED BY <2>1, <2>2
<1>5. (\A k \in 2 .. Len(results) : (k = 2 => ShortestLead(file.units)) => Agrees(k))'
  <2>1. SUFFICES ASSUME NEW k \in 2 .. Len(results'), k = 2 => ShortestLead(file.units),
                        results'[k].accepted
                 PROVE  /\ 1 \in DOMAIN results' /\ results'[1].accepted
                        /\ results'[1].fields = results'[k].fields
                        /\ results'[1].bodyOffset <= results'[k].bodyOffset
    BY <1>1 DEF Agrees, Accepts
  <2>2. turn >= 2 /\ 1 \in 1 .. turn - 1 /\ 1 \in DOMAIN results' /\ results'[1] = results[1]
        /\ k \in 2 .. turn
    BY <1>2, <1>3
  <2>3. CASE k = turn
    <3>1. reader # "stream" /\ (reader = "remote" => turn = 2)
      BY <1>2, <2>2, ReaderFacts
    <3>2. ~Astray
      BY <2>1, <2>3, <3>1 DEF Astray
    <3> QED BY <1>3, <2>1, <2>2, <2>3, <3>1, <3>2
  <2>4. CASE k # turn
    <3>1. k \in 2 .. Len(results) /\ k \in 1 .. turn - 1 /\ results'[k] = results[k]
      BY <1>2, <1>3, <2>2, <2>4
    <3>2. Accepts(k)
      BY <1>3, <2>1, <3>1 DEF Accepts
    <3>3. /\ Accepts(1) /\ results[1].fields = results[k].fields
          /\ results[1].bodyOffset <= results[k].bodyOffset
      BY <2>1, <3>1, <3>2 DEF AgreeInv, Agrees
    <3> QED BY <2>2, <3>1, <3>3 DEF Accepts
  <2> QED BY <2>3, <2>4
<1>6. CASE turn = Len(Readers)
  <2>1. pc' = "done" /\ turn = 3 /\ UNCHANGED <<turn, pos, h, leadLen, src, end>>
    BY <1>2, <1>6, ReaderFacts DEF Result
  <2>2. Len(results') = Len(Readers)
    BY <1>3, <1>6
  <2> QED BY <1>1, <1>4, <1>5, <2>1, <2>2 DEF AgreeInv
<1>7. CASE turn # Len(Readers)
  <2>1. /\ turn' = turn + 1 /\ pc' = "magic" /\ pos' = 0 /\ h' = Blank /\ leadLen' = 0
        /\ src' = Opened(file.units, Readers[turn + 1]) /\ end' = Len(src')
    BY <1>7 DEF Result
  <2>2. Len(results') = turn' - 1
    BY <1>2, <1>3, <2>1
  <2>3. LeadRead'
    BY <2>1 DEF LeadRead
  <2>4. turn' \in 2 .. 3 /\ reader' = Readers[turn + 1] /\ reader' # "stream"
    <3>1. turn \in 1 .. 2
      BY <1>2, <1>7, ReaderFacts
    <3> QED BY <1>2, <2>1, <3>1, ReaderFacts DEF reader
  <2>5. shift' = 0 /\ pc' \in LeadPcs /\ pc' \notin IndexPcs
    BY <2>1 DEF shift, LeadPcs, IndexPcs, CountPcs, EntryPcs
  <2>6. file.units \in Seq(Unit) /\ Len(file.units) \in Nat
    BY <1>2, LenProperties DEF HeaderTypeOK
  <2>7. SourceOK'
    <3>1. /\ Len(src') <= Len(file.units) /\ \A k \in 1 .. Len(src') : src'[k] = file.units[k]
          /\ Len(src') \in Nat
      BY <2>1, <2>6, OpenedIsTheStart, OpenedFacts
    <3>2. Len(src') + 0 <= Len(file.units) /\ \A k \in 1 .. Len(src') : k + 0 = k
      BY <3>1
    <3> QED BY <1>1, <2>4, <2>5, <3>1, <3>2 DEF SourceOK
  <2>8. place' = StartPlace(file.units)
    <3>1. place' = [pc |-> pc', pos |-> pos' + shift',
                    end |-> IF pc' \in IndexPcs THEN end' + shift' ELSE Len(file.units)', h |-> h']
      BY DEF place
    <3> QED BY <1>1, <2>1, <2>5, <3>1 DEF StartPlace
  <2>9. (SourceOK /\ LeadRead /\ Reached(file.units, place))'
    BY <1>1, <2>3, <2>7, <2>8, ReachedStart
  <2> QED BY <1>1, <1>4, <1>5, <2>1, <2>2, <2>5, <2>9 DEF AgreeInv
<1> QED BY <1>6, <1>7

(* A reader refuses the file; the stream reader, only where it cannot go on.*)
LEMMA RejectAgrees ==
  ASSUME AgreeInv, ReadInv, pc # "done", Reject,
         reader = "stream" /\ SourceOK =>
           /\ ~GoesOn(file.units, place)
           /\ pc = "sigCount" =>
                ~(IntAt(file.units, place).err = "nil" /\ IntAt(file.units, place).value = 0)
  PROVE  AgreeInv'
<1> DEFINE r == [accepted |-> FALSE]
<1>1. Result(r) /\ ~r.accepted
  BY DEF Reject
<1>2. place.pc = pc
  BY DEF place
<1>3. reader = "stream" /\ SourceOK => EndsAt(file.units, place, r)
  BY <1>1, <1>2 DEF EndsAt
<1> HIDE DEF r
<1> QED BY <1>1, <1>3, ResultAgrees

(* The two kinds of fields for which NextPlace changes a field by its name. *)
LEMMA NextPlaceOfInt ==
  ASSUME NEW u, NEW s, NEW f \in IntFields, s.pc = f
  PROVE  NextPlace(u, s) =
           Onward(s, IntAt(u, s).length, [s.h EXCEPT ![f] = IntAt(u, s).value])
<1>1. NextPlace(u, s) =
        Onward(s, IntAt(u, s).length, [s.h EXCEPT ![s.pc] = IntAt(u, s).value])
  BY NextPlaceFacts, Zenon
<1> QED BY <1>1, Zenon

(* A digest.                                                                *)
LEMMA NextPlaceOfDigest ==
  ASSUME NEW u, NEW s, NEW f \in DigestFields, s.pc = f
  PROVE  NextPlace(u, s) =
           Onward(s, DigestAt(s), [s.h EXCEPT ![f] = TakenAt(u, s, DigestAt(s))])
<1>1. NextPlace(u, s) =
        Onward(s, DigestAt(s), [s.h EXCEPT ![s.pc] = TakenAt(u, s, DigestAt(s))])
  BY NextPlaceFacts, Zenon
<1> QED BY <1>1, Zenon

(* Where nothing of the lead is left to read, LeadRead says nothing.        *)
LEMMA LeadReadLater ==
  ASSUME pc \notin LeadPcs PROVE LeadRead
BY DEF LeadRead, LeadPcs

(* In the stream the reader has as much before it as there is.              *)
LEMMA StreamFits ==
  ASSUME ReadInv, SourceOK, pc # "done", reader = "stream", NEW n \in Nat
  PROVE  FitsAt(place, n) <=> Fits(n)
<1>1. shift = 0 /\ Len(src) = Len(file.units)
  BY DEF shift, SourceOK
<1>2. pc \notin IndexPcs => end = Len(src)
  BY WholeSource
<1>3. HeaderTypeOK
  BY DEF ReadInv
<1>4. /\ place.pos = pos + shift /\ pos \in Nat /\ end \in Nat
      /\ place.end = IF pc \in IndexPcs THEN end + shift ELSE Len(file.units)
  BY <1>3, PlaceFacts
<1>5. place.pos = pos /\ place.end = end
  BY <1>1, <1>2, <1>4
<1> QED BY <1>5 DEF FitsAt, Fits

(* A field that is taken.                                                   *)
LEMMA TakeAgrees ==
  ASSUME AgreeInv, ReadInv, pc \in TakenPcs, NEW n \in Nat, NEW g, pos + n <= end, Take(n, g),
         pc \notin LeadPcs => g.headerSize = h.headerSize,
         SourceOK /\ LeadRead =>
           /\ GoesOn(file.units, place)
           /\ NextPlace(file.units, place) = Onward(place, n, g)
           /\ LeadRead'
  PROVE  AgreeInv'
<1>1. /\ h' = g /\ pc' = FieldAfter(pc, g, pos + n < end)
      /\ UNCHANGED <<file, turn, src, leadLen, results>>
  BY DEF Take, After
<1>2. (pc' \in LeadPcs <=> pc \in LeadPcs) /\ pc' # "done"
  <2> DEFINE more == pos + n < end
  <2>1. more \in BOOLEAN
    OBVIOUS
  <2>2. pc' = FieldAfter(pc, g, more)
    BY <1>1
  <2> HIDE DEF more
  <2> QED BY <2>1, <2>2, SamePart
<1>3. pc # "done"
  BY DEF TakenPcs, PlainPcs, ElementPcs
<1>4. SourceOK /\ LeadRead =>
        /\ SourceOK' /\ LeadRead' /\ GoesOn(file.units, place)
        /\ place' = NextPlace(file.units, place)
  BY TakeOnward
<1> QED BY <1>1, <1>2, <1>3, <1>4, GoOn

(* One lemma per action.  ReadMagic.                                        *)
LEMMA MagicAgrees ==
  ASSUME AgreeInv, ReadInv, ReadMagic
  PROVE  AgreeInv'
<1>1. pc = "magic" /\ pc \in TakenPcs /\ pc \in LeadPcs /\ pc # "done"
  BY DEF ReadMagic, LeadPcs, TakenPcs
<1>2. HeaderTypeOK /\ 1 \in Nat
  BY DEF ReadInv
<1>3. SourceOK => place.pc = pc /\ place.h = h
  BY DEF place
<1>4. Magic # DetachedMagic
  <2>1. <<0>> \in Seq(Octet) /\ <<1>> \in Seq(Octet) /\ Len(<<0>>) = 1 /\ Len(<<1>>) = 1
    <3>1. 0 \in Octet /\ 1 \in Octet
      BY RadixFacts DEF Octet
    <3> QED BY <3>1, OneOctet
  <2>2. /\ Magic[1] = [octet |-> 0, tag |-> 0]
        /\ DetachedMagic[1] = [octet |-> 1, tag |-> 0]
    BY DEF Magic, DetachedMagic, Plain
  <2> QED BY <2>2
<1>5. ASSUME NEW g, Fits(1), Take(1, g), Here(1) \in {Magic, DetachedMagic},
             g = IF Here(1) = Magic THEN h ELSE [h EXCEPT !.detached = TRUE]
      PROVE  AgreeInv'
  <2>1. pos + 1 <= end
    BY <1>5 DEF Fits
  <2>2. ASSUME SourceOK, LeadRead
        PROVE  /\ GoesOn(file.units, place)
               /\ NextPlace(file.units, place) = Onward(place, 1, g)
               /\ LeadRead'
    <3>1. TakenAt(file.units, place, 1) = Here(1) /\ FitsAt(place, 1)
      BY <1>2, <2>1, <2>2, SameTaken
    <3>2. place.pc = "magic" /\ place.h = h
      BY <1>1, <1>3, <2>2
    <3>3. GoesOn(file.units, place)
      BY <1>5, <3>1, <3>2, GoesOnFacts
    <3>4. NextPlace(file.units, place) =
            Onward(place, 1, IF TakenAt(file.units, place, 1) = Magic THEN place.h
                             ELSE [place.h EXCEPT !.detached = TRUE])
      BY <3>2, NextPlaceFacts
    <3>5. pos = 0
      BY <1>1, <2>2 DEF LeadRead
    <3>6. pos' = 1 /\ pc' = "ckType"
      BY <1>1, <1>5, <3>5, AfterFacts DEF Take
    <3>7. LeadRead'
      BY <3>6 DEF LeadRead
    <3> QED BY <1>5, <3>1, <3>2, <3>3, <3>4, <3>7
  <2> QED BY <1>1, <1>5, <2>1, <2>2, TakeAgrees
<1>6. CASE Fits(1) /\ Here(1) = Magic /\ Take(1, h)
  BY <1>5, <1>6
<1>7. CASE Fits(1) /\ Here(1) = DetachedMagic /\ Take(1, [h EXCEPT !.detached = TRUE])
  BY <1>4, <1>5, <1>7
<1>8. CASE ~(Fits(1) /\ Here(1) \in {Magic, DetachedMagic}) /\ Reject
  <2>1. ASSUME reader = "stream", SourceOK PROVE ~GoesOn(file.units, place)
    <3>1. FitsAt(place, 1) => Fits(1)
      BY <1>1, <1>2, <2>1, StreamFits
    <3>2. Fits(1) => TakenAt(file.units, place, 1) = Here(1)
      BY <1>2, <2>1, SameTaken DEF Fits
    <3>3. place.pc = "magic"
      BY <1>1, <1>3, <2>1
    <3> QED BY <1>8, <3>1, <3>2, <3>3, GoesOnFacts
  <2> QED BY <1>1, <1>8, <2>1, RejectAgrees
<1> QED BY <1>6, <1>7, <1>8, Zenon DEF ReadMagic

(* The integers of the lead, where the reader gets to them.                 *)
LEMMA LeadInts ==
  ASSUME ReadInv, SourceOK, LeadRead, NextInt.err = "nil"
  PROVE  /\ pc = "ckType" => TypeInt(file.units) = NextInt /\ pos = 1
         /\ pc = "headerSize" =>
              /\ SizeInt(file.units) = NextInt /\ TypeInt(file.units).err = "nil"
              /\ TypeInt(file.units).length \in Nat
              /\ pos = 1 + TypeInt(file.units).length
              /\ h.ckType = TypeInt(file.units).value
<1>1. ASSUME pc \in {"ckType", "headerSize"}
      PROVE  /\ place.pos = pos /\ place.end = Len(file.units) /\ pos \in Nat
             /\ IntAt(file.units, place) = NextInt
  <2>1. pc \in LeadPcs /\ pc # "done" /\ pc \notin IndexPcs /\ HeaderTypeOK
    BY <1>1 DEF LeadPcs, IndexPcs, CountPcs, EntryPcs, ReadInv
  <2>2. shift = 0
    BY <2>1 DEF shift
  <2>3. place.pos = pos + shift /\ place.end = Len(file.units) /\ pos \in Nat
    BY <2>1, PlaceFacts
  <2> QED BY <2>1, <2>2, <2>3, SameInt
<1>2. ASSUME pc = "ckType" PROVE TypeInt(file.units) = NextInt /\ pos = 1
  <2>1. pos = 1
    BY <1>2 DEF LeadRead
  <2>2. pos + 1 = 2
    BY <2>1
  <2> QED BY <1>1, <1>2, <2>1, <2>2 DEF TypeInt, IntAt
<1>3. ASSUME pc = "headerSize"
      PROVE  /\ SizeInt(file.units) = NextInt /\ TypeInt(file.units).err = "nil"
             /\ TypeInt(file.units).length \in Nat
             /\ pos = 1 + TypeInt(file.units).length
             /\ h.ckType = TypeInt(file.units).value
  <2> DEFINE n == TypeInt(file.units).length
  <2>1. /\ TypeInt(file.units).err = "nil" /\ pos = 1 + n /\ n \in Nat
        /\ h.ckType = TypeInt(file.units).value
    BY <1>3 DEF LeadRead
  <2> HIDE DEF n
  <2>2. pos + 1 = 2 + n
    BY <2>1
  <2>3. SizeInt(file.units) = NextInt
    BY <1>1, <1>3, <2>2 DEF SizeInt, IntAt, n
  <2> QED BY <2>1, <2>3 DEF n
<1> QED BY <1>2, <1>3

(* ReadInt.                                                                 *)
LEMMA IntAgrees ==
  ASSUME AgreeInv, ReadInv, NEW f \in IntFields, ReadInt(f)
  PROVE  AgreeInv'
<1> DEFINE r == NextInt
           g == [h EXCEPT ![f] = r.value]
           ok == r.err = "nil" /\ Valid(f, r.value)
<1>1. pc = f /\ pc \in TakenPcs /\ pc # "done" /\ HeaderTypeOK /\ h \in Fields
  BY DEF ReadInt, IntFields, TakenPcs, PlainPcs, ElementPcs, ReadInv, HeaderTypeOK
<1>2. SourceOK => place.pc = pc /\ place.h = h
  BY DEF place
<1>3. (ok /\ Take(r.length, g)) \/ (~ok /\ Reject)
  BY Zenon DEF ReadInt
<1>4. CASE ok /\ Take(r.length, g)
  <2>1. r.length \in Nat /\ r.value \in Nat /\ pos + r.length <= end
    BY <1>1, <1>4, NextIntFacts
  <2>2. pc \notin LeadPcs => g.headerSize = h.headerSize
    BY <1>1 DEF LeadPcs, Fields, IntFields
  <2>3. ASSUME SourceOK, LeadRead
        PROVE  /\ GoesOn(file.units, place)
               /\ NextPlace(file.units, place) = Onward(place, r.length, g)
    <3>1. IntAt(file.units, place) = r
      BY <1>1, <1>4, <2>3, SameInt
    <3>2. place.pc = f /\ place.h = h /\ place.pc \in IntFields
      BY <1>1, <1>2, <2>3
    <3>3. GoesOn(file.units, place)
      BY <1>4, <3>1, <3>2, GoesOnFacts
    <3>4. NextPlace(file.units, place) =
            Onward(place, r.length, [place.h EXCEPT ![f] = r.value])
      BY <3>1, <3>2, NextPlaceOfInt
    <3> QED BY <3>2, <3>3, <3>4
  <2>4. pc' = After(f, g, pos + r.length) /\ pos' = pos + r.length /\ h' = g /\ file' = file
    BY <1>1, <1>4 DEF Take
  <2>5. r.err = "nil"
    BY <1>4
  <2>6. ASSUME SourceOK, LeadRead PROVE LeadRead'
    <3> DEFINE t == TypeInt(file.units)
               size == SizeInt(file.units)
    <3>1. CASE f = "ckType"
      <4>1. t = r /\ pos = 1
        BY <1>1, <2>5, <2>6, <3>1, LeadInts
      <4>2. pc' = "headerSize"
        BY <2>4, <3>1, AfterFacts
      <4>3. h'.ckType = r.value
        BY <1>1, <2>4, <3>1 DEF Fields
      <4>4. t.err = "nil" /\ t.length \in Nat /\ pos' = 1 + t.length /\ h'.ckType = t.value
        BY <2>1, <2>4, <2>5, <4>1, <4>3
      <4> HIDE DEF r, g
      <4> QED BY <2>4, <4>2, <4>4 DEF LeadRead
    <3>2. CASE f = "headerSize"
      <4>1. /\ size = r /\ t.err = "nil" /\ t.length \in Nat /\ pos = 1 + t.length
            /\ h.ckType = t.value
        BY <1>1, <2>5, <2>6, <3>2, LeadInts
      <4>2. pc' = "checksum"
        BY <2>4, <3>2, AfterFacts
      <4>3. h'.ckType = h.ckType /\ h'.headerSize = r.value
        BY <1>1, <2>4, <3>2 DEF Fields
      <4>4. /\ t.err = "nil" /\ size.err = "nil" /\ t.length \in Nat /\ size.length \in Nat
            /\ h'.ckType = t.value /\ h'.headerSize = size.value
            /\ pos' = 1 + t.length + size.length + 0
        BY <2>1, <2>4, <2>5, <4>1, <4>3
      <4> HIDE DEF r, g
      <4> QED BY <2>4, <4>2, <4>4 DEF LeadRead
    <3>3. CASE f \notin {"ckType", "headerSize"}
      <4>1. f \notin LeadPcs
        BY <3>3 DEF IntFields, LeadPcs
      <4>2. pc' \notin LeadPcs
        <5> DEFINE more == pos + r.length < end
        <5>1. more \in BOOLEAN
          OBVIOUS
        <5>2. pc' = FieldAfter(pc, g, more)
          BY <1>1, <2>4 DEF After
        <5> HIDE DEF more, g
        <5> QED BY <1>1, <4>1, <5>1, <5>2, SamePart
      <4> QED BY <4>2 DEF LeadRead, LeadPcs
    <3> QED BY <3>1, <3>2, <3>3
  <2> HIDE DEF r, g
  <2> QED BY <1>1, <1>4, <2>1, <2>2, <2>3, <2>6, TakeAgrees
<1>5. CASE ~ok /\ Reject
  <2>1. ASSUME reader = "stream", SourceOK PROVE ~GoesOn(file.units, place)
    <3>1. IntAt(file.units, place) = r
      BY <1>1, <2>1, SameInt
    <3>2. place.pc = f /\ place.pc \in IntFields
      BY <1>1, <1>2, <2>1
    <3> QED BY <1>5, <3>1, <3>2, GoesOnFacts
  <2>2. pc # "sigCount"
    BY <1>1 DEF IntFields
  <2> QED BY <1>1, <1>5, <2>1, <2>2, RejectAgrees
<1> QED BY <1>3, <1>4, <1>5

(* ReadDigest.                                                              *)
LEMMA DigestsAgree ==
  ASSUME AgreeInv, ReadInv, NEW f \in DigestFields, ReadDigest(f)
  PROVE  AgreeInv'
<1> DEFINE n == DigestSize[IF f \in {"digest", "uDigest"} THEN h.chunkType ELSE h.ckType]
           g == [h EXCEPT ![f] = Here(n)]
<1>1. pc = f /\ pc \in TakenPcs /\ pc # "done" /\ HeaderTypeOK /\ h \in Fields
      /\ pc # "sigCount"
  BY DEF ReadDigest, DigestFields, TakenPcs, PlainPcs, ReadInv, HeaderTypeOK
<1>2. SourceOK => place.pc = pc /\ place.h = h
  BY DEF place
<1>3. (Fits(n) /\ Take(n, g)) \/ (~Fits(n) /\ Reject)
  BY Zenon DEF ReadDigest
<1>4. n \in Nat
  <2>1. CASE f \in {"digest", "uDigest"}
    <3>1. h.chunkType \in DOMAIN DigestSize
      BY <1>1, <2>1 DEF ReadInv, ValuesOK, EntryPcs
    <3> QED BY <2>1, <3>1, HeaderAssumption
  <2>2. CASE f \notin {"digest", "uDigest"}
    <3>1. h.ckType \in DOMAIN DigestSize
      BY <1>1 DEF HeaderTypeOK, DigestFields
    <3> QED BY <2>2, <3>1, HeaderAssumption
  <2> QED BY <2>1, <2>2
<1>5. SourceOK => DigestAt(place) = n
  BY <1>1, <1>2 DEF DigestAt
<1> HIDE DEF n
<1>6. CASE Fits(n) /\ Take(n, g)
  <2>1. pos + n <= end
    BY <1>6 DEF Fits
  <2>2. pc \notin LeadPcs => g.headerSize = h.headerSize
    BY <1>1 DEF Fields, DigestFields
  <2>3. ASSUME SourceOK, LeadRead
        PROVE  /\ GoesOn(file.units, place)
               /\ NextPlace(file.units, place) = Onward(place, n, g)
    <3>1. TakenAt(file.units, place, n) = Here(n) /\ FitsAt(place, n)
      BY <1>1, <1>4, <2>1, <2>3, SameTaken
    <3>2. place.pc = f /\ place.h = h /\ place.pc \in DigestFields /\ DigestAt(place) = n
      BY <1>1, <1>2, <1>5, <2>3
    <3>3. GoesOn(file.units, place)
      BY <3>1, <3>2, GoesOnFacts
    <3>4. NextPlace(file.units, place) =
            Onward(place, n, [place.h EXCEPT ![f] = TakenAt(file.units, place, n)])
      BY <3>2, NextPlaceOfDigest
    <3> QED BY <3>1, <3>2, <3>3, <3>4
  <2>4. pc' = After(f, g, pos + n) /\ pos' = pos + n /\ h' = g /\ file' = file
    BY <1>1, <1>6 DEF Take
  <2>5. ASSUME SourceOK, LeadRead PROVE LeadRead'
    <3> DEFINE t == TypeInt(file.units)
               size == SizeInt(file.units)
    <3>1. CASE f = "checksum"
      <4>1. /\ t.err = "nil" /\ size.err = "nil" /\ t.length \in Nat /\ size.length \in Nat
            /\ h.ckType = t.value /\ h.headerSize = size.value
            /\ pos = 1 + t.length + size.length + 0
        BY <1>1, <2>5, <3>1 DEF LeadRead
      <4>2. pc' = "header"
        BY <2>4, <3>1, AfterFacts
      <4>3. h'.ckType = h.ckType /\ h'.headerSize = h.headerSize /\ n = DigestSize[h.ckType]
        BY <1>1, <2>4, <3>1 DEF Fields, n
      <4> HIDE DEF g
      <4>4. /\ t.err = "nil" /\ size.err = "nil" /\ t.length \in Nat /\ size.length \in Nat
            /\ h'.ckType = t.value /\ h'.headerSize = size.value
            /\ pos' = 1 + t.length + size.length + DigestSize[h'.ckType]
        BY <1>4, <2>4, <4>1, <4>3
      <4> QED BY <2>4, <4>2, <4>4 DEF LeadRead
    <3>2. CASE f # "checksum"
      <4>1. f \notin LeadPcs
        BY <3>2 DEF DigestFields, LeadPcs
      <4>2. pc' \notin LeadPcs
        <5> DEFINE more == pos + n < end
        <5>1. more \in BOOLEAN
          OBVIOUS
        <5>2. pc' = FieldAfter(pc, g, more)
          BY <1>1, <2>4 DEF After
        <5> HIDE DEF more, g
        <5> QED BY <1>1, <4>1, <5>1, <5>2, SamePart
      <4> QED BY <4>2 DEF LeadRead, LeadPcs
    <3> QED BY <3>1, <3>2
  <2> HIDE DEF g
  <2> QED BY <1>1, <1>4, <1>6, <2>1, <2>2, <2>3, <2>5, TakeAgrees
<1>7. CASE ~Fits(n) /\ Reject
  <2>1. ASSUME reader = "stream", SourceOK PROVE ~GoesOn(file.units, place)
    <3>1. ~FitsAt(place, n)
      BY <1>1, <1>4, <1>7, <2>1, StreamFits
    <3>2. place.pc = f /\ place.pc \in DigestFields /\ DigestAt(place) = n
      BY <1>1, <1>2, <1>5, <2>1
    <3> QED BY <3>1, <3>2, GoesOnFacts
  <2> QED BY <1>1, <1>7, <2>1, RejectAgrees
<1> QED BY <1>3, <1>6, <1>7

(* NextPlace, for the fields with an action of their own.                   *)
LEMMA NextPlaceOfOptData ==
  ASSUME NEW u, NEW s, s.pc = "optData"
  PROVE  NextPlace(u, s) =
           Onward(s, s.h.optSize,
                  [s.h EXCEPT !.optional =
                     Append(s.h.optional,
                            [id |-> s.h.optId, data |-> TakenAt(u, s, s.h.optSize)])])
<1>1. s.pc \notin IntFields /\ s.pc \notin DigestFields
  BY DEF IntFields, DigestFields
<1> QED BY <1>1 DEF NextPlace

(* The length of a chunk.                                                   *)
LEMMA NextPlaceOfLength ==
  ASSUME NEW u, NEW s, s.pc = "length"
  PROVE  NextPlace(u, s) =
           Onward(s, IntAt(u, s).length,
                  [s.h EXCEPT !.chunks =
                     Append(s.h.chunks,
                            [digest |-> s.h.digest, compLength |-> s.h.compLength,
                             length |-> IntAt(u, s).value, uDigest |-> UDigest(s.h)])])
<1>1. s.pc \notin IntFields /\ s.pc \notin DigestFields
  BY DEF IntFields, DigestFields
<1> QED BY <1>1 DEF NextPlace

(* The size of the index.                                                   *)
LEMMA NextPlaceOfIndexSize ==
  ASSUME NEW u, NEW s, s.pc = "indexSize"
  PROVE  NextPlace(u, s) =
           [pc |-> "chunkType", pos |-> s.pos + IntAt(u, s).length,
            end |-> s.pos + IntAt(u, s).length + IntAt(u, s).value, h |-> s.h]
BY NextPlaceFacts

(* The end of the index.                                                    *)
LEMMA NextPlaceOfEntries ==
  ASSUME NEW u, NEW s, NEW p, NEW e, NEW g, s = [pc |-> "entries", pos |-> p, end |-> e, h |-> g]
  PROVE  NextPlace(u, s) = [pc |-> "sigCount", pos |-> p, end |-> Len(u), h |-> g]
<1>1. s.pc = "entries"
  OBVIOUS
<1>2. NextPlace(u, s) = [s EXCEPT !.pc = "sigCount", !.end = Len(u)]
  BY <1>1, NextPlaceFacts
<1> QED BY <1>2

(* ReadOptData.                                                             *)
LEMMA OptDataAgrees ==
  ASSUME AgreeInv, ReadInv, ReadOptData
  PROVE  AgreeInv'
<1> DEFINE n == h.optSize
           e == [id |-> h.optId, data |-> Here(n)]
           g == [h EXCEPT !.optional = Append(h.optional, e)]
<1>1. /\ pc = "optData" /\ pc \in TakenPcs /\ pc # "done" /\ pc # "sigCount" /\ pc \notin LeadPcs
      /\ HeaderTypeOK /\ h \in Fields
  BY DEF ReadOptData, LeadPcs, TakenPcs, ElementPcs, ReadInv, HeaderTypeOK
<1>2. SourceOK => place.pc = pc /\ place.h = h
  BY DEF place
<1>3. (Fits(n) /\ Take(n, g)) \/ (~Fits(n) /\ Reject)
  BY Zenon DEF ReadOptData
<1>4. n \in Nat
  BY <1>1 DEF Fields
<1>5. CASE Fits(n) /\ Take(n, g)
  <2>1. pos + n <= end
    BY <1>5 DEF Fits
  <2>2. g.headerSize = h.headerSize
    BY <1>1 DEF Fields
  <2>3. ASSUME SourceOK, LeadRead
        PROVE  /\ GoesOn(file.units, place)
               /\ NextPlace(file.units, place) = Onward(place, n, g)
    <3>1. TakenAt(file.units, place, n) = Here(n) /\ FitsAt(place, n)
      BY <1>1, <1>4, <2>1, <2>3, SameTaken
    <3>2. place.pc = "optData" /\ place.h = h
      BY <1>1, <1>2, <2>3
    <3>3. GoesOn(file.units, place)
      BY <3>1, <3>2, GoesOnFacts
    <3>4. NextPlace(file.units, place) =
            Onward(place, place.h.optSize,
                   [place.h EXCEPT !.optional =
                      Append(place.h.optional,
                             [id |-> place.h.optId,
                              data |-> TakenAt(file.units, place, place.h.optSize)])])
      BY <3>2, NextPlaceOfOptData
    <3> QED BY <3>1, <3>2, <3>3, <3>4
  <2>4. LeadRead'
    <3>1. pc' = After(pc, g, pos + n)
      BY <1>5 DEF Take
    <3>2. pc' \in {"optId", "indexSize"}
      BY <1>1, <3>1, AfterFacts
    <3> QED BY <3>2 DEF LeadRead
  <2> HIDE DEF n, g
  <2> QED BY <1>1, <1>4, <1>5, <2>1, <2>2, <2>3, <2>4, TakeAgrees
<1>6. CASE ~Fits(n) /\ Reject
  <2>1. ASSUME reader = "stream", SourceOK PROVE ~GoesOn(file.units, place)
    <3>1. ~FitsAt(place, n)
      BY <1>1, <1>4, <1>6, <2>1, StreamFits
    <3>2. place.pc = "optData" /\ place.h.optSize = n
      BY <1>1, <1>2, <2>1
    <3> QED BY <3>1, <3>2, GoesOnFacts
  <2> QED BY <1>1, <1>6, <2>1, RejectAgrees
<1> QED BY <1>3, <1>5, <1>6

(* ReadLength.                                                              *)
LEMMA LengthAgrees ==
  ASSUME AgreeInv, ReadInv, ReadLength
  PROVE  AgreeInv'
<1> DEFINE r == NextInt
           e == [digest |-> h.digest, compLength |-> h.compLength,
                 length |-> r.value, uDigest |-> UDigest(h)]
           g == [h EXCEPT !.chunks = Append(h.chunks, e)]
<1>1. /\ pc = "length" /\ pc \in TakenPcs /\ pc # "done" /\ pc # "sigCount" /\ pc \notin LeadPcs
      /\ HeaderTypeOK /\ h \in Fields
  BY DEF ReadLength, LeadPcs, TakenPcs, ReadInv, HeaderTypeOK
<1>2. SourceOK => place.pc = pc /\ place.h = h
  BY DEF place
<1>3. (r.err = "nil" /\ Take(r.length, g)) \/ (r.err # "nil" /\ Reject)
  BY Zenon DEF ReadLength, UDigest
<1>4. CASE r.err = "nil" /\ Take(r.length, g)
  <2>1. r.length \in Nat /\ r.value \in Nat /\ pos + r.length <= end
    BY <1>1, <1>4, NextIntFacts
  <2>2. g.headerSize = h.headerSize
    BY <1>1 DEF Fields
  <2>3. ASSUME SourceOK, LeadRead
        PROVE  /\ GoesOn(file.units, place)
               /\ NextPlace(file.units, place) = Onward(place, r.length, g)
    <3>1. IntAt(file.units, place) = r
      BY <1>1, <1>4, <2>3, SameInt
    <3>2. place.pc = "length" /\ place.h = h
      BY <1>1, <1>2, <2>3
    <3>3. GoesOn(file.units, place)
      BY <1>4, <3>1, <3>2, GoesOnFacts
    <3>4. NextPlace(file.units, place) =
            Onward(place, IntAt(file.units, place).length,
                   [place.h EXCEPT !.chunks =
                      Append(place.h.chunks,
                             [digest |-> place.h.digest, compLength |-> place.h.compLength,
                              length |-> IntAt(file.units, place).value,
                              uDigest |-> UDigest(place.h)])])
      BY <3>2, NextPlaceOfLength
    <3> QED BY <3>1, <3>2, <3>3, <3>4
  <2>4. LeadRead'
    <3>1. pc' = After(pc, g, pos + r.length)
      BY <1>4 DEF Take
    <3>2. pc' \in {"digest", "entries"}
      BY <1>1, <3>1, AfterFacts
    <3> QED BY <3>2 DEF LeadRead
  <2> HIDE DEF r, g
  <2> QED BY <1>1, <1>4, <2>1, <2>2, <2>3, <2>4, TakeAgrees
<1>5. CASE r.err # "nil" /\ Reject
  <2>1. ASSUME reader = "stream", SourceOK PROVE ~GoesOn(file.units, place)
    <3>1. IntAt(file.units, place) = r
      BY <1>1, <2>1, SameInt
    <3>2. place.pc = "length"
      BY <1>1, <1>2, <2>1
    <3> QED BY <1>5, <3>1, <3>2, GoesOnFacts
  <2> QED BY <1>1, <1>5, <2>1, RejectAgrees
<1> QED BY <1>3, <1>4, <1>5

(* ReadIndexSize.                                                           *)
LEMMA IndexSizeAgrees ==
  ASSUME AgreeInv, ReadInv, ReadIndexSize
  PROVE  AgreeInv'
<1> DEFINE r == NextInt
           n == r.length + r.value
           ok == r.err = "nil" /\ Fits(n)
<1>1. /\ pc = "indexSize" /\ pc # "done" /\ pc # "sigCount" /\ pc \notin LeadPcs
      /\ pc \notin IndexPcs /\ HeaderTypeOK
  BY DEF ReadIndexSize, LeadPcs, IndexPcs, CountPcs, EntryPcs, ReadInv
<1>2. SourceOK => place.pc = pc /\ place.h = h
  BY DEF place
<1>3. \/ /\ ok
         /\ pos' = pos + r.length /\ end' = pos + r.length + r.value
         /\ pc' = "chunkType"
         /\ UNCHANGED <<file, turn, src, h, leadLen, results>>
      \/ ~ok /\ Reject
  BY Zenon DEF ReadIndexSize
<1>4. CASE /\ ok
           /\ pos' = pos + r.length /\ end' = pos + r.length + r.value
           /\ pc' = "chunkType"
           /\ UNCHANGED <<file, turn, src, h, leadLen, results>>
  <2>1. r.length \in Nat /\ r.value \in Nat /\ r.err = "nil"
    BY <1>1, <1>4, NextIntFacts
  <2>2. pc' # "done" /\ pc' \notin LeadPcs /\ pc' \in IndexPcs
        /\ (pc' \in LeadPcs <=> pc \in LeadPcs)
    BY <1>1, <1>4 DEF LeadPcs, IndexPcs, CountPcs
  <2>3. LeadRead'
    BY <1>4 DEF LeadRead
  <2>4. shift' = shift
    BY <1>1, <1>4, <2>2 DEF shift, reader
  <2>5. ASSUME SourceOK, LeadRead
        PROVE  /\ SourceOK' /\ GoesOn(file.units, place)
               /\ place' = NextPlace(file.units, place)
    <3>1. IntAt(file.units, place) = r
      BY <1>1, <2>1, <2>5, SameInt
    <3>2. /\ place.pc = "indexSize" /\ place.h = h /\ place.pos = pos + shift
          /\ place.end = Len(file.units) /\ end + shift <= place.end
          /\ pos \in Nat /\ shift \in Nat /\ end \in Nat /\ Len(file.units) \in Nat
      BY <1>1, <2>5, PlaceFacts
    <3>3. FitsAt(place, n)
      <4>1. pos + n <= end
        BY <1>4 DEF Fits
      <4> QED BY <2>1, <3>2, <4>1 DEF FitsAt
    <3>4. GoesOn(file.units, place)
      BY <2>1, <3>1, <3>2, <3>3, GoesOnFacts
    <3>5. NextPlace(file.units, place) =
            [pc |-> "chunkType", pos |-> place.pos + IntAt(file.units, place).length,
             end |-> place.pos + IntAt(file.units, place).length + IntAt(file.units, place).value,
             h |-> place.h]
      BY <3>2, NextPlaceOfIndexSize
    <3>6. place' = [pc |-> pc', pos |-> pos' + shift',
                    end |-> IF pc' \in IndexPcs THEN end' + shift' ELSE Len(file.units)', h |-> h']
      BY DEF place
    <3>7. /\ pos' + shift' = place.pos + r.length
          /\ end' + shift' = place.pos + r.length + r.value
      BY <1>4, <2>1, <2>4, <3>2
    <3>8. place' = NextPlace(file.units, place)
      BY <1>4, <2>2, <3>1, <3>2, <3>5, <3>6, <3>7
    <3>9. SourceOK'
      BY <1>4, <2>4, <2>5 DEF SourceOK, reader
    <3> QED BY <3>4, <3>8, <3>9
  <2> QED BY <1>1, <1>4, <2>2, <2>3, <2>5, GoOn
<1>5. CASE ~ok /\ Reject
  <2>1. ASSUME reader = "stream", SourceOK PROVE ~GoesOn(file.units, place)
    <3>1. IntAt(file.units, place) = r
      BY <1>1, <2>1, SameInt
    <3>2. place.pc = "indexSize"
      BY <1>1, <1>2, <2>1
    <3>3. CASE r.err # "nil"
      BY <3>1, <3>2, <3>3, GoesOnFacts
    <3>4. CASE r.err = "nil"
      <4>1. n \in Nat
        <5>1. r.length \in Nat /\ r.value \in Nat
          BY <1>1, <3>4, NextIntFacts
        <5> QED BY <5>1
      <4>2. ~FitsAt(place, n)
        BY <1>1, <1>5, <2>1, <3>4, <4>1, StreamFits
      <4> QED BY <3>1, <3>2, <4>2, GoesOnFacts
    <3> QED BY <3>3, <3>4
  <2> QED BY <1>1, <1>5, <2>1, RejectAgrees
<1> QED BY <1>3, <1>4, <1>5

(* CheckCount.                                                              *)
LEMMA CheckAgrees ==
  ASSUME AgreeInv, ReadInv, CheckCount
  PROVE  AgreeInv'
<1>1. pc = "entries" /\ pc # "done" /\ pc # "sigCount" /\ pc \notin LeadPcs /\ HeaderTypeOK
  BY DEF CheckCount, LeadPcs, ReadInv
<1>2. SourceOK => place.pc = pc /\ place.h = h
  BY DEF place
<1>3. CASE /\ CountAgrees /\ pc' = "sigCount" /\ end' = Len(src)
           /\ UNCHANGED <<file, turn, src, pos, h, leadLen, results>>
  <2>1. pc' # "done" /\ pc' \notin LeadPcs /\ pc' \notin IndexPcs
        /\ (pc' \in LeadPcs <=> pc \in LeadPcs)
    BY <1>1, <1>3, PcSets
  <2>2. LeadRead'
    BY <1>3 DEF LeadRead
  <2>3. shift' = shift
    BY <1>1, <1>3, <2>1 DEF shift, reader
  <2>4. ASSUME SourceOK, LeadRead
        PROVE  /\ SourceOK' /\ GoesOn(file.units, place)
               /\ place' = NextPlace(file.units, place)
    <3>1. place.pc = "entries" /\ place.h = h /\ place.pos = pos + shift
      BY <1>1, <2>4, PlaceFacts
    <3>2. GoesOn(file.units, place)
      BY <1>3, <3>1, GoesOnFacts DEF CountAgrees
    <3>3. NextPlace(file.units, place) =
            [pc |-> "sigCount", pos |-> pos + shift, end |-> Len(file.units), h |-> h]
      <4> DEFINE e == IF pc \in IndexPcs THEN end + shift ELSE Len(file.units)
      <4>1. place = [pc |-> "entries", pos |-> pos + shift, end |-> e, h |-> h]
        BY <1>1 DEF place
      <4> HIDE DEF e
      <4> QED BY <4>1, NextPlaceOfEntries
    <3>4. place' = [pc |-> pc', pos |-> pos' + shift',
                    end |-> IF pc' \in IndexPcs THEN end' + shift' ELSE Len(file.units)', h |-> h']
      BY DEF place
    <3>5. place' = [pc |-> "sigCount", pos |-> pos + shift, end |-> Len(file.units), h |-> h]
      BY <1>3, <2>1, <2>3, <3>4
    <3>6. SourceOK'
      BY <1>3, <2>3, <2>4 DEF SourceOK, reader
    <3> QED BY <3>2, <3>3, <3>5, <3>6
  <2> QED BY <1>1, <1>3, <2>1, <2>2, <2>4, GoOn
<1>4. CASE ~CountAgrees /\ Reject
  <2>1. ASSUME reader = "stream", SourceOK PROVE ~GoesOn(file.units, place)
    <3>1. place.pc = "entries" /\ place.h = h
      BY <1>1, <1>2, <2>1
    <3> QED BY <1>4, <3>1, GoesOnFacts DEF CountAgrees
  <2> QED BY <1>1, <1>4, <2>1, RejectAgrees
<1> QED BY <1>3, <1>4, Zenon DEF CheckCount

(* Where a shortest lead ends is where the reader is, at the header.        *)
LEMMA ShortestEnds ==
  ASSUME HeaderTypeOK, LeadRead, pc = "header", ShortestLead(file.units)
  PROVE  HeaderStart(h.ckType, h.headerSize) = pos
<1> DEFINE t == TypeInt(file.units)
           size == SizeInt(file.units)
           d == DigestSize[h.ckType]
           a == Len(CInt(h.ckType))
           b == Len(CInt(h.headerSize))
<1>1. /\ t.err = "nil" /\ size.err = "nil" /\ t.length \in Nat /\ size.length \in Nat
      /\ h.ckType = t.value /\ h.headerSize = size.value
      /\ pos = 1 + t.length + size.length + d
  BY DEF LeadRead
<1>2. t.length + size.length = a + b
  BY <1>1 DEF ShortestLead
<1>3. h.ckType \in DOMAIN DigestSize /\ h.ckType \in Nat /\ h.headerSize \in Nat
  BY DEF HeaderTypeOK, Fields
<1>4. a \in Nat /\ b \in Nat /\ d \in Nat
  BY <1>3, CIntFacts, HeaderAssumption
<1>5. Len(Magic) = 1
  <2>1. <<0>> \in Seq(Octet) /\ Len(<<0>>) = 1
    <3>1. 0 \in Octet
      BY RadixFacts DEF Octet
    <3> QED BY <3>1, OneOctet
  <2> QED BY <2>1, PlainFacts DEF Magic
<1>6. HeaderStart(h.ckType, h.headerSize) = Len(Magic) + a + b + d
  BY DEF HeaderStart
<1> HIDE DEF t, size, a, b, d
<1> QED BY <1>1, <1>2, <1>4, <1>5, <1>6

(* FetchHeader.                                                             *)
LEMMA FetchAgrees ==
  ASSUME AgreeInv, ReadInv, FetchHeader
  PROVE  AgreeInv'
<1> DEFINE from == IF reader = "remote" THEN HeaderStart(h.ckType, h.headerSize) ELSE pos
           hdr == SubSeq(file.units, from + 1, from + h.headerSize)
<1>1. /\ pc = "header" /\ pc # "done" /\ pc # "sigCount" /\ pc \in LeadPcs /\ pc \notin IndexPcs
      /\ HeaderTypeOK /\ end = Len(src) /\ pos \in Nat /\ h \in Fields
      /\ h.headerSize \in Nat
  BY DEF FetchHeader, LeadPcs, IndexPcs, CountPcs, EntryPcs, ReadInv, HeaderTypeOK, Fields
<1>2. CASE (reader # "stream") /\ Reject
  <2>1. reader = "stream" /\ SourceOK => ~GoesOn(file.units, place)
    BY <1>2
  <2> QED BY <1>1, <1>2, <2>1, RejectAgrees
<1>3. ASSUME pc' = "dataChecksum", UNCHANGED <<file, turn, h, results>>,
             reader # "stream" => Len(src') = h.headerSize,
             ~Astray /\ SourceOK /\ LeadRead =>
               SourceOK' /\ place' = [place EXCEPT !.pc = "dataChecksum"]
      PROVE  AgreeInv'
  <2>1. Len(results') = turn' - 1 /\ reader' = reader
    BY <1>1, <1>3 DEF AgreeInv, reader
  <2>2. pc' \notin LeadPcs /\ pc' # "done"
    BY <1>3 DEF LeadPcs
  <2>3. Astray' \/ (SourceOK /\ LeadRead /\ Reached(file.units, place))'
    <3>1. CASE Astray
      BY <1>3, <2>1, <3>1 DEF Astray
    <3>2. CASE ~Astray
      <4>1. SourceOK /\ LeadRead /\ Reached(file.units, place)
        BY <1>1, <3>2 DEF AgreeInv
      <4>2. place.pc = "header"
        BY <1>1 DEF place
      <4>3. GoesOn(file.units, place)
        BY <4>2, GoesOnFacts
      <4>4. NextPlace(file.units, place) = [place EXCEPT !.pc = "dataChecksum"]
        BY <4>2, NextPlaceFacts
      <4>5. Reached(file.units, NextPlace(file.units, place))
        BY <4>1, <4>3, ReachedNext
      <4>6. SourceOK' /\ place' = NextPlace(file.units, place)
        BY <1>3, <3>2, <4>1, <4>4
      <4>7. LeadRead'
        BY <1>3 DEF LeadRead
      <4> QED BY <1>3, <4>5, <4>6, <4>7
    <3> QED BY <3>1, <3>2
  <2>4. (Len(results) >= 1 => \E s : Reached(file.units, s) /\ EndsAt(file.units, s, results[1]))'
    BY <1>3 DEF AgreeInv
  <2>5. (\A k \in 2 .. Len(results) : (k = 2 => ShortestLead(file.units)) => Agrees(k))'
    BY <1>3 DEF AgreeInv, Agrees, Accepts
  <2> QED BY <1>3, <2>1, <2>2, <2>3, <2>4, <2>5 DEF AgreeInv
<1>4. ASSUME SourceOK, pc' = "dataChecksum", UNCHANGED <<file, turn, h, results>>,
             pos' + shift' = pos
      PROVE  place' = [place EXCEPT !.pc = "dataChecksum"]
  <2>1. shift = 0
    BY <1>1 DEF shift
  <2>2. pc' \notin IndexPcs
    BY <1>4 DEF IndexPcs, CountPcs, EntryPcs
  <2>3. place = [pc |-> "header", pos |-> pos, end |-> Len(file.units), h |-> h]
    BY <1>1, <2>1 DEF place
  <2>4. place' = [pc |-> pc', pos |-> pos' + shift',
                  end |-> IF pc' \in IndexPcs THEN end' + shift' ELSE Len(file.units)', h |-> h']
    BY DEF place
  <2>5. place' = [pc |-> "dataChecksum", pos |-> pos, end |-> Len(file.units), h |-> h]
    BY <1>4, <2>2, <2>4
  <2>6. [place EXCEPT !.pc = "dataChecksum"] =
          [pc |-> "dataChecksum", pos |-> pos, end |-> Len(file.units), h |-> h]
    BY <2>3
  <2> QED BY <2>5, <2>6
<1>5. CASE /\ reader = "stream"
           /\ pc' = "dataChecksum" /\ leadLen' = pos
           /\ UNCHANGED <<file, turn, src, pos, end, h, results>>
  <2>1. reader' = "stream"
    BY <1>5 DEF reader
  <2>2. shift' = 0 /\ shift = 0
    BY <1>5, <2>1 DEF shift
  <2>3. ASSUME SourceOK PROVE SourceOK' /\ place' = [place EXCEPT !.pc = "dataChecksum"]
    <3>1. SourceOK'
      BY <1>5, <2>1, <2>2, <2>3 DEF SourceOK
    <3>2. pos' + shift' = pos
      BY <1>1, <1>5, <2>2
    <3> QED BY <1>4, <1>5, <2>3, <3>1, <3>2
  <2> QED BY <1>3, <1>5, <2>3
<1>6. CASE /\ reader # "stream" /\ from + h.headerSize <= Len(file.units)
           /\ pc' = "dataChecksum" /\ leadLen' = from
           /\ src' = hdr /\ pos' = 0 /\ end' = Len(hdr)
           /\ UNCHANGED <<file, turn, h, results>>
  <2>1. from \in Nat
    <3>1. h.ckType \in Nat /\ h.ckType \in DOMAIN DigestSize
      BY <1>1 DEF HeaderTypeOK, Fields
    <3>2. Len(CInt(h.ckType)) \in Nat /\ Len(CInt(h.headerSize)) \in Nat
          /\ DigestSize[h.ckType] \in Nat
      BY <1>1, <3>1, CIntFacts, HeaderAssumption
    <3>3. Len(Magic) \in Nat
      <4>1. <<0>> \in Seq(Octet)
        <5>1. 0 \in Octet
          BY RadixFacts DEF Octet
        <5> QED BY <5>1, OneOctet
      <4>2. Magic \in Seq(Unit)
        BY <4>1, PlainFacts DEF Magic
      <4> QED BY <4>2, LenProperties
    <3> QED BY <1>1, <3>2, <3>3 DEF HeaderStart
  <2>2. ~Astray /\ LeadRead => from = pos
    <3>1. ASSUME ~Astray, LeadRead PROVE from = pos
      <4>1. CASE reader = "remote"
        BY <1>1, <3>1, <4>1, ShortestEnds DEF Astray
      <4>2. CASE reader # "remote"
        BY <4>2
      <4> QED BY <4>1, <4>2
    <3> QED BY <3>1
  <2> HIDE DEF from
  <2> DEFINE q == from + h.headerSize
  <2>3. /\ file.units \in Seq(Unit) /\ Len(file.units) \in Nat /\ from \in 0 .. Len(file.units)
        /\ q \in from .. Len(file.units) /\ q - from = h.headerSize
    BY <1>1, <1>6, <2>1, LenProperties DEF HeaderTypeOK
  <2>4. hdr = SubSeq(file.units, from + 1, q)
    OBVIOUS
  <2> HIDE DEF q, hdr
  <2>5. Len(hdr) = h.headerSize /\ \A k \in 1 .. h.headerSize : hdr[k] = file.units[from + k]
    BY <2>3, <2>4, SubSeqFacts
  <2>6. reader' = reader /\ pc' \notin LeadPcs /\ shift' = from
    BY <1>6 DEF reader, shift, LeadPcs
  <2>7. SourceOK'
    <3>1. Len(src') = h.headerSize /\ h.headerSize + from <= Len(file.units)
      BY <1>1, <1>6, <2>1, <2>3, <2>5
    <3>2. ASSUME NEW k \in 1 .. h.headerSize PROVE src'[k] = file.units[k + from]
      <4>1. from + k = k + from
        BY <2>1
      <4> QED BY <1>6, <2>5, <4>1
    <3> QED BY <1>6, <2>6, <3>1, <3>2 DEF SourceOK
  <2>8. ASSUME ~Astray, SourceOK, LeadRead
        PROVE  place' = [place EXCEPT !.pc = "dataChecksum"]
    <3>1. pos' + shift' = pos
      BY <1>1, <1>6, <2>1, <2>2, <2>6, <2>8
    <3> QED BY <1>4, <1>6, <2>8, <3>1
  <2> QED BY <1>3, <1>6, <2>5, <2>7, <2>8
<1> QED BY <1>2, <1>5, <1>6, Zenon DEF FetchHeader

(* ReadSignatures.                                                          *)
LEMMA SignaturesAgree ==
  ASSUME AgreeInv, ReadInv, ReadSignatures
  PROVE  AgreeInv'
<1> DEFINE r == NextInt
           n == r.length
           read == SubSeq(src, IF reader = "stream" THEN leadLen + 1 ELSE 1, pos + n)
           out == [accepted |-> TRUE, fields |-> h, bodyOffset |-> BodyOffset(n), read |-> read]
           ok == r.err = "nil" /\ r.value = 0
<1>1. /\ pc = "sigCount" /\ pc # "done" /\ pc \notin LeadPcs /\ pc \notin IndexPcs
      /\ HeaderTypeOK /\ h \in Fields /\ h.headerSize \in Nat /\ leadLen \in Nat
  BY DEF ReadSignatures, LeadPcs, IndexPcs, CountPcs, EntryPcs, ReadInv, HeaderTypeOK, Fields
<1>2. place.pc = "sigCount" /\ place.h = h /\ place.pos = pos + shift
  BY <1>1 DEF place
<1>3. ~GoesOn(file.units, place)
  BY <1>2, GoesOnFacts
<1>4. (ok /\ Result(out)) \/ (~ok /\ Reject)
  BY Zenon DEF ReadSignatures
<1>5. CASE ok /\ Result(out)
  <2>1. out.accepted /\ out.fields = h /\ out.bodyOffset = BodyOffset(n)
    OBVIOUS
  <2>2. r.err = "nil" /\ r.value = 0 /\ n \in Nat /\ pos + n <= end
    BY <1>1, <1>5, NextIntFacts
  <2>3. SourceOK => IntAt(file.units, place) = r
    BY <1>1, <2>2, SameInt
  <2>4. Result(out)
    BY <1>5
  <2>5. pos \in Nat /\ end \in Nat /\ end <= Len(src)
    BY <1>1 DEF HeaderTypeOK
  <2> HIDE DEF r, n, out
  <2>6. ASSUME reader = "stream", SourceOK PROVE EndsAt(file.units, place, out)
    <3>1. shift = 0
      BY <2>6 DEF shift
    <3>2. BodyOffset(n) = place.pos + n
      BY <1>2, <2>5, <2>6, <3>1 DEF BodyOffset
    <3>3. /\ IntAt(file.units, place).err = "nil" /\ IntAt(file.units, place).value = 0
          /\ IntAt(file.units, place).length = n
      BY <2>2, <2>3, <2>6 DEF n
    <3> QED BY <1>2, <1>3, <2>1, <3>2, <3>3 DEF EndsAt
  <2>7. ASSUME reader # "stream", ~Astray
        PROVE  /\ results[1].accepted /\ results[1].fields = out.fields
               /\ results[1].bodyOffset <= out.bodyOffset
    <3>1. SourceOK /\ Reached(file.units, place)
      BY <1>1, <2>7 DEF AgreeInv
    <3>2. Len(results) >= 1
      <4>1. turn \in 2 .. 3
        BY <1>1, <2>7, ReaderFacts DEF HeaderTypeOK
      <4>2. Len(results) = turn - 1
        BY <1>1 DEF AgreeInv
      <4> QED BY <4>1, <4>2
    <3>3. PICK s : Reached(file.units, s) /\ EndsAt(file.units, s, results[1])
      BY <3>2 DEF AgreeInv
    <3>4. ~GoesOn(file.units, s)
      BY <3>3 DEF EndsAt
    <3>5. s = place
      BY <1>3, <3>1, <3>3, <3>4, OneEnd
    <3>6. /\ IntAt(file.units, place).err = "nil" /\ IntAt(file.units, place).value = 0
          /\ IntAt(file.units, place).length = n
      BY <2>2, <2>3, <3>1 DEF n
    <3>7. EndsAt(file.units, place, results[1])
      BY <3>3, <3>5
    <3>8. /\ results[1].accepted /\ results[1].fields = place.h
          /\ results[1].bodyOffset = place.pos + n
      BY <1>2, <3>6, <3>7 DEF EndsAt
    <3>9. shift = leadLen /\ Len(src) = h.headerSize
      BY <1>1, <2>7 DEF shift, AgreeInv
    <3>10. BodyOffset(n) = leadLen + h.headerSize
      BY <2>7 DEF BodyOffset
    <3>11. place.pos + n <= BodyOffset(n)
      BY <1>1, <1>2, <2>2, <2>5, <3>9, <3>10
    <3> QED BY <1>2, <2>1, <3>8, <3>11
  <2> QED BY <1>1, <2>4, <2>6, <2>7, ResultAgrees
<1>6. CASE ~ok /\ Reject
  <2>1. reader = "stream" /\ SourceOK => IntAt(file.units, place) = r
    BY <1>1, SameInt
  <2> QED BY <1>1, <1>3, <1>6, <2>1, RejectAgrees
<1> QED BY <1>4, <1>5, <1>6

(* The first reader starts at the start.                                    *)
LEMMA AgreeInit == Init => AgreeInv
<1> SUFFICES ASSUME Init PROVE AgreeInv
  OBVIOUS
<1>1. /\ file \in Files /\ results = <<>> /\ turn = 1 /\ pc = "magic" /\ pos = 0 /\ h = Blank
      /\ leadLen = 0
      /\ src = Opened(file.units, Readers[1]) /\ end = Len(src)
  BY DEF Init, Begin
<1>2. file.units \in Seq(Unit)
  BY <1>1, HeaderAssumption
<1>3. Readers[1] = "stream" /\ reader = "stream"
  BY <1>1 DEF reader, Readers
<1>4. src = file.units /\ Len(file.units) \in Nat
  BY <1>1, <1>2, <1>3, OpenedIsTheStart, LenProperties
<1>5. Len(results) = 0
  BY <1>1
<1>6. shift = 0 /\ pc \in LeadPcs /\ pc \notin IndexPcs
  BY <1>1, <1>3 DEF shift, LeadPcs, IndexPcs, CountPcs, EntryPcs
<1>7. SourceOK
  <2>1. Len(src) + 0 <= Len(file.units) /\ \A k \in 1 .. Len(src) : k + 0 = k
    BY <1>4
  <2> QED BY <1>4, <1>6, <2>1 DEF SourceOK
<1>8. LeadRead
  BY <1>1 DEF LeadRead
<1>9. place = StartPlace(file.units)
  BY <1>1, <1>6 DEF place, StartPlace
<1>10. Reached(file.units, place)
  BY <1>9, ReachedStart
<1> QED BY <1>1, <1>3, <1>5, <1>7, <1>8, <1>10 DEF AgreeInv

(* A step that changes nothing.                                             *)
LEMMA AgreeStutters ==
  ASSUME AgreeInv, UNCHANGED vars
  PROVE  AgreeInv'
<1>1. UNCHANGED <<file, turn, pc, src, pos, end, h, leadLen, results>>
  BY DEF vars
<1>2. shift' = shift /\ reader' = reader
  BY <1>1 DEF shift, reader
<1>3. place' = place
  BY <1>1, <1>2 DEF place
<1>4. SourceOK' <=> SourceOK
  BY <1>1, <1>2 DEF SourceOK
<1>5. LeadRead' <=> LeadRead
  BY <1>1 DEF LeadRead
<1>6. Astray' <=> Astray
  BY <1>1, <1>2 DEF Astray
<1>7. \A k : Agrees(k)' <=> Agrees(k)
  BY <1>1 DEF Agrees, Accepts
<1> QED BY <1>1, <1>2, <1>3, <1>4, <1>5, <1>6, <1>7 DEF AgreeInv

(* AgreeInv holds in every state, whatever the files, the digests and their *)
(* sizes: as long as the remote reader does not look for the header inside  *)
(* a padded lead, every reader is at a place of the file that the stream    *)
(* reader gets to as well, with the same fields read.                       *)
THEOREM AgreeingInvariant == Spec => []AgreeInv
<1>1. ASSUME AgreeInv, ReadInv, [Next]_vars PROVE AgreeInv'
  <2>1. CASE ReadMagic
    BY <1>1, <2>1, MagicAgrees
  <2>2. CASE FetchHeader
    BY <1>1, <2>2, FetchAgrees
  <2>3. CASE ReadOptData
    BY <1>1, <2>3, OptDataAgrees
  <2>4. CASE ReadIndexSize
    BY <1>1, <2>4, IndexSizeAgrees
  <2>5. CASE ReadLength
    BY <1>1, <2>5, LengthAgrees
  <2>6. CASE CheckCount
    BY <1>1, <2>6, CheckAgrees
  <2>7. CASE ReadSignatures
    BY <1>1, <2>7, SignaturesAgree
  <2>8. CASE UNCHANGED vars
    BY <1>1, <2>8, AgreeStutters
  <2>9. ASSUME NEW f \in IntFields, ReadInt(f) PROVE AgreeInv'
    BY <1>1, <2>9, IntAgrees
  <2>10. ASSUME NEW f \in DigestFields, ReadDigest(f) PROVE AgreeInv'
    BY <1>1, <2>10, DigestsAgree
  <2>11. Done => UNCHANGED vars
    BY DEF Done
  <2> QED BY <1>1, <2>1, <2>2, <2>3, <2>4, <2>5, <2>6, <2>7, <2>8, <2>9, <2>10, <2>11 DEF Next
<1> QED BY <1>1, AgreeInit, ReadingInvariant, PTL DEF Spec

(* A file whose lead is as short as it can be, as every lead is that this   *)
(* code writes, is read alike by all readers: none accepts what extract     *)
(* refuses or finds other fields in it, or looks for the body before its    *)
(* end (ReadersAgree). The detached reader agrees with extract whatever the *)
(* lead.                                                                    *)
THEOREM ReadersAlwaysAgree ==
  Spec => [](/\ ShortestLead(file.units) => ReadersAgree
             /\ 3 \in DOMAIN results => Agrees(3))
<1>1. AgreeInv /\ ReadInv => /\ ShortestLead(file.units) => ReadersAgree
                             /\ 3 \in DOMAIN results => Agrees(3)
  <2> SUFFICES ASSUME AgreeInv, ReadInv
               PROVE  /\ ShortestLead(file.units) => ReadersAgree
                      /\ 3 \in DOMAIN results => Agrees(3)
    OBVIOUS
  <2>1. \A k \in 2 .. Len(results) : (k = 2 => ShortestLead(file.units)) => Agrees(k)
    BY DEF AgreeInv
  <2>2. DOMAIN results = 1 .. Len(results) /\ Len(results) \in Nat
    BY LenProperties DEF ReadInv, HeaderTypeOK
  <2>3. 3 \in DOMAIN results => 3 \in 2 .. Len(results)
    BY <2>2
  <2> QED BY <2>1, <2>3 DEF ReadersAgree
<1> QED BY <1>1, AgreeingInvariant, ReadingInvariant, PTL

----------------------------------------------------------------------------
(* What is written is read back *)

(* The file is a written one; what it was written for, with the data        *)
(* checksum that buildHeader filled in, and what follows its lead.          *)
Written == file.origin.kind = "written"

theType   == file.origin.type
theFields == WithDataChecksum(theType, file.origin.fields, file.origin.body)
theHeader == HeaderBody(theFields)
theSum    == HeaderChecksum(theType, Len(theHeader), theHeader)
theLead   == HeaderStart(theType, Len(theHeader))

(* An entry has its second digest if and only if the flag is set.           *)
DigestsFlagged(x) ==
  \A k \in DOMAIN x.chunks : Has(x.flags, UncompressedSource) \/ x.chunks[k].uDigest = <<>>

(* What is written of the optional elements and of the entries from the     *)
(* n-th on, and all that follows.                                           *)
IndexRest(x)       == IndexBytes(x) \o SignatureBytes
ElementsRest(x, n) == OptionalBytes(SubSeq(x.optional, n + 1, Len(x.optional))) \o IndexRest(x)
EntriesRest(x, n)  == ChunkBytes(SubSeq(x.chunks, n + 1, Len(x.chunks))) \o SignatureBytes

OptionalRest(x) ==
  IF Has(x.flags, OptionalElements) THEN CInt(Len(x.optional)) \o ElementsRest(x, 0)
  ELSE IndexRest(x)

(* The element and the entry that come after those in g.                    *)
NextElement(x, g) == x.optional[Len(g.optional) + 1]
NextEntry(x, g)   == x.chunks[Len(g.chunks) + 1]

(* What is written for the fields x from field f on, when g has been read:  *)
(* the field itself and what follows it.                                    *)
LengthRest(x, g)     == CInt(NextEntry(x, g).length) \o EntriesRest(x, Len(g.chunks) + 1)
CompLengthRest(x, g) == CInt(NextEntry(x, g).compLength) \o LengthRest(x, g)
UDigestRest(x, g)    == NextEntry(x, g).uDigest \o CompLengthRest(x, g)
DigestRest(x, g)     == NextEntry(x, g).digest \o UDigestRest(x, g)
CountRest(x)         == CInt(Len(x.chunks)) \o EntriesRest(x, 0)
ChunkTypeRest(x)     == CInt(x.chunkType) \o CountRest(x)

OptDataRest(x, g)  == NextElement(x, g).data \o ElementsRest(x, Len(g.optional) + 1)
OptSizeRest(x, g)  == CInt(Len(NextElement(x, g).data)) \o OptDataRest(x, g)
OptIdRest(x, g)    == CInt(NextElement(x, g).id) \o OptSizeRest(x, g)
OptCountRest(x)    == CInt(Len(x.optional)) \o ElementsRest(x, 0)
CompressionRest(x) == CInt(x.compression) \o OptionalRest(x)
FlagsRest(x)       == CInt(x.flags) \o CompressionRest(x)

Rest(x, f, g) ==
  CASE f = "dataChecksum" -> x.dataChecksum \o FlagsRest(x)
    [] f = "flags"        -> FlagsRest(x)
    [] f = "compression"  -> CompressionRest(x)
    [] f = "optCount"     -> OptCountRest(x)
    [] f = "optId"        -> OptIdRest(x, g)
    [] f = "optSize"      -> OptSizeRest(x, g)
    [] f = "optData"      -> OptDataRest(x, g)
    [] f = "indexSize"    -> IndexRest(x)
    [] f = "chunkType"    -> ChunkTypeRest(x)
    [] f = "count"        -> CountRest(x)
    [] f = "digest"       -> DigestRest(x, g)
    [] f = "uDigest"      -> UDigestRest(x, g)
    [] f = "compLength"   -> CompLengthRest(x, g)
    [] f = "length"       -> LengthRest(x, g)
    [] f = "entries"      -> SignatureBytes
    [] f = "sigCount"     -> SignatureBytes

LeadRest(f) ==
  CASE f = "ckType"     -> CInt(theType) \o (CInt(Len(theHeader)) \o theSum)
    [] f = "headerSize" -> CInt(Len(theHeader)) \o theSum
    [] f = "checksum"   -> theSum
    [] f = "header"     -> <<>>

(* The places where the fields of the header stand.                         *)
HeaderPcs == PrefacePcs \cup IndexPcs \cup {"sigCount"}

(* What is ahead of a reader is what was written from its field on; the     *)
(* section ends where what was written for it does.                         *)
LeadIsAhead ==
  /\ src = Opened(file.units, reader)
  /\ pc = "magic" => pos = 0
  /\ pc # "magic" => At(src, pos, LeadRest(pc)) /\ pos + Len(LeadRest(pc)) = theLead

HeaderIsAhead ==
  /\ leadLen = theLead
  /\ At(src, pos, Rest(theFields, pc, h))
  /\ pos + Len(Rest(theFields, pc, h)) = base + Len(theHeader)
  /\ pc \in IndexPcs => end + Len(SignatureBytes) = base + Len(theHeader)

(* What has been read is what was written.                                  *)
LeadAsWritten ==
  /\ pc \notin {"magic", "ckType"} => h.ckType = theType
  /\ pc \notin {"magic", "ckType", "headerSize"} => h.headerSize = Len(theHeader)
  /\ pc = "header" => h.checksum = theSum

PrefaceAsWritten ==
  /\ pc \in {"compression", "optCount", "indexSize", "sigCount"} \cup ElementPcs \cup IndexPcs =>
       h.flags = theFields.flags
  /\ pc \in {"optCount", "indexSize", "sigCount"} \cup ElementPcs \cup IndexPcs =>
       h.compression = theFields.compression
  /\ Len(h.optional) <= Len(theFields.optional)
  /\ h.optional = SubSeq(theFields.optional, 1, Len(h.optional))
  /\ pc \in ElementPcs => h.optCount = Len(theFields.optional)
  /\ pc \in {"optSize", "optData"} => h.optId = NextElement(theFields, h).id
  /\ pc = "optData" => h.optSize = Len(NextElement(theFields, h).data)
  /\ pc \in {"indexSize", "sigCount"} \cup IndexPcs => h.optional = theFields.optional

IndexAsWritten ==
  /\ pc \in {"count", "entries", "sigCount"} \cup EntryPcs => h.chunkType = theFields.chunkType
  /\ pc \in {"entries", "sigCount"} \cup EntryPcs => h.count = Len(theFields.chunks)
  /\ Len(h.chunks) <= Len(theFields.chunks)
  /\ h.chunks = SubSeq(theFields.chunks, 1, Len(h.chunks))
  /\ pc \in EntryPcs => Len(h.chunks) < Len(theFields.chunks)
  /\ pc \in {"uDigest", "compLength", "length"} => h.digest = NextEntry(theFields, h).digest
  /\ pc \in {"compLength", "length"} => UDigest(h) = NextEntry(theFields, h).uDigest
  /\ pc = "length" => h.compLength = NextEntry(theFields, h).compLength
  /\ pc \in {"entries", "sigCount"} => h.chunks = theFields.chunks

(* WrittenHeadersAreReadBack of one result.                                 *)
ReadAsWritten(r) ==
  /\ r.accepted
  /\ r.bodyOffset = file.origin.bodyOffset
  /\ \A f \in DOMAIN file.origin.fields :
       f # "dataChecksum" => r.fields[f] = file.origin.fields[f]

WrittenInv ==
  /\ file \in Files
  /\ Written =>
       /\ pc \in LeadPcs => LeadIsAhead
       /\ pc \in HeaderPcs => HeaderIsAhead
       /\ pc # "done" => LeadAsWritten /\ PrefaceAsWritten /\ IndexAsWritten
       /\ \A k \in DOMAIN results : ReadAsWritten(results[k])

(* A value below the n-th power of the radix takes at most n groups.        *)
LEMMA GroupsSuffice ==
  ASSUME NEW n \in Nat, NEW v \in Nat, v < Powers(Radix)[n + 1]
  PROVE  Len(CInt(v)) <= n + 1
<1> DEFINE Bad == {m \in Nat : \E x \in Nat : x < Powers(Radix)[m + 1] /\ ~(Len(CInt(x)) <= m + 1)}
<1>1. SUFFICES ASSUME Bad # {} PROVE FALSE
  OBVIOUS
<1>2. PICK m \in Bad : \A y \in Bad : m <= y
  <2>1. Bad \subseteq Nat
    OBVIOUS
  <2> QED BY <1>1, <2>1, NatMin
<1>3. PICK x \in Nat : x < Powers(Radix)[m + 1] /\ ~(Len(CInt(x)) <= m + 1)
  BY <1>2
<1>4. m \in Nat /\ Radix \in Nat /\ Radix >= 2 /\ Len(CInt(x)) \in Nat
  BY <1>2, RadixFacts, CIntFacts
<1>5. Len(CInt(x)) = IF x >= Radix THEN 1 + Len(CInt(x \div Radix)) ELSE 1
  BY LengthOfCInt
<1>6. x >= Radix
  BY <1>3, <1>4, <1>5
<1> DEFINE q == x \div Radix
           P == Powers(Radix)
<1>7. q \in Nat /\ x = Radix * q + (x % Radix) /\ x % Radix \in 0 .. Radix - 1
  BY RadixDivides
<1>8. P[m] \in Nat /\ P[m + 1] = Radix * P[m] /\ P[0] = 1
  BY <1>4, RadixFacts
<1>9. q < P[m]
  <2> DEFINE r == x % Radix
             z == P[m]
  <2>1. x < Radix * z /\ x = Radix * q + r /\ r \in 0 .. Radix - 1 /\ z \in Nat
    BY <1>3, <1>7, <1>8
  <2> HIDE DEF q, r, z
  <2> SUFFICES ASSUME z <= q PROVE FALSE
    BY <1>7, <2>1 DEF z
  <2>2. Radix * z <= Radix * q /\ Radix * z \in Nat /\ Radix * q \in Nat
    BY <1>4, <1>7, <2>1, Products
  <2> DEFINE c == Radix * z
             d == Radix * q
  <2>3. x < c /\ x = d + r /\ c <= d /\ c \in Nat /\ d \in Nat
    BY <2>1, <2>2
  <2> HIDE DEF c, d
  <2> QED BY <1>4, <2>1, <2>3
<1> HIDE DEF q, P
<1>10. CASE m = 0
  <2>1. q = 0
    BY <1>7, <1>8, <1>9, <1>10
  <2>2. x = x % Radix
    <3>1. Radix * q = 0
      BY <1>4, <2>1
    <3> DEFINE r == x % Radix
    <3>2. x = 0 + r /\ r \in Nat
      BY <1>4, <1>7, <3>1
    <3> HIDE DEF r
    <3>3. x = r
      BY <3>2
    <3> QED BY <3>3 DEF r
  <2> QED BY <1>4, <1>6, <1>7, <2>2
<1>11. CASE m # 0
  <2>1. m - 1 \in Nat /\ (m - 1) + 1 = m /\ ~(m <= m - 1)
    BY <1>4, <1>11
  <2>2. q < Powers(Radix)[(m - 1) + 1]
    BY <1>9, <2>1 DEF P
  <2>3. m - 1 \notin Bad
    BY <1>2, <2>1
  <2>4. Len(CInt(q)) <= (m - 1) + 1
    BY <1>7, <2>1, <2>2, <2>3
  <2>5. Len(CInt(x)) = 1 + Len(CInt(q)) /\ Len(CInt(q)) \in Nat
    BY <1>5, <1>6, <1>7, CIntFacts DEF q
  <2> QED BY <1>3, <1>4, <2>1, <2>4, <2>5
<1> QED BY <1>10, <1>11

(* An integer of the code's width takes at most the longest length.         *)
LEMMA WordsFit ==
  ASSUME NEW v \in Word
  PROVE  v \in Nat /\ v < Values /\ Len(CInt(v)) <= MaxCompressedIntLen
<1> DEFINE n == MaxCompressedIntLen - 1
<1>1. n \in Nat /\ n + 1 = MaxCompressedIntLen /\ v \in Nat /\ v < Values
  BY CompressedIntAssumption, RadixFacts DEF Word
<1> HIDE DEF n
<1>2. Values = 2 * Powers(Radix)[n] /\ Powers(Radix)[n + 1] = Radix * Powers(Radix)[n]
      /\ Powers(Radix)[n] \in Nat /\ Radix \in Nat /\ Radix >= 2
  <2>1. Values = 2 * Powers(Radix)[n]
    BY RadixFacts DEF n
  <2> QED BY <1>1, <2>1, RadixFacts
<1>3. 2 * Powers(Radix)[n] <= Radix * Powers(Radix)[n]
  <2> DEFINE z == Powers(Radix)[n]
  <2> HIDE DEF z
  <2>1. z \in Nat
    BY <1>2 DEF z
  <2>2. 2 * z <= Radix * z
    <3>1. z * 2 <= z * Radix /\ z * 2 = 2 * z /\ z * Radix = Radix * z
      BY <1>2, <2>1, Products
    <3> QED BY <3>1
  <2> QED BY <2>2 DEF z
<1>4. v < Powers(Radix)[n + 1]
  <2> DEFINE c == Radix * Powers(Radix)[n]
             d == 2 * Powers(Radix)[n]
  <2>1. c \in Nat /\ d \in Nat /\ d <= c /\ v < d /\ Powers(Radix)[n + 1] = c
    BY <1>1, <1>2, <1>3, Products
  <2> HIDE DEF c, d
  <2> QED BY <1>1, <2>1
<1> QED BY <1>1, <1>4, GroupsSuffice

(* An integer that was written is read.                                     *)
LEMMA WrittenIntIsRead ==
  ASSUME NEW s \in Seq(Unit), NEW p \in Nat, NEW v \in Word, NEW w \in Seq(Unit),
         At(s, p, CInt(v) \o w), NEW e \in Nat, p + Len(CInt(v)) <= e, e <= Len(s)
  PROVE  ReadCompressedInt(Octets(SubSeq(s, p + 1, e))) =
           [err |-> "nil", value |-> v, length |-> Len(CInt(v))]
<1> DEFINE u == CInt(v)
           t == SubSeq(s, p + 1, e)
           n == p + Len(u)
<1>1. v \in Nat /\ v < Values /\ Len(u) <= MaxCompressedIntLen
  BY WordsFit
<1>2. u \in Seq(Unit) /\ Shortest(Octets(u), v) /\ Len(u) \in Nat /\ Len(u) >= 1
      /\ Len(Octets(u)) = Len(u)
  BY <1>1, CIntFacts
<1>3. ReadCompressedInt(Octets(u)) = [err |-> "nil", value |-> v, length |-> Len(u)]
  <2>1. Octets(u) \in Seq(Octet) /\ Ends(Octets(u), Len(Octets(u)))
        /\ Denoted(Octets(u))[Len(Octets(u))] = v
    BY <1>2 DEF Shortest
  <2>2. Ends(Octets(u), Len(u)) /\ Denoted(Octets(u))[Len(u)] = v
    BY <1>2, <2>1
  <2> HIDE DEF u
  <2> QED BY <1>1, <2>1, <2>2, ReadEnds
<1> HIDE DEF u
<1>4. SubSeq(s, p + 1, n) = u /\ Len(s) \in Nat
  <2>1. At(s, p, u \o w) /\ u \in Seq(Unit)
    BY <1>2 DEF u
  <2>2. SubSeq(s, p + 1, p + Len(u)) = u /\ Len(s) \in Nat
    BY <2>1, AtFacts
  <2> QED BY <2>2
<1>5. p \in 0 .. Len(s) /\ e \in p .. Len(s) /\ n \in p .. Len(s) /\ n - p = Len(u)
      /\ Len(u) <= e - p /\ e - p \in Nat
  <2>1. p + Len(u) <= e
    BY DEF u
  <2> QED BY <1>2, <1>4, <2>1
<1>6. t \in Seq(Unit) /\ Len(t) = e - p /\ \A k \in 1 .. e - p : t[k] = s[p + k]
  BY <1>5, SubSeqFacts
<1>7. \A k \in 1 .. n - p : u[k] = s[p + k]
  <2> HIDE DEF n
  <2> QED BY <1>4, <1>5, SubSeqFacts
<1>8. \A k \in 1 .. Len(u) : t[k] = u[k]
  BY <1>2, <1>5, <1>6, <1>7
<1>9. Len(u) <= Len(t)
  BY <1>5, <1>6
<1>10. ReadCompressedInt(Octets(u)).err = "nil"
  BY <1>3
<1> HIDE DEF t, n
<1>11. ReadCompressedInt(Octets(t)) = ReadCompressedInt(Octets(u))
  BY <1>2, <1>6, <1>8, <1>9, <1>10, SameInteger
<1> QED BY <1>3, <1>11 DEF t, u

(* The elements of a header, one in front of the others.                    *)
LEMMA OptionalFront ==
  ASSUME NEW o \in Seq(Element), NEW n \in Nat, n < Len(o)
  PROVE  OptionalBytes(SubSeq(o, n + 1, Len(o))) =
           ElementBytes(o[n + 1]) \o OptionalBytes(SubSeq(o, (n + 1) + 1, Len(o)))
<1> DEFINE all(s) == [k \in DOMAIN s |-> ElementBytes(s[k])]
           a == SubSeq(o, n + 1, Len(o))
           b == SubSeq(o, (n + 1) + 1, Len(o))
<1>1. \A s \in Seq(Element) : /\ all(s) \in Seq(Seq(Unit)) /\ Len(all(s)) = Len(s)
                              /\ \A k \in 1 .. Len(s) : all(s)[k] = ElementBytes(s[k])
  <2> SUFFICES ASSUME NEW s \in Seq(Element)
               PROVE  /\ all(s) \in Seq(Seq(Unit)) /\ Len(all(s)) = Len(s)
                      /\ \A k \in 1 .. Len(s) : all(s)[k] = ElementBytes(s[k])
    OBVIOUS
  <2>1. Len(s) \in Nat /\ DOMAIN s = 1 .. Len(s)
    BY LenProperties
  <2>2. ASSUME NEW k \in 1 .. Len(s) PROVE ElementBytes(s[k]) \in Seq(Unit)
    BY ElementOfSeq, ElementTyped
  <2>3. all(s) = [k \in 1 .. Len(s) |-> ElementBytes(s[k])]
    BY <2>1
  <2> HIDE DEF all
  <2> QED BY <2>1, <2>2, <2>3
<1>2. Len(o) \in Nat /\ n + 1 \in Nat /\ n + 1 <= Len(o) /\ n <= Len(o) /\ n + 1 \in 1 .. Len(o)
  BY LenProperties
<1>3. /\ a \in Seq(Element) /\ Len(a) = Len(o) - n
      /\ \A k \in 1 .. Len(o) - n : a[k] = o[n + k]
  BY <1>2, RestOfSeq
<1>4. /\ b \in Seq(Element) /\ Len(b) = Len(o) - (n + 1)
      /\ \A k \in 1 .. Len(o) - (n + 1) : b[k] = o[(n + 1) + k]
  <2> DEFINE m == n + 1
  <2> HIDE DEF m
  <2>1. m \in Nat /\ m <= Len(o)
    BY <1>2 DEF m
  <2>2. /\ SubSeq(o, m + 1, Len(o)) \in Seq(Element) /\ Len(SubSeq(o, m + 1, Len(o))) = Len(o) - m
        /\ \A k \in 1 .. Len(o) - m : SubSeq(o, m + 1, Len(o))[k] = o[m + k]
    BY <2>1, RestOfSeq
  <2> QED BY <2>2 DEF m
<1> DEFINE long == all(a)
           short == all(b)
<1>5. OptionalBytes(a) = FlattenSeq(long) /\ OptionalBytes(b) = FlattenSeq(short)
  BY DEF OptionalBytes
<1>6. /\ long \in Seq(Seq(Unit)) /\ Len(long) = Len(o) - n
      /\ \A k \in 1 .. Len(o) - n : long[k] = ElementBytes(a[k])
  BY <1>1, <1>3
<1>7. /\ short \in Seq(Seq(Unit)) /\ Len(short) = Len(o) - (n + 1)
      /\ \A k \in 1 .. Len(o) - (n + 1) : short[k] = ElementBytes(b[k])
  BY <1>1, <1>4
<1> HIDE DEF all, long, short, a, b
<1>8. Len(long) = Len(short) + 1
  BY <1>2, <1>6, <1>7
<1>9. ASSUME NEW k \in 1 .. Len(short) PROVE long[k + 1] = short[k]
  <2>1. k + 1 \in 1 .. Len(o) - n /\ k \in 1 .. Len(o) - (n + 1) /\ n + (k + 1) = (n + 1) + k
    BY <1>2, <1>7
  <2>2. a[k + 1] = o[n + (k + 1)] /\ b[k] = o[(n + 1) + k]
    BY <1>3, <1>4, <2>1
  <2> QED BY <1>6, <1>7, <2>1, <2>2
<1>10. long = <<long[1]>> \o short /\ long[1] \in Seq(Unit)
  BY <1>6, <1>7, <1>8, <1>9, FirstAndRest
<1>11. long[1] = ElementBytes(o[n + 1])
  <2>1. 1 \in 1 .. Len(o) - n
    BY <1>2
  <2> QED BY <1>3, <1>6, <2>1
<1>12. FlattenSeq(long) = long[1] \o FlattenSeq(short)
  BY <1>7, <1>10, FlattenFront
<1> QED BY <1>5, <1>11, <1>12 DEF a, b

(* So with the entries of its index.                                        *)
LEMMA ChunksFront ==
  ASSUME NEW o \in Seq(Entry), NEW n \in Nat, n < Len(o)
  PROVE  ChunkBytes(SubSeq(o, n + 1, Len(o))) =
           EntryBytes(o[n + 1]) \o ChunkBytes(SubSeq(o, (n + 1) + 1, Len(o)))
<1> DEFINE all(s) == [k \in DOMAIN s |-> EntryBytes(s[k])]
           a == SubSeq(o, n + 1, Len(o))
           b == SubSeq(o, (n + 1) + 1, Len(o))
<1>1. \A s \in Seq(Entry) : /\ all(s) \in Seq(Seq(Unit)) /\ Len(all(s)) = Len(s)
                            /\ \A k \in 1 .. Len(s) : all(s)[k] = EntryBytes(s[k])
  <2> SUFFICES ASSUME NEW s \in Seq(Entry)
               PROVE  /\ all(s) \in Seq(Seq(Unit)) /\ Len(all(s)) = Len(s)
                      /\ \A k \in 1 .. Len(s) : all(s)[k] = EntryBytes(s[k])
    OBVIOUS
  <2>1. Len(s) \in Nat /\ DOMAIN s = 1 .. Len(s)
    BY LenProperties
  <2>2. ASSUME NEW k \in 1 .. Len(s) PROVE EntryBytes(s[k]) \in Seq(Unit)
    BY ElementOfSeq, EntryTyped
  <2>3. all(s) = [k \in 1 .. Len(s) |-> EntryBytes(s[k])]
    BY <2>1
  <2> HIDE DEF all
  <2> QED BY <2>1, <2>2, <2>3
<1>2. Len(o) \in Nat /\ n + 1 \in Nat /\ n + 1 <= Len(o) /\ n <= Len(o) /\ n + 1 \in 1 .. Len(o)
  BY LenProperties
<1>3. /\ a \in Seq(Entry) /\ Len(a) = Len(o) - n
      /\ \A k \in 1 .. Len(o) - n : a[k] = o[n + k]
  BY <1>2, RestOfSeq
<1>4. /\ b \in Seq(Entry) /\ Len(b) = Len(o) - (n + 1)
      /\ \A k \in 1 .. Len(o) - (n + 1) : b[k] = o[(n + 1) + k]
  <2> DEFINE m == n + 1
  <2> HIDE DEF m
  <2>1. m \in Nat /\ m <= Len(o)
    BY <1>2 DEF m
  <2>2. /\ SubSeq(o, m + 1, Len(o)) \in Seq(Entry) /\ Len(SubSeq(o, m + 1, Len(o))) = Len(o) - m
        /\ \A k \in 1 .. Len(o) - m : SubSeq(o, m + 1, Len(o))[k] = o[m + k]
    BY <2>1, RestOfSeq
  <2> QED BY <2>2 DEF m
<1> DEFINE long == all(a)
           short == all(b)
<1>5. ChunkBytes(a) = FlattenSeq(long) /\ ChunkBytes(b) = FlattenSeq(short)
  BY DEF ChunkBytes
<1>6. /\ long \in Seq(Seq(Unit)) /\ Len(long) = Len(o) - n
      /\ \A k \in 1 .. Len(o) - n : long[k] = EntryBytes(a[k])
  BY <1>1, <1>3
<1>7. /\ short \in Seq(Seq(Unit)) /\ Len(short) = Len(o) - (n + 1)
      /\ \A k \in 1 .. Len(o) - (n + 1) : short[k] = EntryBytes(b[k])
  BY <1>1, <1>4
<1> HIDE DEF all, long, short, a, b
<1>8. Len(long) = Len(short) + 1
  BY <1>2, <1>6, <1>7
<1>9. ASSUME NEW k \in 1 .. Len(short) PROVE long[k + 1] = short[k]
  <2>1. k + 1 \in 1 .. Len(o) - n /\ k \in 1 .. Len(o) - (n + 1) /\ n + (k + 1) = (n + 1) + k
    BY <1>2, <1>7
  <2>2. a[k + 1] = o[n + (k + 1)] /\ b[k] = o[(n + 1) + k]
    BY <1>3, <1>4, <2>1
  <2> QED BY <1>6, <1>7, <2>1, <2>2
<1>10. long = <<long[1]>> \o short /\ long[1] \in Seq(Unit)
  BY <1>6, <1>7, <1>8, <1>9, FirstAndRest
<1>11. long[1] = EntryBytes(o[n + 1])
  <2>1. 1 \in 1 .. Len(o) - n
    BY <1>2
  <2> QED BY <1>3, <1>6, <2>1
<1>12. FlattenSeq(long) = long[1] \o FlattenSeq(short)
  BY <1>7, <1>10, FlattenFront
<1> QED BY <1>5, <1>11, <1>12 DEF a, b

(* A digest has as many units as its type says.                             *)
LEMMA SumLength ==
  ASSUME NEW t \in DOMAIN DigestSize, NEW units
  PROVE  Len(Sum(t, units)) = DigestSize[t] /\ Len(NoDigest(t)) = DigestSize[t]
         /\ DigestSize[t] \in Nat
<1>1. DigestSize[t] \in Nat
  BY HeaderAssumption
<1> DEFINE n == DigestSize[t]
           m == Hash(t, units)
<1>2. Sum(t, units) = [k \in 1 .. n |-> [octet |-> (m + k) % (2 * Radix), tag |-> m]]
  BY DEF Sum
<1>3. NoDigest(t) = [k \in 1 .. n |-> [octet |-> 0, tag |-> 0]]
  BY DEF NoDigest
<1> HIDE DEF n, m
<1>4. n \in Nat
  BY <1>1 DEF n
<1>5. Len(Sum(t, units)) = n
  BY <1>2, <1>4
<1>6. Len(NoDigest(t)) = n
  BY <1>3, <1>4
<1> QED BY <1>4, <1>5, <1>6 DEF n

(* What is known of what a file was written for.                            *)
LEMMA WrittenFacts ==
  ASSUME file \in Files, Written
  PROVE  /\ theType \in DOMAIN DigestSize /\ theType \in Word
         /\ theFields \in Structure /\ DigestsFlagged(theFields)
         /\ theFields.flags \in knownFlags /\ theFields.compression \in CompressionTypes
         /\ theFields.chunkType \in DOMAIN DigestSize
         /\ Has(theFields.flags, OptionalElements) <=> theFields.optional # <<>>
         /\ InWords(theFields)
         /\ \A k \in 1 .. Len(theFields.chunks) : ChunkFits(theFields, theFields.chunks[k])
         /\ Len(theFields.dataChecksum) = DigestSize[theType]
         /\ Len(theHeader) \in Word
         /\ theSum \in Seq(Unit) /\ Len(theSum) = DigestSize[theType]
         /\ \A f \in DOMAIN file.origin.fields :
              f # "dataChecksum" => theFields[f] = file.origin.fields[f]
<1> DEFINE o == file.origin
           y == o.fields
           d == IF Has(y.flags, UncompressedSource) THEN NoDigest(o.type) ELSE Sum(o.type, o.body)
<1>1. WrittenFor(file.units, o)
  BY OriginAssumption DEF Written
<1>2. theFields = [y EXCEPT !.dataChecksum = d] /\ theType = o.type
  BY DEF theFields, theType, WithDataChecksum
<1>3. /\ theType \in DOMAIN DigestSize /\ theType \in Word
      /\ y \in Structure /\ Writable(y) /\ InWords(y)
      /\ Has(y.flags, UncompressedSource) \/ \A k \in DOMAIN y.chunks : y.chunks[k].uDigest = <<>>
      /\ Len(theHeader) \in Word
      /\ theFields.dataChecksum \in Seq(Unit) /\ theSum \in Seq(Unit)
  BY <1>1, Zenon DEF WrittenFor, theType, theFields, theHeader, theSum
<1>4. Len(d) = DigestSize[theType] /\ Len(theSum) = DigestSize[theType]
  <2>1. Len(NoDigest(theType)) = DigestSize[theType]
        /\ \A u : Len(Sum(theType, u)) = DigestSize[theType]
    BY <1>3, SumLength
  <2> QED BY <1>2, <2>1 DEF theSum, HeaderChecksum
<1> HIDE DEF d, y
<1>5. y = [dataChecksum |-> y.dataChecksum, flags |-> y.flags, compression |-> y.compression,
           optional |-> y.optional, chunkType |-> y.chunkType, chunks |-> y.chunks]
      /\ y.flags \in Nat /\ y.compression \in Nat /\ y.optional \in Seq(Element)
      /\ y.chunkType \in Nat /\ y.chunks \in Seq(Entry)
  BY <1>3 DEF Structure
<1>6. theFields = [dataChecksum |-> d, flags |-> y.flags, compression |-> y.compression,
                   optional |-> y.optional, chunkType |-> y.chunkType, chunks |-> y.chunks]
  BY <1>2, <1>5
<1>7. /\ theFields.dataChecksum = d /\ theFields.flags = y.flags
      /\ theFields.compression = y.compression /\ theFields.optional = y.optional
      /\ theFields.chunkType = y.chunkType /\ theFields.chunks = y.chunks
  BY <1>6
<1>8. theFields \in Structure
  BY <1>3, <1>5, <1>6, <1>7 DEF Structure
<1>9. \A f \in DOMAIN y : f # "dataChecksum" => theFields[f] = y[f]
  BY <1>2
<1>10. InWords(theFields)
  BY <1>3, <1>7 DEF InWords
<1>11. /\ y.flags \in knownFlags /\ y.compression \in CompressionTypes
       /\ y.chunkType \in DOMAIN DigestSize
       /\ Has(y.flags, OptionalElements) <=> y.optional # <<>>
       /\ \A k \in DOMAIN y.chunks :
            /\ Len(y.chunks[k].digest) = DigestSize[y.chunkType]
            /\ Has(y.flags, UncompressedSource) =>
                 Len(y.chunks[k].uDigest) = DigestSize[y.chunkType]
  BY <1>3, Zenon DEF Writable
<1>12. DigestsFlagged(theFields)
  BY <1>3, <1>7 DEF DigestsFlagged
<1>13. \A k \in 1 .. Len(theFields.chunks) : ChunkFits(theFields, theFields.chunks[k])
  <2>1. DOMAIN y.chunks = 1 .. Len(y.chunks)
    BY <1>5, LenProperties
  <2> QED BY <1>3, <1>7, <1>11, <2>1 DEF ChunkFits
<1> QED BY <1>3, <1>4, <1>7, <1>8, <1>9, <1>10, <1>11, <1>12, <1>13 DEF y

(* The parts of what is written are units; how they follow each other.      *)
LEMMA SignatureFacts ==
  SignatureBytes \in Seq(Unit) /\ Len(SignatureBytes) \in Nat /\ Len(SignatureBytes) >= 1
BY CIntFacts DEF SignatureBytes

(* The index.                                                               *)
LEMMA IndexRestFacts ==
  ASSUME NEW x \in Structure, DigestsFlagged(x)
  PROVE  /\ IndexBody(x) \in Seq(Unit) /\ Len(IndexBody(x)) \in Nat
         /\ CountRest(x) \in Seq(Unit) /\ ChunkTypeRest(x) \in Seq(Unit)
         /\ IndexBytes(x) \in Seq(Unit) /\ IndexRest(x) \in Seq(Unit)
         /\ IndexRest(x) = CInt(Len(IndexBody(x))) \o ChunkTypeRest(x)
         /\ Len(ChunkTypeRest(x)) = Len(IndexBody(x)) + Len(SignatureBytes)
         /\ Len(IndexRest(x)) = Len(CInt(Len(IndexBody(x)))) + Len(ChunkTypeRest(x))
         /\ EntriesRest(x, 0) \in Seq(Unit)
<1> DEFINE t == CInt(x.chunkType)
           n == CInt(Len(x.chunks))
           c == ChunkBytes(x.chunks)
           s == SignatureBytes
           b == IndexBody(x)
           z == CInt(Len(b))
<1>1. x.chunkType \in Nat /\ x.chunks \in Seq(Entry) /\ Len(x.chunks) \in Nat
  BY LenProperties DEF Structure
<1>2. t \in Seq(Unit) /\ n \in Seq(Unit)
  BY <1>1, CIntFacts
<1>3. c \in Seq(Unit)
  BY <1>1, ChunksAppended
<1>4. s \in Seq(Unit)
  BY SignatureFacts
<1>5. b = (t \o n) \o c
  BY BodyOfEntries DEF DigestsFlagged
<1>6. EntriesRest(x, 0) = c \o s
  <2>1. 0 + 1 = 1 /\ SubSeq(x.chunks, 0 + 1, Len(x.chunks)) = x.chunks
    BY <1>1, RestOfSeq
  <2> QED BY <2>1 DEF EntriesRest
<1>7. CountRest(x) = n \o (c \o s) /\ ChunkTypeRest(x) = t \o (n \o (c \o s))
  BY <1>6 DEF CountRest, ChunkTypeRest
<1>8. IndexRest(x) = (z \o b) \o s /\ IndexBytes(x) = z \o b
  BY DEF IndexRest, IndexBytes
<1> HIDE DEF t, n, c, s, b, z
<1>9. t \o n \in Seq(Unit) /\ c \o s \in Seq(Unit)
  BY <1>2, <1>3, <1>4, OctetsConcat
<1>10. b \in Seq(Unit)
  BY <1>3, <1>5, <1>9, OctetsConcat
<1>11. z \in Seq(Unit) /\ Len(b) \in Nat
  BY <1>10, LenProperties, CIntFacts DEF z
<1>12. b \o s = t \o (n \o (c \o s))
  <2>1. ((t \o n) \o c) \o s = (t \o n) \o (c \o s)
    BY <1>3, <1>4, <1>9, Assoc
  <2>2. (t \o n) \o (c \o s) = t \o (n \o (c \o s))
    BY <1>2, <1>9, Assoc
  <2> QED BY <1>5, <2>1, <2>2
<1>13. (z \o b) \o s = z \o (b \o s) /\ z \o b \in Seq(Unit) /\ b \o s \in Seq(Unit)
  BY <1>4, <1>10, <1>11, Assoc
<1>14. n \o (c \o s) \in Seq(Unit)
  BY <1>2, <1>9, OctetsConcat
<1>15. z \o (b \o s) \in Seq(Unit) /\ Len(z \o (b \o s)) = Len(z) + Len(b \o s)
  BY <1>11, <1>13, OctetsConcat
<1>16. Len(b \o s) = Len(b) + Len(s)
  BY <1>4, <1>10, OctetsConcat
<1>17. ChunkTypeRest(x) = b \o s /\ IndexRest(x) = z \o (b \o s)
  BY <1>7, <1>8, <1>12, <1>13
<1>18. CountRest(x) \in Seq(Unit) /\ ChunkTypeRest(x) \in Seq(Unit)
  BY <1>7, <1>13, <1>14, <1>17
<1>19. IndexBytes(x) \in Seq(Unit) /\ IndexRest(x) \in Seq(Unit)
  BY <1>8, <1>13, <1>15, <1>17
<1>20. /\ IndexRest(x) = z \o ChunkTypeRest(x)
       /\ Len(ChunkTypeRest(x)) = Len(b) + Len(s)
       /\ Len(IndexRest(x)) = Len(z) + Len(ChunkTypeRest(x))
  BY <1>15, <1>16, <1>17
<1> QED BY <1>6, <1>9, <1>10, <1>11, <1>18, <1>19, <1>20 DEF b, s, z

(* The optional elements that are left.                                     *)
LEMMA ElementsRestFacts ==
  ASSUME NEW x \in Structure, DigestsFlagged(x), NEW n \in Nat, n <= Len(x.optional)
  PROVE  /\ ElementsRest(x, n) \in Seq(Unit)
         /\ n = Len(x.optional) => ElementsRest(x, n) = IndexRest(x)
<1>1. x.optional \in Seq(Element)
  BY DEF Structure
<1> DEFINE o == SubSeq(x.optional, n + 1, Len(x.optional))
<1>2. o \in Seq(Element) /\ (n = Len(x.optional) => o = <<>>)
  BY <1>1, RestOfSeq
<1>3. OptionalBytes(o) \in Seq(Unit) /\ (o = <<>> => OptionalBytes(o) = <<>>)
  BY <1>2, OptionalAppended
<1>4. ElementsRest(x, n) = OptionalBytes(o) \o IndexRest(x) /\ IndexRest(x) \in Seq(Unit)
  BY IndexRestFacts DEF ElementsRest
<1> HIDE DEF o
<1>5. ElementsRest(x, n) \in Seq(Unit)
  BY <1>3, <1>4, OctetsConcat
<1>6. n = Len(x.optional) => ElementsRest(x, n) = IndexRest(x)
  BY <1>2, <1>3, <1>4, ConcatEmptySeq
<1> QED BY <1>5, <1>6

(* The entries that are left.                                               *)
LEMMA EntriesRestFacts ==
  ASSUME NEW x \in Structure, NEW n \in Nat, n <= Len(x.chunks)
  PROVE  /\ EntriesRest(x, n) \in Seq(Unit)
         /\ n = Len(x.chunks) => EntriesRest(x, n) = SignatureBytes
         /\ Len(EntriesRest(x, n)) >= Len(SignatureBytes)
<1>1. x.chunks \in Seq(Entry)
  BY DEF Structure
<1> DEFINE o == SubSeq(x.chunks, n + 1, Len(x.chunks))
<1>2. o \in Seq(Entry) /\ (n = Len(x.chunks) => o = <<>>)
  BY <1>1, RestOfSeq
<1>3. ChunkBytes(o) \in Seq(Unit) /\ (o = <<>> => ChunkBytes(o) = <<>>)
  BY <1>2, ChunksAppended
<1>4. EntriesRest(x, n) = ChunkBytes(o) \o SignatureBytes /\ SignatureBytes \in Seq(Unit)
  BY SignatureFacts DEF EntriesRest
<1> HIDE DEF o
<1>5. EntriesRest(x, n) \in Seq(Unit)
      /\ Len(EntriesRest(x, n)) = Len(ChunkBytes(o)) + Len(SignatureBytes)
  BY <1>3, <1>4, OctetsConcat
<1>6. n = Len(x.chunks) => EntriesRest(x, n) = SignatureBytes
  BY <1>2, <1>3, <1>4, ConcatEmptySeq
<1>7. Len(ChunkBytes(o)) \in Nat /\ Len(SignatureBytes) \in Nat
  BY <1>3, <1>4, LenProperties
<1> QED BY <1>5, <1>6, <1>7

(* The next element, and the elements after it.                             *)
LEMMA NextElementFacts ==
  ASSUME NEW x \in Structure, DigestsFlagged(x), InWords(x), NEW g,
         Len(g.optional) \in Nat, Len(g.optional) < Len(x.optional)
  PROVE  /\ NextElement(x, g) \in Element /\ NextElement(x, g).id \in Word
         /\ NextElement(x, g).data \in Seq(Unit) /\ Len(NextElement(x, g).data) \in Word
         /\ OptDataRest(x, g) \in Seq(Unit) /\ OptSizeRest(x, g) \in Seq(Unit)
         /\ OptIdRest(x, g) \in Seq(Unit)
         /\ ElementsRest(x, Len(g.optional) + 1) \in Seq(Unit)
         /\ ElementsRest(x, Len(g.optional)) = OptIdRest(x, g)
<1> DEFINE n == Len(g.optional)
           e == NextElement(x, g)
           a == CInt(e.id)
           b == CInt(Len(e.data))
           r == ElementsRest(x, n + 1)
           q == OptionalBytes(SubSeq(x.optional, (n + 1) + 1, Len(x.optional)))
           i == IndexRest(x)
<1>1. x.optional \in Seq(Element) /\ Len(x.optional) \in Nat /\ n + 1 \in Nat
      /\ n + 1 <= Len(x.optional) /\ n + 1 \in 1 .. Len(x.optional)
      /\ DOMAIN x.optional = 1 .. Len(x.optional)
  BY LenProperties DEF Structure
<1>2. e \in Element /\ e = x.optional[n + 1]
  BY <1>1, ElementOfSeq DEF NextElement
<1>3. e.id \in Word /\ Len(e.data) \in Word
  <2>1. {x.optional[n + 1].id, Len(x.optional[n + 1].data)} \subseteq Word
    BY <1>1 DEF InWords
  <2> QED BY <1>2, <2>1
<1> HIDE DEF e, n
<1>4. e.id \in Nat /\ e.data \in Seq(Unit) /\ Len(e.data) \in Nat
  BY <1>2, LenProperties DEF Element
<1>5. a \in Seq(Unit) /\ b \in Seq(Unit)
  BY <1>4, CIntFacts
<1>6. r \in Seq(Unit)
  <2> DEFINE m == n + 1
  <2> HIDE DEF m
  <2>1. m \in Nat /\ m <= Len(x.optional)
    BY <1>1 DEF m
  <2>2. ElementsRest(x, m) \in Seq(Unit)
    BY <2>1, ElementsRestFacts
  <2> QED BY <2>2 DEF m
<1>7. OptDataRest(x, g) = e.data \o r /\ OptSizeRest(x, g) = b \o OptDataRest(x, g)
      /\ OptIdRest(x, g) = a \o OptSizeRest(x, g)
  BY DEF OptDataRest, OptSizeRest, OptIdRest, e, n
<1>8. r = q \o i
  BY DEF ElementsRest
<1>9. ElementsRest(x, n) = (((a \o b) \o e.data) \o q) \o i
  <2>1. n \in Nat /\ n < Len(x.optional)
    BY DEF n
  <2>2. OptionalBytes(SubSeq(x.optional, n + 1, Len(x.optional))) = ElementBytes(e) \o q
    BY <1>1, <1>2, <2>1, OptionalFront
  <2>3. ElementBytes(e) = (a \o b) \o e.data
    BY DEF ElementBytes
  <2> QED BY <2>2, <2>3 DEF ElementsRest
<1>10. q \in Seq(Unit) /\ i \in Seq(Unit)
  <2> DEFINE m == n + 1
  <2> HIDE DEF m
  <2>1. m \in Nat /\ m <= Len(x.optional)
    BY <1>1 DEF m
  <2>2. SubSeq(x.optional, m + 1, Len(x.optional)) \in Seq(Element)
    BY <1>1, <2>1, RestOfSeq
  <2>3. OptionalBytes(SubSeq(x.optional, m + 1, Len(x.optional))) \in Seq(Unit)
    BY <2>2, OptionalAppended
  <2>4. i \in Seq(Unit)
    BY IndexRestFacts
  <2> QED BY <2>3, <2>4 DEF m
<1> HIDE DEF a, b, r, q, i
<1>11. e.data \o r \in Seq(Unit)
  BY <1>4, <1>6, OctetsConcat
<1>12. b \o (e.data \o r) \in Seq(Unit)
  BY <1>5, <1>11, OctetsConcat
<1>13. a \o (b \o (e.data \o r)) \in Seq(Unit)
  BY <1>5, <1>12, OctetsConcat
<1>14. (((a \o b) \o e.data) \o q) \o i = a \o (b \o (e.data \o r))
  <2> DEFINE ab == a \o b
             abd == ab \o e.data
  <2>1. ab \in Seq(Unit)
    BY <1>5, OctetsConcat
  <2> HIDE DEF ab
  <2>2. abd \in Seq(Unit)
    BY <1>4, <2>1, OctetsConcat
  <2> HIDE DEF abd
  <2>3. (abd \o q) \o i = abd \o r
    BY <1>8, <1>10, <2>2, Assoc
  <2>4. abd \o r = ab \o (e.data \o r)
    BY <1>4, <1>6, <2>1, Assoc DEF abd
  <2>5. ab \o (e.data \o r) = a \o (b \o (e.data \o r))
    BY <1>5, <1>11, Assoc DEF ab
  <2> QED BY <2>3, <2>4, <2>5 DEF ab, abd
<1>15. /\ OptDataRest(x, g) \in Seq(Unit) /\ OptSizeRest(x, g) \in Seq(Unit)
       /\ OptIdRest(x, g) \in Seq(Unit)
  BY <1>7, <1>11, <1>12, <1>13
<1>16. ElementsRest(x, n) = OptIdRest(x, g)
  BY <1>7, <1>9, <1>14
<1>17. e \in Element /\ e.id \in Word /\ e.data \in Seq(Unit) /\ Len(e.data) \in Word
  BY <1>2, <1>3, <1>4
<1> QED BY <1>6, <1>15, <1>16, <1>17 DEF e, n, r

(* The next entry, and the entries after it.                                *)
LEMMA NextEntryFacts ==
  ASSUME NEW x \in Structure, InWords(x), NEW g,
         Len(g.chunks) \in Nat, Len(g.chunks) < Len(x.chunks)
  PROVE  /\ NextEntry(x, g) \in Entry /\ NextEntry(x, g).compLength \in Word
         /\ NextEntry(x, g).length \in Word
         /\ NextEntry(x, g).digest \in Seq(Unit) /\ NextEntry(x, g).uDigest \in Seq(Unit)
         /\ DigestRest(x, g) \in Seq(Unit) /\ UDigestRest(x, g) \in Seq(Unit)
         /\ CompLengthRest(x, g) \in Seq(Unit) /\ LengthRest(x, g) \in Seq(Unit)
         /\ EntriesRest(x, Len(g.chunks) + 1) \in Seq(Unit)
         /\ Len(EntriesRest(x, Len(g.chunks) + 1)) >= Len(SignatureBytes)
         /\ EntriesRest(x, Len(g.chunks)) = DigestRest(x, g)
         /\ NextEntry(x, g) = x.chunks[Len(g.chunks) + 1]
<1> DEFINE n == Len(g.chunks)
           e == NextEntry(x, g)
           d == e.digest
           u == e.uDigest
           a == CInt(e.compLength)
           b == CInt(e.length)
           r == EntriesRest(x, n + 1)
           q == ChunkBytes(SubSeq(x.chunks, (n + 1) + 1, Len(x.chunks)))
           s == SignatureBytes
<1>1. x.chunks \in Seq(Entry) /\ Len(x.chunks) \in Nat /\ n + 1 \in Nat
      /\ n + 1 <= Len(x.chunks) /\ n + 1 \in 1 .. Len(x.chunks)
      /\ DOMAIN x.chunks = 1 .. Len(x.chunks)
  BY LenProperties DEF Structure
<1>2. e \in Entry /\ e = x.chunks[n + 1]
  BY <1>1, ElementOfSeq DEF NextEntry
<1>3. e.compLength \in Word /\ e.length \in Word
  <2>1. {x.chunks[n + 1].compLength, x.chunks[n + 1].length} \subseteq Word
    BY <1>1 DEF InWords
  <2> QED BY <1>2, <2>1
<1> HIDE DEF e, n
<1>4. e.compLength \in Nat /\ e.length \in Nat /\ d \in Seq(Unit) /\ u \in Seq(Unit)
  BY <1>2 DEF Entry
<1>5. a \in Seq(Unit) /\ b \in Seq(Unit)
  BY <1>4, CIntFacts
<1>6. r \in Seq(Unit) /\ Len(r) >= Len(s)
  <2> DEFINE m == n + 1
  <2> HIDE DEF m
  <2>1. m \in Nat /\ m <= Len(x.chunks)
    BY <1>1 DEF m
  <2>2. EntriesRest(x, m) \in Seq(Unit) /\ Len(EntriesRest(x, m)) >= Len(SignatureBytes)
    BY <2>1, EntriesRestFacts
  <2> QED BY <2>2 DEF m
<1>7. LengthRest(x, g) = b \o r /\ CompLengthRest(x, g) = a \o LengthRest(x, g)
      /\ UDigestRest(x, g) = u \o CompLengthRest(x, g) /\ DigestRest(x, g) = d \o UDigestRest(x, g)
  BY DEF LengthRest, CompLengthRest, UDigestRest, DigestRest, e, n
<1>8. r = q \o s
  BY DEF EntriesRest
<1>9. EntriesRest(x, n) = ((((d \o u) \o a) \o b) \o q) \o s
  <2>1. n \in Nat /\ n < Len(x.chunks)
    BY DEF n
  <2>2. ChunkBytes(SubSeq(x.chunks, n + 1, Len(x.chunks))) = EntryBytes(e) \o q
    BY <1>1, <1>2, <2>1, ChunksFront
  <2>3. EntryBytes(e) = ((d \o u) \o a) \o b
    BY DEF EntryBytes
  <2> QED BY <2>2, <2>3 DEF EntriesRest
<1>10. q \in Seq(Unit) /\ s \in Seq(Unit)
  <2> DEFINE m == n + 1
  <2> HIDE DEF m
  <2>1. m \in Nat /\ m <= Len(x.chunks)
    BY <1>1 DEF m
  <2>2. SubSeq(x.chunks, m + 1, Len(x.chunks)) \in Seq(Entry)
    BY <1>1, <2>1, RestOfSeq
  <2>3. ChunkBytes(SubSeq(x.chunks, m + 1, Len(x.chunks))) \in Seq(Unit)
    BY <2>2, ChunksAppended
  <2>4. s \in Seq(Unit)
    BY SignatureFacts
  <2> QED BY <2>3, <2>4 DEF m
<1> HIDE DEF d, u, a, b, r, q, s
<1> DEFINE l == b \o r
<1>11. l \in Seq(Unit)
  BY <1>5, <1>6, OctetsConcat
<1>12. (q \in Seq(Unit) /\ s \in Seq(Unit)) /\ (((((d \o u) \o a) \o b) \o q) \o s) = ((d \o u) \o a) \o l
  <2> DEFINE dua == (d \o u) \o a
             x4 == dua \o b
  <2>1. dua \in Seq(Unit)
    <3>1. d \o u \in Seq(Unit)
      BY <1>4, OctetsConcat
    <3> QED BY <1>5, <3>1, OctetsConcat
  <2> HIDE DEF dua
  <2>2. x4 \in Seq(Unit)
    BY <1>5, <2>1, OctetsConcat
  <2> HIDE DEF x4
  <2>3. (x4 \o q) \o s = x4 \o r
    BY <1>8, <1>10, <2>2, Assoc
  <2>4. x4 \o r = dua \o l
    BY <1>5, <1>6, <2>1, Assoc DEF x4
  <2> QED BY <1>10, <2>3, <2>4 DEF dua, x4
<1> HIDE DEF l
<1> DEFINE c == a \o l
<1>13. c \in Seq(Unit)
  BY <1>5, <1>11, OctetsConcat
<1>14. ((d \o u) \o a) \o l = (d \o u) \o c
  <2> DEFINE du == d \o u
  <2>1. du \in Seq(Unit)
    BY <1>4, OctetsConcat
  <2> HIDE DEF du
  <2>2. (du \o a) \o l = du \o c
    BY <1>5, <1>11, <2>1, Assoc
  <2> QED BY <2>2 DEF du
<1> HIDE DEF c
<1>15. (d \o u) \o c = d \o (u \o c) /\ u \o c \in Seq(Unit)
  BY <1>4, <1>13, Assoc
<1>16. d \o (u \o c) \in Seq(Unit)
  BY <1>4, <1>15, OctetsConcat
<1>17. /\ LengthRest(x, g) = l /\ CompLengthRest(x, g) = c /\ UDigestRest(x, g) = u \o c
       /\ DigestRest(x, g) = d \o (u \o c)
  BY <1>7 DEF l, c
<1>18. EntriesRest(x, n) = DigestRest(x, g)
  BY <1>9, <1>12, <1>14, <1>15, <1>17
<1>19. /\ DigestRest(x, g) \in Seq(Unit) /\ UDigestRest(x, g) \in Seq(Unit)
       /\ CompLengthRest(x, g) \in Seq(Unit) /\ LengthRest(x, g) \in Seq(Unit)
  BY <1>11, <1>13, <1>15, <1>16, <1>17
<1>20. r \in Seq(Unit) /\ Len(r) >= Len(s) /\ EntriesRest(x, n) = DigestRest(x, g)
  BY <1>6, <1>18
<1> QED BY <1>2, <1>3, <1>4, <1>19, <1>20 DEF e, n, r, s, d, u

(* The header: what is written of its fields, one after the other.          *)
LEMMA HeaderRestFacts ==
  ASSUME NEW x \in Structure, DigestsFlagged(x),
         Has(x.flags, OptionalElements) <=> x.optional # <<>>
  PROVE  /\ x.dataChecksum \in Seq(Unit) /\ FlagsRest(x) \in Seq(Unit)
         /\ CompressionRest(x) \in Seq(Unit) /\ OptionalRest(x) \in Seq(Unit)
         /\ OptCountRest(x) \in Seq(Unit) /\ ElementsRest(x, 0) \in Seq(Unit)
         /\ Has(x.flags, OptionalElements) => OptionalRest(x) = OptCountRest(x)
         /\ ~Has(x.flags, OptionalElements) => OptionalRest(x) = IndexRest(x)
         /\ HeaderBody(x) = x.dataChecksum \o FlagsRest(x)
         /\ HeaderBody(x) \in Seq(Unit)
         /\ Len(IndexBody(x)) <= Len(HeaderBody(x))
<1> DEFINE d == x.dataChecksum
           f == CInt(x.flags)
           c == CInt(x.compression)
           n == CInt(Len(x.optional))
           o == OptionalBytes(x.optional)
           p == IF x.optional = <<>> THEN <<>> ELSE n \o o
           i == IndexBytes(x)
           s == SignatureBytes
           is == IndexRest(x)
<1>1. d \in Seq(Unit) /\ x.flags \in Nat /\ x.compression \in Nat /\ x.optional \in Seq(Element)
      /\ Len(x.optional) \in Nat
  BY LenProperties DEF Structure
<1>2. f \in Seq(Unit) /\ c \in Seq(Unit) /\ n \in Seq(Unit)
  BY <1>1, CIntFacts
<1>3. o \in Seq(Unit)
  BY <1>1, OptionalAppended
<1>4. i \in Seq(Unit) /\ is \in Seq(Unit) /\ Len(is) >= Len(IndexBody(x)) /\ Len(IndexBody(x)) \in Nat
  <2>1. i \in Seq(Unit) /\ is \in Seq(Unit) /\ Len(IndexBody(x)) \in Nat
    BY IndexRestFacts
  <2>2. Len(ChunkTypeRest(x)) = Len(IndexBody(x)) + Len(SignatureBytes)
        /\ Len(is) = Len(CInt(Len(IndexBody(x)))) + Len(ChunkTypeRest(x))
    BY IndexRestFacts
  <2>3. Len(SignatureBytes) \in Nat /\ Len(CInt(Len(IndexBody(x)))) \in Nat
    BY <2>1, SignatureFacts, CIntFacts
  <2> QED BY <2>1, <2>2, <2>3
<1>5. s \in Seq(Unit) /\ is = i \o s
  BY SignatureFacts DEF IndexRest
<1>6. ElementsRest(x, 0) = o \o is
  <2>1. SubSeq(x.optional, 0 + 1, Len(x.optional)) = x.optional
    BY <1>1, RestOfSeq
  <2> QED BY <2>1 DEF ElementsRest
<1>7. PrefaceBytes(x) = ((d \o f) \o c) \o p
  <2> DEFINE z == FlattenSeq([k \in DOMAIN x.optional |->
                    CInt(x.optional[k].id) \o CInt(Len(x.optional[k].data))
                      \o x.optional[k].data])
  <2>1. z = o
    BY DEF OptionalBytes, ElementBytes
  <2>2. PrefaceBytes(x) = ((d \o f) \o c) \o IF x.optional = <<>> THEN <<>> ELSE n \o z
    BY DEF PrefaceBytes
  <2> HIDE DEF z
  <2> QED BY <2>1, <2>2
<1>8. HeaderBody(x) = (PrefaceBytes(x) \o i) \o s
  BY DEF HeaderBody
<1>9. /\ OptCountRest(x) = n \o (o \o is) /\ CompressionRest(x) = c \o OptionalRest(x)
      /\ FlagsRest(x) = f \o CompressionRest(x)
      /\ OptionalRest(x) = IF Has(x.flags, OptionalElements) THEN OptCountRest(x) ELSE is
  BY <1>6 DEF OptCountRest, CompressionRest, FlagsRest, OptionalRest
<1> HIDE DEF d, f, c, n, o, i, s, is
<1>10. o \o is \in Seq(Unit) /\ n \o o \in Seq(Unit) /\ (n \o o) \o is = n \o (o \o is)
  <2>1. n \in Seq(Unit) /\ o \in Seq(Unit) /\ is \in Seq(Unit)
    BY <1>2, <1>3, <1>4
  <2> QED BY <2>1, Assoc
<1>11. n \o (o \o is) \in Seq(Unit)
  BY <1>2, <1>10, OctetsConcat
<1>12. p \in Seq(Unit)
  BY <1>10, EmptySeq
<1>13. p \o is = OptionalRest(x) /\ OptionalRest(x) \in Seq(Unit)
  <2>1. CASE x.optional = <<>>
    <3>1. p = <<>> /\ OptionalRest(x) = is
      BY <1>9, <2>1
    <3> QED BY <1>4, <3>1, ConcatEmptySeq
  <2>2. CASE x.optional # <<>>
    <3>1. p = n \o o /\ OptionalRest(x) = n \o (o \o is)
      BY <1>9, <2>2
    <3> QED BY <1>10, <1>11, <3>1
  <2> QED BY <2>1, <2>2
<1> HIDE DEF p
<1> DEFINE y == OptionalRest(x)
<1> HIDE DEF y
<1>14. y \in Seq(Unit) /\ y = p \o is /\ CompressionRest(x) = c \o y
  BY <1>9, <1>13 DEF y
<1>15. c \o y \in Seq(Unit)
  BY <1>2, <1>14, OctetsConcat
<1>16. f \o (c \o y) \in Seq(Unit) /\ FlagsRest(x) = f \o (c \o y)
  BY <1>2, <1>9, <1>14, <1>15, OctetsConcat
<1>17. d \o (f \o (c \o y)) \in Seq(Unit)
  BY <1>1, <1>16, OctetsConcat
<1> DEFINE df == d \o f
           dfc == df \o c
           pr == dfc \o p
<1>18. df \in Seq(Unit)
  BY <1>1, <1>2, OctetsConcat
<1>19. df \o (c \o y) = d \o (f \o (c \o y))
  BY <1>1, <1>2, <1>15, Assoc
<1> HIDE DEF df
<1>20. dfc \in Seq(Unit) /\ dfc \o y = df \o (c \o y)
  BY <1>2, <1>14, <1>18, Assoc
<1> HIDE DEF dfc
<1>21. pr \in Seq(Unit) /\ pr \o is = dfc \o y
  BY <1>4, <1>12, <1>14, <1>20, Assoc
<1> HIDE DEF pr
<1>22. (pr \o i) \o s = pr \o is
  BY <1>4, <1>5, <1>21, Assoc
<1>23. HeaderBody(x) = d \o FlagsRest(x)
  BY <1>7, <1>8, <1>16, <1>19, <1>20, <1>21, <1>22 DEF df, dfc, pr
<1>24. Len(IndexBody(x)) <= Len(HeaderBody(x))
  <2>1. Len(pr \o is) = Len(pr) + Len(is) /\ Len(pr) \in Nat /\ Len(is) \in Nat
    BY <1>4, <1>21, OctetsConcat, LenProperties
  <2>2. HeaderBody(x) = pr \o is
    BY <1>7, <1>8, <1>22 DEF df, dfc, pr
  <2> QED BY <1>4, <2>1, <2>2
<1>25. HeaderBody(x) \in Seq(Unit) /\ FlagsRest(x) \in Seq(Unit) /\ CompressionRest(x) \in Seq(Unit)
  BY <1>14, <1>15, <1>16, <1>17, <1>23
<1>26. OptCountRest(x) \in Seq(Unit) /\ ElementsRest(x, 0) \in Seq(Unit)
  BY <1>6, <1>9, <1>10, <1>11
<1> QED BY <1>1, <1>9, <1>13, <1>23, <1>24, <1>25, <1>26 DEF d, is

(* What is written from each field on.                                      *)
LEMMA RestFacts ==
  ASSUME NEW x, NEW g
  PROVE  /\ Rest(x, "dataChecksum", g) = x.dataChecksum \o FlagsRest(x)
         /\ Rest(x, "flags", g) = CInt(x.flags) \o CompressionRest(x)
         /\ Rest(x, "compression", g) = CInt(x.compression) \o OptionalRest(x)
         /\ Rest(x, "optCount", g) = CInt(Len(x.optional)) \o ElementsRest(x, 0)
         /\ Rest(x, "optId", g) = CInt(NextElement(x, g).id) \o OptSizeRest(x, g)
         /\ Rest(x, "optSize", g) = CInt(Len(NextElement(x, g).data)) \o OptDataRest(x, g)
         /\ Rest(x, "optData", g) =
              NextElement(x, g).data \o ElementsRest(x, Len(g.optional) + 1)
         /\ Rest(x, "indexSize", g) = IndexRest(x)
         /\ Rest(x, "chunkType", g) = CInt(x.chunkType) \o CountRest(x)
         /\ Rest(x, "count", g) = CInt(Len(x.chunks)) \o EntriesRest(x, 0)
         /\ Rest(x, "digest", g) = NextEntry(x, g).digest \o UDigestRest(x, g)
         /\ Rest(x, "uDigest", g) = NextEntry(x, g).uDigest \o CompLengthRest(x, g)
         /\ Rest(x, "compLength", g) = CInt(NextEntry(x, g).compLength) \o LengthRest(x, g)
         /\ Rest(x, "length", g) =
              CInt(NextEntry(x, g).length) \o EntriesRest(x, Len(g.chunks) + 1)
         /\ Rest(x, "entries", g) = SignatureBytes
         /\ Rest(x, "sigCount", g) = SignatureBytes
<1>1. /\ Rest(x, "dataChecksum", g) = x.dataChecksum \o FlagsRest(x)
      /\ Rest(x, "flags", g) = FlagsRest(x) /\ Rest(x, "compression", g) = CompressionRest(x)
      /\ Rest(x, "optCount", g) = OptCountRest(x) /\ Rest(x, "optId", g) = OptIdRest(x, g)
      /\ Rest(x, "optSize", g) = OptSizeRest(x, g) /\ Rest(x, "optData", g) = OptDataRest(x, g)
      /\ Rest(x, "indexSize", g) = IndexRest(x) /\ Rest(x, "chunkType", g) = ChunkTypeRest(x)
      /\ Rest(x, "count", g) = CountRest(x) /\ Rest(x, "digest", g) = DigestRest(x, g)
      /\ Rest(x, "uDigest", g) = UDigestRest(x, g)
      /\ Rest(x, "compLength", g) = CompLengthRest(x, g)
      /\ Rest(x, "length", g) = LengthRest(x, g) /\ Rest(x, "entries", g) = SignatureBytes
      /\ Rest(x, "sigCount", g) = SignatureBytes
  BY DEF Rest
<1> QED BY <1>1 DEF FlagsRest, CompressionRest, OptCountRest, OptIdRest, OptSizeRest, OptDataRest,
      ChunkTypeRest, CountRest, DigestRest, UDigestRest, CompLengthRest, LengthRest

(* The file does not change, nor what it was written for.                   *)
LEMMA WrittenSame ==
  ASSUME file' = file
  PROVE  /\ Written' = Written /\ theType' = theType /\ theFields' = theFields
         /\ theHeader' = theHeader /\ theSum' = theSum /\ theLead' = theLead
<1>1. Written' = Written /\ theType' = theType /\ theFields' = theFields
  BY DEF Written, theType, theFields
<1>2. theHeader' = theHeader
  BY <1>1 DEF theHeader
<1>3. theSum' = theSum /\ theLead' = theLead
  BY <1>1, <1>2 DEF theSum, theLead
<1> QED BY <1>1, <1>2, <1>3

(* An integer that was written is the next one.                             *)
LEMMA NextIsWritten ==
  ASSUME HeaderTypeOK, NEW v \in Word, NEW w \in Seq(Unit), At(src, pos, CInt(v) \o w),
         pos + Len(CInt(v)) <= end
  PROVE  NextInt = [err |-> "nil", value |-> v, length |-> Len(CInt(v))]
<1>1. src \in Seq(Unit) /\ pos \in Nat /\ end \in Nat /\ end <= Len(src)
  BY DEF HeaderTypeOK
<1>2. ReadCompressedInt(Octets(SubSeq(src, pos + 1, end))) =
        [err |-> "nil", value |-> v, length |-> Len(CInt(v))]
  BY <1>1, WrittenIntIsRead
<1> QED BY <1>2 DEF NextInt

(* It is taken.                                                             *)
LEMMA IntIsTaken ==
  ASSUME HeaderTypeOK, NEW v \in Word, NEW w \in Seq(Unit), At(src, pos, CInt(v) \o w),
         pos + Len(CInt(v)) <= end, NEW f \in IntFields, ReadInt(f), Valid(f, v)
  PROVE  Take(Len(CInt(v)), [h EXCEPT ![f] = v])
<1>1. NextInt = [err |-> "nil", value |-> v, length |-> Len(CInt(v))]
  BY NextIsWritten
<1> DEFINE r == NextInt
<1>2. r.err = "nil" /\ r.value = v /\ r.length = Len(CInt(v))
  BY <1>1
<1>3. \/ r.err = "nil" /\ Valid(f, r.value) /\ Take(r.length, [h EXCEPT ![f] = r.value])
      \/ ~(r.err = "nil" /\ Valid(f, r.value)) /\ Reject
  BY Zenon DEF ReadInt
<1> HIDE DEF r
<1> QED BY <1>2, <1>3, Zenon

(* A digest that was written is taken.                                      *)
LEMMA DigestIsTaken ==
  ASSUME HeaderTypeOK, NEW a \in Seq(Unit), NEW w \in Seq(Unit), At(src, pos, a \o w),
         pos + Len(a) <= end, NEW f \in DigestFields, ReadDigest(f),
         Len(a) = DigestSize[IF f \in {"digest", "uDigest"} THEN h.chunkType ELSE h.ckType]
  PROVE  Take(Len(a), [h EXCEPT ![f] = a])
<1>1. Here(Len(a)) = a
  <2>1. src \in Seq(Unit) /\ pos \in Nat
    BY DEF HeaderTypeOK
  <2>2. SubSeq(src, pos + 1, pos + Len(a)) = a
    BY <2>1, AtFacts
  <2> QED BY <2>2 DEF Here
<1> DEFINE n == DigestSize[IF f \in {"digest", "uDigest"} THEN h.chunkType ELSE h.ckType]
<1>2. \/ Fits(n) /\ Take(n, [h EXCEPT ![f] = Here(n)])
      \/ ~Fits(n) /\ Reject
  BY Zenon DEF ReadDigest
<1>3. n = Len(a)
  OBVIOUS
<1> HIDE DEF n
<1>4. Fits(n)
  BY <1>3 DEF Fits
<1>5. Take(n, [h EXCEPT ![f] = Here(n)])
  BY <1>2, <1>4
<1> QED BY <1>1, <1>3, <1>5

(* The part a of the header is next, and w follows.                         *)
LEMMA PartIsNext ==
  ASSUME ReadInv, WrittenInv, Written, pc \in HeaderPcs,
         NEW a \in Seq(Unit), NEW w \in Seq(Unit), Rest(theFields, pc, h) = a \o w,
         pc \in IndexPcs => Len(w) >= Len(SignatureBytes)
  PROVE  /\ HeaderTypeOK /\ Len(a) \in Nat /\ Len(w) \in Nat /\ Len(theHeader) \in Nat
         /\ At(src, pos, a \o w) /\ pos + Len(a) <= end
         /\ At(src, pos + Len(a), w)
         /\ pos + Len(a) + Len(w) = base + Len(theHeader)
         /\ pc \in IndexPcs => end + Len(SignatureBytes) = base + Len(theHeader)
         /\ leadLen = theLead
<1>1. HeaderTypeOK /\ HeaderIsAhead /\ pc # "done" /\ pc \notin LeadPcs
  BY PcSets DEF ReadInv, WrittenInv, HeaderPcs
<1>2. src \in Seq(Unit) /\ pos \in Nat /\ end \in Nat /\ base \in Nat /\ Len(src) \in Nat
  BY <1>1, BaseIsNat, LenProperties DEF HeaderTypeOK
<1> DEFINE b == a \o w
<1>3. At(src, pos, b) /\ pos + Len(b) = base + Len(theHeader) /\ leadLen = theLead
      /\ (pc \in IndexPcs => end + Len(SignatureBytes) = base + Len(theHeader))
  <2> DEFINE z == Rest(theFields, pc, h)
  <2>1. At(src, pos, z) /\ pos + Len(z) = base + Len(theHeader) /\ leadLen = theLead
        /\ (pc \in IndexPcs => end + Len(SignatureBytes) = base + Len(theHeader))
    BY <1>1, Zenon DEF HeaderIsAhead
  <2>2. z = b
    OBVIOUS
  <2> HIDE DEF z, b
  <2> QED BY <2>1, <2>2
<1>4. Len(a) \in Nat /\ Len(w) \in Nat /\ Len(b) = Len(a) + Len(w)
      /\ pos + Len(a) + Len(w) <= Len(src) /\ At(src, pos + Len(a), w)
  BY <1>2, <1>3, AtFacts
<1> HIDE DEF b
<1>5. Len(theHeader) \in Nat
  BY WrittenFacts DEF WrittenInv, Word
<1>6. pos + Len(a) + Len(w) = base + Len(theHeader)
  BY <1>2, <1>3, <1>4
<1>7. pos + Len(a) <= end
  <2>1. CASE pc \in IndexPcs
    <3>1. Len(SignatureBytes) \in Nat
      BY SignatureFacts
    <3>2. end + Len(SignatureBytes) = base + Len(theHeader) /\ Len(w) >= Len(SignatureBytes)
      BY <1>3, <2>1
    <3> QED BY <1>2, <1>4, <1>5, <1>6, <3>1, <3>2
  <2>2. CASE pc \notin IndexPcs
    <3>1. end = Len(src)
      BY <1>1, <2>2, WholeSource
    <3> QED BY <1>2, <1>4, <3>1
  <2> QED BY <2>1, <2>2
<1> QED BY <1>1, <1>3, <1>4, <1>5, <1>6, <1>7 DEF b

(* A part that was written has been taken: what is left to show.            *)
LEMMA PartIsTaken ==
  ASSUME ReadInv, WrittenInv, Written, pc \in HeaderPcs,
         NEW a \in Seq(Unit), NEW w \in Seq(Unit), Rest(theFields, pc, h) = a \o w,
         pc \in IndexPcs => Len(w) >= Len(SignatureBytes),
         NEW g, Take(Len(a), g), Rest(theFields, pc', g) = w,
         pc' \in HeaderPcs, pc' \in IndexPcs <=> pc \in IndexPcs,
         g.ckType = h.ckType, g.headerSize = h.headerSize,
         PrefaceAsWritten', IndexAsWritten'
  PROVE  WrittenInv'
<1>1. /\ pos' = pos + Len(a) /\ h' = g
      /\ UNCHANGED <<file, turn, src, end, leadLen, results>>
  BY DEF Take
<1>2. /\ Written' = Written /\ theType' = theType /\ theFields' = theFields
      /\ theHeader' = theHeader /\ theSum' = theSum /\ theLead' = theLead
  BY <1>1, WrittenSame
<1>3. /\ At(src, pos + Len(a), w) /\ pos + Len(a) + Len(w) = base + Len(theHeader)
      /\ (pc \in IndexPcs => end + Len(SignatureBytes) = base + Len(theHeader))
      /\ leadLen = theLead
  BY PartIsNext
<1>4. base' = base
  BY <1>1 DEF base, reader
<1>5. HeaderIsAhead'
  <2>1. Rest(theFields, pc, h)' = w
    BY <1>1, <1>2
  <2>2. At(src', pos', w)
    BY <1>1, <1>3
  <2>3. pos' + Len(w) = base' + Len(theHeader')
    BY <1>1, <1>2, <1>3, <1>4
  <2>4. At(src, pos, Rest(theFields, pc, h))'
    BY <2>1, <2>2
  <2>5. (pos + Len(Rest(theFields, pc, h)) = base + Len(theHeader))'
    BY <2>1, <2>3
  <2>6. (pc \in IndexPcs => end + Len(SignatureBytes) = base + Len(theHeader))'
    BY <1>1, <1>2, <1>3, <1>4
  <2>7. (leadLen = theLead)'
    BY <1>1, <1>2, <1>3
  <2> QED BY <2>4, <2>5, <2>6, <2>7 DEF HeaderIsAhead
<1>6. pc \notin LeadPcs /\ pc' \notin LeadPcs /\ pc # "done" /\ pc' # "done"
  BY PcSets DEF HeaderPcs
<1>7. LeadAsWritten'
  <2>1. LeadAsWritten
    BY <1>6 DEF WrittenInv
  <2>2. /\ h.ckType = theType /\ h.headerSize = Len(theHeader)
        /\ pc' # "header"
    BY <1>6, <2>1 DEF LeadAsWritten, LeadPcs
  <2> QED BY <1>1, <1>2, <2>2 DEF LeadAsWritten
<1>8. (\A k \in DOMAIN results : ReadAsWritten(results[k]))'
  BY <1>1 DEF WrittenInv, ReadAsWritten
<1>9. (file \in Files)'
  BY <1>1 DEF WrittenInv
<1>10. ASSUME pc' \in LeadPcs PROVE LeadIsAhead'
  BY <1>6, <1>10
<1> QED BY <1>5, <1>7, <1>8, <1>9, <1>10 DEF WrittenInv

(* Nothing of the index has been read.                                      *)
LEMMA IndexNotYet ==
  ASSUME IndexAsWritten, file' = file, pc' \in PrefacePcs, h'.chunks = h.chunks
  PROVE  IndexAsWritten'
<1>1. theFields' = theFields
  BY WrittenSame
<1>2. pc' \notin {"count", "entries", "sigCount"} \cup EntryPcs
  BY DEF PrefacePcs, PlainPcs, ElementPcs, EntryPcs
<1>3. pc' \notin {"entries", "sigCount"} /\ pc' \notin EntryPcs
      /\ pc' \notin {"uDigest", "compLength", "length"}
  BY <1>2 DEF EntryPcs
<1> QED BY <1>1, <1>2, <1>3 DEF IndexAsWritten

(* One lemma per field.  The flags.                                         *)
LEMMA FlagsAsWritten ==
  ASSUME ReadInv, WrittenInv, Written, pc = "flags", ReadInt("flags")
  PROVE  WrittenInv'
<1> DEFINE x == theFields
           v == x.flags
           w == CompressionRest(x)
           n == Len(CInt(v))
           g == [h EXCEPT !["flags"] = v]
<1>1. pc \in HeaderPcs /\ pc \notin IndexPcs /\ "flags" \in IntFields /\ PrefaceAsWritten
      /\ IndexAsWritten
  BY PcSets DEF HeaderPcs, PrefacePcs, PlainPcs, ElementPcs, IntFields, WrittenInv
<1>2. /\ v \in Word /\ Valid("flags", v) /\ w \in Seq(Unit)
      /\ pc \in IndexPcs => Len(w) >= Len(SignatureBytes)
  <2>1. theFields.flags \in Word /\ theFields.flags \in knownFlags
    BY WrittenFacts DEF WrittenInv, InWords
  <2>2. CompressionRest(theFields) \in Seq(Unit)
    BY WrittenFacts, HeaderRestFacts DEF WrittenInv
  <2> QED BY <1>1, <2>1, <2>2 DEF Valid
<1>3. CInt(v) \in Seq(Unit)
  BY <1>2, WordsFit, CIntFacts
<1>4. Rest(theFields, pc, h) = CInt(v) \o w
  BY RestFacts
<1> HIDE DEF v, w
<1>5. Take(n, g)
  <2>1. HeaderTypeOK /\ At(src, pos, CInt(v) \o w) /\ pos + Len(CInt(v)) <= end
    BY <1>1, <1>2, <1>3, <1>4, PartIsNext
  <2> QED BY <1>1, <1>2, <2>1, IntIsTaken
<1>6. /\ h \in Fields /\ g.flags = v /\ g.ckType = h.ckType /\ g.headerSize = h.headerSize
      /\ g.optional = h.optional /\ g.chunks = h.chunks
  BY DEF ReadInv, HeaderTypeOK, Fields
<1>7. /\ h' = g /\ file' = file
      /\ pc' = "compression"
  <2>1. pc' = After("flags", g, pos + n) /\ h' = g /\ file' = file
    BY <1>5 DEF Take
  <2>2. \A k, q : After("flags", k, q) =
                    "compression"
    BY AfterFacts
  <2> QED BY <1>6, <2>1, <2>2
<1>8. theFields' = theFields
  BY <1>7, WrittenSame
<1>9. pc' \in PrefacePcs
  BY <1>7 DEF PrefacePcs, PlainPcs, ElementPcs
<1>10. Rest(theFields, pc', g) = w
  BY <1>7, RestFacts DEF CompressionRest, w
<1>11. PrefaceAsWritten'
  BY <1>1, <1>6, <1>7, <1>8 DEF v, PrefaceAsWritten, PlainPcs,
    ElementPcs, IndexPcs, CountPcs, EntryPcs
<1>12. IndexAsWritten'
  BY <1>1, <1>6, <1>7, <1>9, IndexNotYet
<1> QED BY <1>1, <1>2, <1>3, <1>4, <1>5, <1>6, <1>7, <1>9, <1>10, <1>11, <1>12, PcSets,
      PartIsTaken DEF HeaderPcs, n

(* The compression type.                                                    *)
LEMMA CompressionAsWritten ==
  ASSUME ReadInv, WrittenInv, Written, pc = "compression", ReadInt("compression")
  PROVE  WrittenInv'
<1> DEFINE x == theFields
           v == x.compression
           w == OptionalRest(x)
           n == Len(CInt(v))
           g == [h EXCEPT !["compression"] = v]
<1>1. pc \in HeaderPcs /\ pc \notin IndexPcs /\ "compression" \in IntFields /\ PrefaceAsWritten
      /\ IndexAsWritten
  BY PcSets DEF HeaderPcs, PrefacePcs, PlainPcs, ElementPcs, IntFields, WrittenInv
<1>2. /\ v \in Word /\ Valid("compression", v) /\ w \in Seq(Unit)
      /\ pc \in IndexPcs => Len(w) >= Len(SignatureBytes)
  <2>1. theFields.compression \in Word /\ theFields.compression \in CompressionTypes
    BY WrittenFacts DEF WrittenInv, InWords
  <2>2. OptionalRest(theFields) \in Seq(Unit)
    BY WrittenFacts, HeaderRestFacts DEF WrittenInv
  <2> QED BY <1>1, <2>1, <2>2 DEF Valid
<1>3. CInt(v) \in Seq(Unit)
  BY <1>2, WordsFit, CIntFacts
<1>4. Rest(theFields, pc, h) = CInt(v) \o w
  BY RestFacts
<1> HIDE DEF v, w
<1>5. Take(n, g)
  <2>1. HeaderTypeOK /\ At(src, pos, CInt(v) \o w) /\ pos + Len(CInt(v)) <= end
    BY <1>1, <1>2, <1>3, <1>4, PartIsNext
  <2> QED BY <1>1, <1>2, <2>1, IntIsTaken
<1>6. /\ h \in Fields /\ g.compression = v /\ g.ckType = h.ckType /\ g.headerSize = h.headerSize
      /\ g.optional = h.optional /\ g.chunks = h.chunks /\ g.flags = h.flags
  BY DEF ReadInv, HeaderTypeOK, Fields
<1>7. /\ h' = g /\ file' = file
      /\ pc' = IF Has(h.flags, OptionalElements) THEN "optCount" ELSE "indexSize"
  <2>1. pc' = After("compression", g, pos + n) /\ h' = g /\ file' = file
    BY <1>5 DEF Take
  <2>2. \A k, q : After("compression", k, q) =
                    IF Has(k.flags, OptionalElements) THEN "optCount" ELSE "indexSize"
    BY AfterFacts
  <2> QED BY <1>6, <2>1, <2>2
<1>8. theFields' = theFields
  BY <1>7, WrittenSame
<1>9. pc' \in PrefacePcs
  BY <1>7 DEF PrefacePcs, PlainPcs, ElementPcs
<1>10. Rest(theFields, pc', g) = w
  <2>1. h.flags = theFields.flags
    BY <1>1 DEF PrefaceAsWritten
  <2>2. w = IF Has(theFields.flags, OptionalElements) THEN OptCountRest(theFields)
            ELSE IndexRest(theFields)
    BY DEF w, OptionalRest, OptCountRest
  <2> QED BY <1>7, <2>1, <2>2, RestFacts DEF OptCountRest
<1>11. PrefaceAsWritten'
  <2>1. h.flags = theFields.flags
    BY <1>1 DEF PrefaceAsWritten
  <2>2. h.optional = <<>>
    BY DEF ReadInv, Elements, PlainPcs
  <2>3. pc' = "indexSize" => theFields.optional = <<>>
    BY <1>7, <2>1, WrittenFacts DEF WrittenInv
  <2> QED BY <1>1, <1>6, <1>7, <1>8, <2>1, <2>2, <2>3 DEF v, PrefaceAsWritten, PlainPcs,
        ElementPcs, IndexPcs, CountPcs, EntryPcs
<1>12. IndexAsWritten'
  BY <1>1, <1>6, <1>7, <1>9, IndexNotYet
<1> QED BY <1>1, <1>2, <1>3, <1>4, <1>5, <1>6, <1>7, <1>9, <1>10, <1>11, <1>12, PcSets,
      PartIsTaken DEF HeaderPcs, n

(* While elements are read there is one left.                               *)
LEMMA NextIsThere ==
  ASSUME ReadInv, PrefaceAsWritten, pc \in ElementPcs
  PROVE  Len(h.optional) < Len(theFields.optional) /\ Len(h.optional) \in Nat
<1>1. Len(h.optional) < h.optCount /\ h.optional \in Seq(Element)
  BY DEF ReadInv, Elements, HeaderTypeOK, Fields
<1>2. h.optCount = Len(theFields.optional)
  BY DEF PrefaceAsWritten
<1> QED BY <1>1, <1>2, LenProperties

(* The number of the optional elements.                                     *)
LEMMA OptCountAsWritten ==
  ASSUME ReadInv, WrittenInv, Written, pc = "optCount", ReadInt("optCount")
  PROVE  WrittenInv'
<1> DEFINE x == theFields
           v == Len(x.optional)
           w == ElementsRest(x, 0)
           n == Len(CInt(v))
           g == [h EXCEPT !["optCount"] = v]
<1>1. pc \in HeaderPcs /\ pc \notin IndexPcs /\ "optCount" \in IntFields /\ PrefaceAsWritten
      /\ IndexAsWritten
  BY PcSets DEF HeaderPcs, PrefacePcs, PlainPcs, ElementPcs, IntFields, WrittenInv
<1>2. /\ v \in Word /\ Valid("optCount", v) /\ w \in Seq(Unit)
      /\ pc \in IndexPcs => Len(w) >= Len(SignatureBytes)
  <2>1. Len(theFields.optional) \in Word
    BY WrittenFacts DEF WrittenInv, InWords
  <2>2. ElementsRest(theFields, 0) \in Seq(Unit)
    BY WrittenFacts, HeaderRestFacts DEF WrittenInv
  <2> QED BY <1>1, <2>1, <2>2 DEF Valid
<1>3. CInt(v) \in Seq(Unit)
  BY <1>2, WordsFit, CIntFacts
<1>4. Rest(theFields, pc, h) = CInt(v) \o w
  BY RestFacts
<1> HIDE DEF v, w
<1>5. Take(n, g)
  <2>1. HeaderTypeOK /\ At(src, pos, CInt(v) \o w) /\ pos + Len(CInt(v)) <= end
    BY <1>1, <1>2, <1>3, <1>4, PartIsNext
  <2> QED BY <1>1, <1>2, <2>1, IntIsTaken
<1>6. /\ h \in Fields /\ g.optCount = v /\ g.ckType = h.ckType /\ g.headerSize = h.headerSize
      /\ g.optional = h.optional /\ g.chunks = h.chunks /\ g.flags = h.flags
      /\ g.compression = h.compression /\ h.optional = <<>> /\ Len(h.optional) = 0
  BY DEF ReadInv, HeaderTypeOK, Fields, Elements, PlainPcs
<1>7. /\ h' = g /\ file' = file
      /\ pc' = IF 0 < v THEN "optId" ELSE "indexSize"
  <2>1. pc' = After("optCount", g, pos + n) /\ h' = g /\ file' = file
    BY <1>5 DEF Take
  <2>2. \A k, q : After("optCount", k, q) =
                    IF Len(k.optional) < k.optCount THEN "optId" ELSE "indexSize"
    BY AfterFacts
  <2> QED BY <1>6, <2>1, <2>2
<1>8. theFields' = theFields
  BY <1>7, WrittenSame
<1>9. pc' \in PrefacePcs
  BY <1>7 DEF PrefacePcs, PlainPcs, ElementPcs
<1>10. Rest(theFields, pc', g) = w
  <2>1. theFields \in Structure /\ DigestsFlagged(theFields) /\ theFields.optional \in Seq(Element)
    BY WrittenFacts DEF WrittenInv, Structure
  <2>2. v \in Nat /\ v = Len(theFields.optional)
    BY <1>2, WordsFit DEF v
  <2>3. CASE 0 < v
    <3>1. Len(g.optional) \in Nat /\ Len(g.optional) < Len(theFields.optional)
          /\ Len(g.optional) = 0
      BY <1>6, <2>2, <2>3
    <3>2. ElementsRest(theFields, Len(g.optional)) = OptIdRest(theFields, g)
      BY <2>1, <3>1, NextElementFacts, WrittenFacts DEF WrittenInv
    <3>3. Rest(theFields, "optId", g) = OptIdRest(theFields, g)
      BY RestFacts DEF OptIdRest
    <3> QED BY <1>7, <2>3, <3>1, <3>2, <3>3 DEF w
  <2>4. CASE ~(0 < v)
    <3>1. Len(theFields.optional) = 0
      BY <2>2, <2>4
    <3>2. ElementsRest(theFields, 0) = IndexRest(theFields)
      BY <2>1, <3>1, ElementsRestFacts
    <3> QED BY <1>7, <2>4, <3>2, RestFacts DEF w
  <2> QED BY <2>3, <2>4
<1>11. PrefaceAsWritten'
  <2>1. v = Len(theFields.optional) /\ v \in Nat /\ theFields.optional \in Seq(Element)
    BY <1>2, WordsFit, WrittenFacts DEF WrittenInv, Structure, v
  <2>2. pc' = "indexSize" => theFields.optional = <<>>
    BY <1>7, <2>1, EmptySeq
  <2> QED BY <1>1, <1>6, <1>7, <1>8, <2>1, <2>2 DEF v, PrefaceAsWritten, PlainPcs,
        ElementPcs, IndexPcs, CountPcs, EntryPcs
<1>12. IndexAsWritten'
  BY <1>1, <1>6, <1>7, <1>9, IndexNotYet
<1> QED BY <1>1, <1>2, <1>3, <1>4, <1>5, <1>6, <1>7, <1>9, <1>10, <1>11, <1>12, PcSets,
      PartIsTaken DEF HeaderPcs, n

(* The id of an optional element.                                           *)
LEMMA OptIdAsWritten ==
  ASSUME ReadInv, WrittenInv, Written, pc = "optId", ReadInt("optId")
  PROVE  WrittenInv'
<1> DEFINE x == theFields
           v == NextElement(x, h).id
           w == OptSizeRest(x, h)
           n == Len(CInt(v))
           g == [h EXCEPT !["optId"] = v]
<1>1. pc \in HeaderPcs /\ pc \notin IndexPcs /\ "optId" \in IntFields /\ PrefaceAsWritten
      /\ IndexAsWritten
  BY PcSets DEF HeaderPcs, PrefacePcs, PlainPcs, ElementPcs, IntFields, WrittenInv
<1>2. /\ v \in Word /\ Valid("optId", v) /\ w \in Seq(Unit)
      /\ pc \in IndexPcs => Len(w) >= Len(SignatureBytes)
  <2>1. Len(h.optional) \in Nat /\ Len(h.optional) < Len(theFields.optional)
    BY <1>1, NextIsThere DEF ElementPcs
  <2>2. NextElement(theFields, h).id \in Word /\ OptSizeRest(theFields, h) \in Seq(Unit)
    BY <2>1, NextElementFacts, WrittenFacts DEF WrittenInv
  <2> QED BY <1>1, <2>2 DEF Valid
<1>3. CInt(v) \in Seq(Unit)
  BY <1>2, WordsFit, CIntFacts
<1>4. Rest(theFields, pc, h) = CInt(v) \o w
  BY RestFacts
<1> HIDE DEF v, w
<1>5. Take(n, g)
  <2>1. HeaderTypeOK /\ At(src, pos, CInt(v) \o w) /\ pos + Len(CInt(v)) <= end
    BY <1>1, <1>2, <1>3, <1>4, PartIsNext
  <2> QED BY <1>1, <1>2, <2>1, IntIsTaken
<1>6. /\ h \in Fields /\ g.optId = v /\ g.ckType = h.ckType /\ g.headerSize = h.headerSize
      /\ g.optional = h.optional /\ g.chunks = h.chunks /\ g.flags = h.flags
      /\ g.compression = h.compression /\ g.optCount = h.optCount
  BY DEF ReadInv, HeaderTypeOK, Fields
<1>7. /\ h' = g /\ file' = file
      /\ pc' = "optSize"
  <2>1. pc' = After("optId", g, pos + n) /\ h' = g /\ file' = file
    BY <1>5 DEF Take
  <2>2. \A k, q : After("optId", k, q) =
                    "optSize"
    BY AfterFacts
  <2> QED BY <1>6, <2>1, <2>2
<1>8. theFields' = theFields
  BY <1>7, WrittenSame
<1>9. pc' \in PrefacePcs
  BY <1>7 DEF PrefacePcs, PlainPcs, ElementPcs
<1>10. Rest(theFields, pc', g) = w
  BY <1>6, <1>7, RestFacts DEF OptSizeRest, OptDataRest, NextElement, w
<1>11. PrefaceAsWritten'
  BY <1>1, <1>6, <1>7, <1>8 DEF v, NextElement, PrefaceAsWritten, PlainPcs, ElementPcs, IndexPcs,
    CountPcs, EntryPcs
<1>12. IndexAsWritten'
  BY <1>1, <1>6, <1>7, <1>9, IndexNotYet
<1> QED BY <1>1, <1>2, <1>3, <1>4, <1>5, <1>6, <1>7, <1>9, <1>10, <1>11, <1>12, PcSets,
      PartIsTaken DEF HeaderPcs, n

(* The size of an optional element.                                         *)
LEMMA OptSizeAsWritten ==
  ASSUME ReadInv, WrittenInv, Written, pc = "optSize", ReadInt("optSize")
  PROVE  WrittenInv'
<1> DEFINE x == theFields
           v == Len(NextElement(x, h).data)
           w == OptDataRest(x, h)
           n == Len(CInt(v))
           g == [h EXCEPT !["optSize"] = v]
<1>1. pc \in HeaderPcs /\ pc \notin IndexPcs /\ "optSize" \in IntFields /\ PrefaceAsWritten
      /\ IndexAsWritten
  BY PcSets DEF HeaderPcs, PrefacePcs, PlainPcs, ElementPcs, IntFields, WrittenInv
<1>2. /\ v \in Word /\ Valid("optSize", v) /\ w \in Seq(Unit)
      /\ pc \in IndexPcs => Len(w) >= Len(SignatureBytes)
  <2>1. Len(h.optional) \in Nat /\ Len(h.optional) < Len(theFields.optional)
    BY <1>1, NextIsThere DEF ElementPcs
  <2>2. Len(NextElement(theFields, h).data) \in Word /\ OptDataRest(theFields, h) \in Seq(Unit)
    BY <2>1, NextElementFacts, WrittenFacts DEF WrittenInv
  <2> QED BY <1>1, <2>2 DEF Valid
<1>3. CInt(v) \in Seq(Unit)
  BY <1>2, WordsFit, CIntFacts
<1>4. Rest(theFields, pc, h) = CInt(v) \o w
  BY RestFacts
<1> HIDE DEF v, w
<1>5. Take(n, g)
  <2>1. HeaderTypeOK /\ At(src, pos, CInt(v) \o w) /\ pos + Len(CInt(v)) <= end
    BY <1>1, <1>2, <1>3, <1>4, PartIsNext
  <2> QED BY <1>1, <1>2, <2>1, IntIsTaken
<1>6. /\ h \in Fields /\ g.optSize = v /\ g.ckType = h.ckType /\ g.headerSize = h.headerSize
      /\ g.optional = h.optional /\ g.chunks = h.chunks /\ g.flags = h.flags
      /\ g.compression = h.compression /\ g.optCount = h.optCount
      /\ g.optId = h.optId
  BY DEF ReadInv, HeaderTypeOK, Fields
<1>7. /\ h' = g /\ file' = file
      /\ pc' = "optData"
  <2>1. pc' = After("optSize", g, pos + n) /\ h' = g /\ file' = file
    BY <1>5 DEF Take
  <2>2. \A k, q : After("optSize", k, q) =
                    "optData"
    BY AfterFacts
  <2> QED BY <1>6, <2>1, <2>2
<1>8. theFields' = theFields
  BY <1>7, WrittenSame
<1>9. pc' \in PrefacePcs
  BY <1>7 DEF PrefacePcs, PlainPcs, ElementPcs
<1>10. Rest(theFields, pc', g) = w
  BY <1>6, <1>7, RestFacts DEF OptDataRest, NextElement, w
<1>11. PrefaceAsWritten'
  BY <1>1, <1>6, <1>7, <1>8 DEF v, NextElement, PrefaceAsWritten, PlainPcs, ElementPcs, IndexPcs,
    CountPcs, EntryPcs
<1>12. IndexAsWritten'
  BY <1>1, <1>6, <1>7, <1>9, IndexNotYet
<1> QED BY <1>1, <1>2, <1>3, <1>4, <1>5, <1>6, <1>7, <1>9, <1>10, <1>11, <1>12, PcSets,
      PartIsTaken DEF HeaderPcs, n

(* The checksum of the data, whose value is not compared.                   *)
LEMMA DataChecksumAsWritten ==
  ASSUME ReadInv, WrittenInv, Written, pc = "dataChecksum", ReadDigest("dataChecksum")
  PROVE  WrittenInv'
<1> DEFINE x == theFields
           v == x.dataChecksum
           w == FlagsRest(x)
           n == Len(v)
           g == [h EXCEPT !["dataChecksum"] = v]
<1>1. pc \in HeaderPcs /\ pc \notin IndexPcs /\ "dataChecksum" \in DigestFields /\ PrefaceAsWritten
      /\ IndexAsWritten
  BY PcSets DEF HeaderPcs, PrefacePcs, PlainPcs, ElementPcs, DigestFields, WrittenInv
<1>2. /\ v \in Seq(Unit) /\ w \in Seq(Unit)
      /\ pc \in IndexPcs => Len(w) >= Len(SignatureBytes)
  BY <1>1, WrittenFacts, HeaderRestFacts DEF WrittenInv
<1>3. Len(v) = DigestSize[IF pc \in {"digest", "uDigest"} THEN h.chunkType ELSE h.ckType]
  <2>1. h.ckType = theType
    BY DEF WrittenInv, LeadAsWritten
  <2> QED BY <2>1, WrittenFacts DEF WrittenInv
<1>4. Rest(theFields, pc, h) = v \o w
  BY RestFacts
<1> HIDE DEF v, w
<1>5. Take(n, g)
  <2>1. HeaderTypeOK /\ At(src, pos, v \o w) /\ pos + Len(v) <= end
    BY <1>1, <1>2, <1>3, <1>4, PartIsNext
  <2> QED BY <1>1, <1>2, <1>3, <2>1, DigestIsTaken
<1>6. /\ h \in Fields /\ g.dataChecksum = v /\ g.ckType = h.ckType /\ g.headerSize = h.headerSize
      /\ g.optional = h.optional /\ g.chunks = h.chunks
  BY DEF ReadInv, HeaderTypeOK, Fields
<1>7. /\ h' = g /\ file' = file
      /\ pc' = "flags"
  <2>1. pc' = After("dataChecksum", g, pos + n) /\ h' = g /\ file' = file
    BY <1>5 DEF Take
  <2>2. \A k, q : After("dataChecksum", k, q) =
                    "flags"
    BY AfterFacts
  <2> QED BY <1>6, <2>1, <2>2
<1>8. theFields' = theFields
  BY <1>7, WrittenSame
<1>9. pc' \in PrefacePcs
  BY <1>7 DEF PrefacePcs, PlainPcs, ElementPcs
<1>10. Rest(theFields, pc', g) = w
  BY <1>7, RestFacts DEF FlagsRest, w
<1>11. PrefaceAsWritten'
  BY <1>1, <1>6, <1>7, <1>8 DEF v, PrefaceAsWritten, PlainPcs,
    ElementPcs, IndexPcs, CountPcs, EntryPcs
<1>12. IndexAsWritten'
  BY <1>1, <1>6, <1>7, <1>9, IndexNotYet
<1> QED BY <1>1, <1>2, <1>3, <1>4, <1>5, <1>6, <1>7, <1>9, <1>10, <1>11, <1>12, PcSets,
      PartIsTaken DEF HeaderPcs, n

(* The data of an optional element, which completes it.                     *)
LEMMA OptDataAsWritten ==
  ASSUME ReadInv, WrittenInv, Written, ReadOptData
  PROVE  WrittenInv'
<1> DEFINE x == theFields
           m == Len(h.optional)
           e == NextElement(x, h)
           v == e.data
           w == ElementsRest(x, m + 1)
           n == Len(v)
           d == [id |-> h.optId, data |-> Here(h.optSize)]
           g == [h EXCEPT !.optional = Append(h.optional, d)]
<1>0. pc = "optData"
  BY DEF ReadOptData
<1>1. pc \in HeaderPcs /\ pc \notin IndexPcs /\ pc \in ElementPcs /\ PrefaceAsWritten
      /\ IndexAsWritten /\ HeaderTypeOK
  BY <1>0, PcSets DEF HeaderPcs, PrefacePcs, PlainPcs, ElementPcs, WrittenInv, ReadInv
<1>2. m \in Nat /\ m < Len(x.optional) /\ x \in Structure /\ DigestsFlagged(x) /\ InWords(x)
  BY <1>1, NextIsThere, WrittenFacts DEF WrittenInv
<1>3. /\ e \in Element /\ v \in Seq(Unit) /\ w \in Seq(Unit) /\ e = x.optional[m + 1]
  <2>1. e \in Element /\ v \in Seq(Unit) /\ w \in Seq(Unit)
    BY <1>2, NextElementFacts
  <2> QED BY <2>1 DEF NextElement
<1>4. Rest(theFields, pc, h) = v \o w
  BY <1>0, RestFacts
<1>5. h.optId = e.id /\ h.optSize = n
  BY <1>0, <1>1 DEF PrefaceAsWritten
<1> HIDE DEF e, w, m
<1>6. Here(n) = v /\ Fits(n)
  <2>1. At(src, pos, v \o w) /\ pos + Len(v) <= end
    BY <1>1, <1>3, <1>4, PartIsNext
  <2>2. src \in Seq(Unit) /\ pos \in Nat
    BY <1>1 DEF HeaderTypeOK
  <2>3. v \in Seq(Unit) /\ w \in Seq(Unit)
    BY <1>3
  <2> HIDE DEF v
  <2>4. SubSeq(src, pos + 1, pos + Len(v)) = v
    BY <2>1, <2>2, <2>3, AtFacts
  <2> QED BY <2>1, <2>4 DEF Here, Fits
<1>7. Take(n, g)
  BY <1>5, <1>6, Zenon DEF ReadOptData
<1>8. d = e
  <2>1. e = [id |-> e.id, data |-> e.data]
    BY <1>3 DEF Element
  <2> QED BY <1>5, <1>6, <2>1
<1> HIDE DEF d
<1>9. /\ h \in Fields /\ g.optional = Append(h.optional, e) /\ g.ckType = h.ckType
      /\ g.headerSize = h.headerSize /\ g.flags = h.flags /\ g.compression = h.compression
      /\ g.optCount = h.optCount /\ g.chunks = h.chunks
  BY <1>1, <1>8 DEF HeaderTypeOK, Fields
<1>10. h.flags = x.flags /\ h.compression = x.compression /\ h.optCount = Len(x.optional)
       /\ h.optional = SubSeq(x.optional, 1, m)
  BY <1>0, <1>1 DEF PrefaceAsWritten, ElementPcs, m
<1>11. /\ Len(g.optional) = m + 1 /\ g.optional = SubSeq(x.optional, 1, m + 1)
       /\ m + 1 = Len(x.optional) => g.optional = x.optional
  <2>1. x.optional \in Seq(Element)
    BY <1>2 DEF Structure
  <2> HIDE DEF g
  <2> QED BY <1>2, <1>3, <1>9, <1>10, <2>1, PrefixGrows
<1>12. /\ h' = g /\ file' = file
       /\ pc' = IF m + 1 < Len(x.optional) THEN "optId" ELSE "indexSize"
  <2>1. pc' = After("optData", g, pos + n) /\ h' = g /\ file' = file
    BY <1>0, <1>7 DEF Take
  <2>2. \A k, q : After("optData", k, q) =
                    IF Len(k.optional) < k.optCount THEN "optId" ELSE "indexSize"
    BY AfterFacts
  <2> HIDE DEF g
  <2> QED BY <1>9, <1>10, <1>11, <2>1, <2>2
<1> HIDE DEF g
<1>13. theFields' = theFields
  BY <1>12, WrittenSame
<1>14. pc' \in PrefacePcs
  BY <1>12 DEF PrefacePcs, PlainPcs, ElementPcs
<1>15. Len(x.optional) \in Nat
  BY <1>2, LenProperties DEF Structure
<1>16. Rest(theFields, pc', g) = w
  <2>1. CASE m + 1 < Len(x.optional)
    <3>1. Len(g.optional) \in Nat /\ Len(g.optional) < Len(x.optional)
      BY <1>2, <1>11, <2>1
    <3>2. ElementsRest(x, Len(g.optional)) = OptIdRest(x, g)
      BY <1>2, <3>1, NextElementFacts
    <3>3. Rest(theFields, "optId", g) = OptIdRest(theFields, g)
      BY RestFacts DEF OptIdRest
    <3> QED BY <1>11, <1>12, <2>1, <3>2, <3>3 DEF w
  <2>2. CASE ~(m + 1 < Len(x.optional))
    <3> DEFINE j == m + 1
    <3>1. j = Len(x.optional) /\ j \in Nat /\ j <= Len(x.optional)
      BY <1>2, <1>15, <2>2
    <3> HIDE DEF j
    <3>2. ElementsRest(x, j) = IndexRest(x)
      BY <1>2, <3>1, ElementsRestFacts
    <3> QED BY <1>12, <2>2, <3>2, RestFacts DEF w, j
  <2> QED BY <2>1, <2>2
<1>17. PrefaceAsWritten'
  <2>1. pc' = "indexSize" => g.optional = x.optional
    BY <1>2, <1>11, <1>12, <1>15
  <2>2. Len(g.optional) <= Len(x.optional)
    BY <1>2, <1>11, <1>15
  <2> QED BY <1>9, <1>10, <1>11, <1>12, <1>13, <2>1, <2>2 DEF PrefaceAsWritten, PlainPcs,
        ElementPcs, IndexPcs, CountPcs, EntryPcs
<1>18. IndexAsWritten'
  BY <1>1, <1>9, <1>12, <1>14, IndexNotYet
<1> QED BY <1>1, <1>3, <1>4, <1>7, <1>9, <1>12, <1>14, <1>16, <1>17, <1>18, PcSets,
      PartIsTaken DEF HeaderPcs, n

(* The preface has been read.                                               *)
LEMMA PrefaceStays ==
  ASSUME PrefaceAsWritten, file' = file, pc \in IndexPcs \cup {"indexSize"},
         pc' \in IndexPcs \cup {"sigCount"},
         h'.flags = h.flags, h'.compression = h.compression, h'.optional = h.optional
  PROVE  PrefaceAsWritten'
<1>1. theFields' = theFields
  BY WrittenSame
<1>2. pc' \notin ElementPcs /\ pc' \notin {"optSize", "optData"}
  BY DEF IndexPcs, CountPcs, EntryPcs, ElementPcs
<1>3. h.flags = theFields.flags /\ h.compression = theFields.compression
      /\ h.optional = theFields.optional
  BY DEF PrefaceAsWritten
<1> QED BY <1>1, <1>2, <1>3 DEF PrefaceAsWritten

(* What follows is no shorter than the signatures, which end the header.    *)
LEMMA CountRestLong ==
  ASSUME NEW x \in Structure
  PROVE  Len(CountRest(x)) >= Len(SignatureBytes) /\ CountRest(x) \in Seq(Unit)
<1>1. Len(x.chunks) \in Nat /\ 0 <= Len(x.chunks)
  BY LenProperties DEF Structure
<1>2. EntriesRest(x, 0) \in Seq(Unit) /\ Len(EntriesRest(x, 0)) >= Len(SignatureBytes)
  BY <1>1, EntriesRestFacts
<1>3. CInt(Len(x.chunks)) \in Seq(Unit)
  BY <1>1, CIntFacts
<1>4. CountRest(x) \in Seq(Unit)
      /\ Len(CountRest(x)) = Len(CInt(Len(x.chunks))) + Len(EntriesRest(x, 0))
  BY <1>2, <1>3, OctetsConcat DEF CountRest
<1>5. Len(CInt(Len(x.chunks))) \in Nat /\ Len(EntriesRest(x, 0)) \in Nat
      /\ Len(SignatureBytes) \in Nat
  BY <1>2, <1>3, LenProperties, SignatureFacts
<1> QED BY <1>2, <1>4, <1>5

(* The type of the chunks' digests.                                         *)
LEMMA ChunkTypeAsWritten ==
  ASSUME ReadInv, WrittenInv, Written, pc = "chunkType", ReadInt("chunkType")
  PROVE  WrittenInv'
<1> DEFINE x == theFields
           v == x.chunkType
           w == CountRest(x)
           n == Len(CInt(v))
           g == [h EXCEPT !["chunkType"] = v]
<1>1. pc \in HeaderPcs /\ pc \in IndexPcs /\ "chunkType" \in IntFields /\ PrefaceAsWritten
      /\ IndexAsWritten
  BY PcSets DEF HeaderPcs, IndexPcs, CountPcs, EntryPcs, IntFields, WrittenInv
<1>2. /\ v \in Word /\ Valid("chunkType", v) /\ w \in Seq(Unit)
      /\ pc \in IndexPcs => Len(w) >= Len(SignatureBytes)
  <2>1. theFields.chunkType \in Word /\ theFields.chunkType \in DOMAIN DigestSize
        /\ theFields \in Structure /\ DigestsFlagged(theFields)
    BY WrittenFacts DEF WrittenInv, InWords
  <2>2. CountRest(theFields) \in Seq(Unit)
    BY <2>1, IndexRestFacts
  <2>3. Len(CountRest(theFields)) >= Len(SignatureBytes)
    BY <2>1, CountRestLong
  <2> QED BY <1>1, <2>1, <2>2, <2>3 DEF Valid
<1>3. CInt(v) \in Seq(Unit)
  BY <1>2, WordsFit, CIntFacts
<1>4. Rest(theFields, pc, h) = CInt(v) \o w
  BY RestFacts
<1> HIDE DEF v, w
<1>5. Take(n, g)
  <2>1. HeaderTypeOK /\ At(src, pos, CInt(v) \o w) /\ pos + Len(CInt(v)) <= end
    BY <1>1, <1>2, <1>3, <1>4, PartIsNext
  <2> QED BY <1>1, <1>2, <2>1, IntIsTaken
<1>6. /\ h \in Fields /\ g.chunkType = v /\ g.ckType = h.ckType /\ g.headerSize = h.headerSize
      /\ g.optional = h.optional /\ g.chunks = h.chunks /\ g.flags = h.flags
      /\ g.compression = h.compression
  BY DEF ReadInv, HeaderTypeOK, Fields
<1>7. /\ h' = g /\ file' = file
      /\ pc' = "count"
  <2>1. pc' = After("chunkType", g, pos + n) /\ h' = g /\ file' = file
    BY <1>5 DEF Take
  <2>2. \A k, q : After("chunkType", k, q) =
                    "count"
    BY AfterFacts
  <2> QED BY <1>6, <2>1, <2>2
<1>8. theFields' = theFields
  BY <1>7, WrittenSame
<1>9. pc' \in IndexPcs
  BY <1>7 DEF IndexPcs, CountPcs, EntryPcs
<1>10. Rest(theFields, pc', g) = w
  BY <1>7, RestFacts DEF CountRest, w
<1>11. PrefaceAsWritten'
  BY <1>1, <1>6, <1>7, <1>9, PrefaceStays
<1>12. IndexAsWritten'
  BY <1>1, <1>6, <1>7, <1>8 DEF v, IndexAsWritten, EntryPcs
<1> QED BY <1>1, <1>2, <1>3, <1>4, <1>5, <1>6, <1>7, <1>9, <1>10, <1>11, <1>12, PcSets,
      PartIsTaken DEF HeaderPcs, n

(* As long as something is left of an entry, more follows than the          *)
(* signatures.                                                              *)
LEMMA EntryRestLong ==
  ASSUME NEW x \in Structure, InWords(x), NEW g,
         Len(g.chunks) \in Nat, Len(g.chunks) < Len(x.chunks)
  PROVE  /\ Len(LengthRest(x, g)) > Len(SignatureBytes)
         /\ Len(CompLengthRest(x, g)) > Len(SignatureBytes)
         /\ Len(UDigestRest(x, g)) > Len(SignatureBytes)
         /\ Len(DigestRest(x, g)) > Len(SignatureBytes)
<1> DEFINE e == NextEntry(x, g)
           a == CInt(e.compLength)
           b == CInt(e.length)
           r == EntriesRest(x, Len(g.chunks) + 1)
           l == LengthRest(x, g)
           c == CompLengthRest(x, g)
           u == UDigestRest(x, g)
<1>1. /\ e.compLength \in Word /\ e.length \in Word /\ e.digest \in Seq(Unit)
      /\ e.uDigest \in Seq(Unit) /\ l \in Seq(Unit) /\ c \in Seq(Unit) /\ u \in Seq(Unit)
      /\ r \in Seq(Unit) /\ Len(r) >= Len(SignatureBytes)
  BY NextEntryFacts
<1>2. DigestRest(x, g) = e.digest \o u /\ u = e.uDigest \o c /\ c = a \o l /\ l = b \o r
  BY DEF DigestRest, UDigestRest, CompLengthRest, LengthRest
<1> HIDE DEF e, r, l, c, u
<1>3. a \in Seq(Unit) /\ b \in Seq(Unit) /\ Len(a) >= 1 /\ Len(b) >= 1
  BY <1>1, WordsFit, CIntFacts
<1> HIDE DEF a, b
<1>4. Len(l) = Len(b) + Len(r) /\ Len(c) = Len(a) + Len(l) /\ Len(u) = Len(e.uDigest) + Len(c)
      /\ Len(DigestRest(x, g)) = Len(e.digest) + Len(u)
  <2>1. Len(l) = Len(b) + Len(r)
    BY <1>1, <1>2, <1>3, OctetsConcat
  <2>2. Len(c) = Len(a) + Len(l)
    BY <1>1, <1>2, <1>3, OctetsConcat
  <2>3. Len(u) = Len(e.uDigest) + Len(c)
    BY <1>1, <1>2, OctetsConcat
  <2>4. Len(DigestRest(x, g)) = Len(e.digest) + Len(u)
    BY <1>1, <1>2, OctetsConcat
  <2> QED BY <2>1, <2>2, <2>3, <2>4
<1>5. /\ Len(a) \in Nat /\ Len(b) \in Nat /\ Len(r) \in Nat /\ Len(SignatureBytes) \in Nat
      /\ Len(e.uDigest) \in Nat /\ Len(e.digest) \in Nat
  BY <1>1, <1>3, LenProperties, SignatureFacts
<1>6. Len(l) > Len(SignatureBytes) /\ Len(l) \in Nat
  BY <1>1, <1>3, <1>4, <1>5
<1>7. Len(c) > Len(SignatureBytes) /\ Len(c) \in Nat
  BY <1>3, <1>4, <1>5, <1>6
<1>8. Len(u) > Len(SignatureBytes) /\ Len(u) \in Nat
  <2> DEFINE k == Len(e.uDigest)
             j == Len(c)
  <2>1. Len(u) = k + j /\ k \in Nat /\ j \in Nat /\ j > Len(SignatureBytes)
    BY <1>4, <1>5, <1>7
  <2> HIDE DEF k, j
  <2> QED BY <1>5, <2>1
<1>9. Len(DigestRest(x, g)) > Len(SignatureBytes)
  <2> DEFINE k == Len(e.digest)
             j == Len(u)
  <2>1. /\ Len(DigestRest(x, g)) = k + j /\ k \in Nat /\ j \in Nat
        /\ j > Len(SignatureBytes)
    BY <1>4, <1>5, <1>8
  <2> HIDE DEF k, j
  <2> QED BY <1>5, <2>1
<1> QED BY <1>6, <1>7, <1>8, <1>9 DEF l, c, u

(* What an index is left to be read of: entries, as long as there are any.  *)
LEMMA MoreEntries ==
  ASSUME NEW x \in Structure, InWords(x), NEW m \in Nat, m <= Len(x.chunks),
         NEW p \in Nat, NEW e \in Nat, p + Len(EntriesRest(x, m)) = e + Len(SignatureBytes)
  PROVE  p < e <=> m < Len(x.chunks)
<1>1. Len(x.chunks) \in Nat /\ Len(SignatureBytes) \in Nat
  BY LenProperties, SignatureFacts DEF Structure
<1>2. CASE m < Len(x.chunks)
  <2> DEFINE g == [chunks |-> SubSeq(x.chunks, 1, m)]
  <2>1. Len(g.chunks) = m
    <3>1. m \in 0 .. Len(x.chunks) /\ x.chunks \in Seq(Entry)
      BY <1>1 DEF Structure
    <3> QED BY <3>1, PrefixFacts
  <2> HIDE DEF g
  <2>2. EntriesRest(x, m) = DigestRest(x, g)
    BY <1>2, <2>1, NextEntryFacts
  <2>3. Len(EntriesRest(x, m)) > Len(SignatureBytes)
    BY <1>2, <2>1, <2>2, EntryRestLong
  <2>4. Len(EntriesRest(x, m)) \in Nat
    BY EntriesRestFacts, LenProperties
  <2> QED BY <1>1, <1>2, <2>3, <2>4
<1>3. CASE ~(m < Len(x.chunks))
  <2>1. m = Len(x.chunks)
    BY <1>1, <1>3
  <2>2. EntriesRest(x, m) = SignatureBytes
    BY <2>1, EntriesRestFacts
  <2> QED BY <1>1, <1>3, <2>2
<1> QED BY <1>2, <1>3

(* The number of the chunks.                                                *)
LEMMA CountAsWritten ==
  ASSUME ReadInv, WrittenInv, Written, pc = "count", ReadInt("count")
  PROVE  WrittenInv'
<1> DEFINE x == theFields
           v == Len(x.chunks)
           w == EntriesRest(x, 0)
           n == Len(CInt(v))
           g == [h EXCEPT !["count"] = v]
<1>1. pc \in HeaderPcs /\ pc \in IndexPcs /\ "count" \in IntFields /\ PrefaceAsWritten
      /\ IndexAsWritten
  BY PcSets DEF HeaderPcs, IndexPcs, CountPcs, EntryPcs, IntFields, WrittenInv
<1>2. /\ v \in Word /\ Valid("count", v) /\ w \in Seq(Unit)
      /\ pc \in IndexPcs => Len(w) >= Len(SignatureBytes)
  <2>1. Len(theFields.chunks) \in Word /\ theFields \in Structure
    BY WrittenFacts DEF WrittenInv, InWords
  <2>2. 0 <= Len(theFields.chunks)
    BY <2>1, LenProperties DEF Structure
  <2>3. EntriesRest(theFields, 0) \in Seq(Unit)
        /\ Len(EntriesRest(theFields, 0)) >= Len(SignatureBytes)
    BY <2>1, <2>2, EntriesRestFacts
  <2> QED BY <1>1, <2>1, <2>3 DEF Valid
<1>3. CInt(v) \in Seq(Unit)
  BY <1>2, WordsFit, CIntFacts
<1>4. Rest(theFields, pc, h) = CInt(v) \o w
  BY RestFacts
<1> HIDE DEF v, w
<1>5. Take(n, g)
  <2>1. HeaderTypeOK /\ At(src, pos, CInt(v) \o w) /\ pos + Len(CInt(v)) <= end
    BY <1>1, <1>2, <1>3, <1>4, PartIsNext
  <2> QED BY <1>1, <1>2, <2>1, IntIsTaken
<1>6. /\ h \in Fields /\ g.count = v /\ g.ckType = h.ckType /\ g.headerSize = h.headerSize
      /\ g.optional = h.optional /\ g.chunks = h.chunks /\ g.flags = h.flags
      /\ g.compression = h.compression /\ g.chunkType = h.chunkType
      /\ h.chunks = <<>> /\ Len(h.chunks) = 0
  BY DEF ReadInv, HeaderTypeOK, Fields, Elements, CountPcs
<1>7a. pos + n < end <=> 0 < v
  <2>1. /\ HeaderTypeOK /\ Len(CInt(v)) \in Nat
        /\ pos + Len(CInt(v)) + Len(w) = base + Len(theHeader)
        /\ end + Len(SignatureBytes) = base + Len(theHeader)
    BY <1>1, <1>2, <1>3, <1>4, PartIsNext
  <2>2. pos + n \in Nat /\ end \in Nat /\ (pos + n) + Len(w) = end + Len(SignatureBytes)
    BY <2>1 DEF HeaderTypeOK
  <2>3. theFields \in Structure /\ InWords(theFields) /\ 0 <= Len(theFields.chunks)
    BY WrittenFacts, LenProperties DEF WrittenInv, Structure
  <2> DEFINE p == pos + n
  <2>4. p \in Nat /\ end \in Nat /\ p + Len(EntriesRest(theFields, 0)) = end + Len(SignatureBytes)
    BY <2>2 DEF w
  <2> HIDE DEF p
  <2>5. p < end <=> 0 < Len(theFields.chunks)
    BY <2>3, <2>4, MoreEntries
  <2> QED BY <2>5 DEF p, v
<1>7. /\ h' = g /\ file' = file
      /\ pc' = IF 0 < v THEN "digest" ELSE "entries"
  <2>1. pc' = After("count", g, pos + n) /\ h' = g /\ file' = file
    BY <1>5 DEF Take
  <2>2. \A k, q : After("count", k, q) =
                    IF q < end THEN "digest" ELSE "entries"
    BY AfterFacts
  <2> QED BY <1>6, <2>1, <2>2, <1>7a
<1>8. theFields' = theFields
  BY <1>7, WrittenSame
<1>9. pc' \in IndexPcs
  BY <1>7 DEF IndexPcs, CountPcs, EntryPcs
<1>10. Rest(theFields, pc', g) = w
  <2>1. theFields \in Structure /\ InWords(theFields)
    BY WrittenFacts DEF WrittenInv
  <2>2. v \in Nat /\ v = Len(theFields.chunks)
    BY <1>2, WordsFit DEF v
  <2>3. CASE 0 < v
    <3>1. Len(g.chunks) \in Nat /\ Len(g.chunks) < Len(theFields.chunks) /\ Len(g.chunks) = 0
      BY <1>6, <2>2, <2>3
    <3>2. EntriesRest(theFields, Len(g.chunks)) = DigestRest(theFields, g)
      BY <2>1, <3>1, NextEntryFacts
    <3>3. Rest(theFields, "digest", g) = DigestRest(theFields, g)
      BY RestFacts DEF DigestRest
    <3> QED BY <1>7, <2>3, <3>1, <3>2, <3>3 DEF w
  <2>4. CASE ~(0 < v)
    <3>1. Len(theFields.chunks) = 0
      BY <2>2, <2>4
    <3>2. EntriesRest(theFields, 0) = SignatureBytes
      BY <2>1, <3>1, EntriesRestFacts
    <3> QED BY <1>7, <2>4, <3>2, RestFacts DEF w
  <2> QED BY <2>3, <2>4
<1>11. PrefaceAsWritten'
  BY <1>1, <1>6, <1>7, <1>9, PrefaceStays
<1>12. IndexAsWritten'
  <2>1. v = Len(theFields.chunks) /\ v \in Nat /\ theFields.chunks \in Seq(Entry)
    BY <1>2, WordsFit, WrittenFacts DEF WrittenInv, Structure, v
  <2>2. pc' = "entries" => theFields.chunks = <<>>
    BY <1>7, <2>1, EmptySeq
  <2>3. pc' \in EntryPcs => Len(g.chunks) < Len(theFields.chunks)
    BY <1>6, <1>7, <2>1 DEF EntryPcs
  <2> QED BY <1>1, <1>6, <1>7, <1>8, <2>1, <2>2, <2>3 DEF v, IndexAsWritten, EntryPcs
<1> QED BY <1>1, <1>2, <1>3, <1>4, <1>5, <1>6, <1>7, <1>9, <1>10, <1>11, <1>12, PcSets,
      PartIsTaken DEF HeaderPcs, n

(* While an entry is read it is one of those written.                       *)
LEMMA EntryIsThere ==
  ASSUME ReadInv, WrittenInv, Written, pc \in EntryPcs
  PROVE  /\ Len(h.chunks) \in Nat /\ Len(h.chunks) < Len(theFields.chunks)
         /\ theFields \in Structure /\ InWords(theFields)
         /\ h.flags = theFields.flags /\ h.chunkType = theFields.chunkType
         /\ ChunkFits(theFields, NextEntry(theFields, h))
<1>1. PrefaceAsWritten /\ IndexAsWritten
  BY DEF WrittenInv, EntryPcs
<1>2. h.chunks \in Seq(Entry)
  BY DEF ReadInv, HeaderTypeOK, Fields
<1>3. theFields \in Structure /\ InWords(theFields)
      /\ \A k \in 1 .. Len(theFields.chunks) : ChunkFits(theFields, theFields.chunks[k])
  BY WrittenFacts DEF WrittenInv
<1>4. h.flags = theFields.flags /\ h.chunkType = theFields.chunkType
      /\ Len(h.chunks) < Len(theFields.chunks)
  BY <1>1 DEF PrefaceAsWritten, IndexAsWritten, IndexPcs
<1>5. Len(h.chunks) \in Nat /\ Len(theFields.chunks) \in Nat
  BY <1>2, <1>3, LenProperties DEF Structure
<1>6. Len(h.chunks) + 1 \in 1 .. Len(theFields.chunks)
  BY <1>4, <1>5
<1> QED BY <1>3, <1>4, <1>5, <1>6 DEF NextEntry

(* The digest of a chunk.                                                   *)
LEMMA DigestAsWritten ==
  ASSUME ReadInv, WrittenInv, Written, pc = "digest", ReadDigest("digest")
  PROVE  WrittenInv'
<1> DEFINE x == theFields
           v == NextEntry(x, h).digest
           w == UDigestRest(x, h)
           n == Len(v)
           g == [h EXCEPT !["digest"] = v]
<1>1. pc \in HeaderPcs /\ pc \in IndexPcs /\ "digest" \in DigestFields /\ PrefaceAsWritten
      /\ IndexAsWritten
  BY PcSets DEF HeaderPcs, IndexPcs, CountPcs, EntryPcs, DigestFields, WrittenInv
<1>2. /\ v \in Seq(Unit) /\ w \in Seq(Unit)
      /\ pc \in IndexPcs => Len(w) >= Len(SignatureBytes)
  <2>1. Len(h.chunks) \in Nat /\ Len(h.chunks) < Len(theFields.chunks)
        /\ theFields \in Structure /\ InWords(theFields)
    BY <1>1, EntryIsThere DEF EntryPcs
  <2>2. NextEntry(theFields, h).digest \in Seq(Unit) /\ UDigestRest(theFields, h) \in Seq(Unit)
    BY <2>1, NextEntryFacts
  <2>3. Len(UDigestRest(theFields, h)) >= Len(SignatureBytes)
    <3>1. Len(UDigestRest(theFields, h)) > Len(SignatureBytes)
      BY <2>1, EntryRestLong
    <3> QED BY <2>2, <3>1, LenProperties, SignatureFacts
  <2> QED BY <1>1, <2>2, <2>3 DEF Valid
<1>3. Len(v) = DigestSize[IF pc \in {"digest", "uDigest"} THEN h.chunkType ELSE h.ckType]
  BY EntryIsThere DEF EntryPcs, ChunkFits
<1>4. Rest(theFields, pc, h) = v \o w
  BY RestFacts
<1> HIDE DEF v, w
<1>5. Take(n, g)
  <2>1. HeaderTypeOK /\ At(src, pos, v \o w) /\ pos + Len(v) <= end
    BY <1>1, <1>2, <1>3, <1>4, PartIsNext
  <2> QED BY <1>1, <1>2, <1>3, <2>1, DigestIsTaken
<1>6. /\ h \in Fields /\ g.digest = v /\ g.ckType = h.ckType /\ g.headerSize = h.headerSize
      /\ g.optional = h.optional /\ g.chunks = h.chunks /\ g.flags = h.flags
      /\ g.compression = h.compression /\ g.chunkType = h.chunkType /\ g.count = h.count
  BY DEF ReadInv, HeaderTypeOK, Fields
<1>7. /\ h' = g /\ file' = file
      /\ pc' = IF Has(h.flags, UncompressedSource) THEN "uDigest" ELSE "compLength"
  <2>1. pc' = After("digest", g, pos + n) /\ h' = g /\ file' = file
    BY <1>5 DEF Take
  <2>2. \A k, q : After("digest", k, q) =
                    IF Has(k.flags, UncompressedSource) THEN "uDigest" ELSE "compLength"
    BY AfterFacts
  <2> QED BY <1>6, <2>1, <2>2
<1>8. theFields' = theFields
  BY <1>7, WrittenSame
<1>9. pc' \in IndexPcs
  BY <1>7 DEF IndexPcs, CountPcs, EntryPcs
<1>10. Rest(theFields, pc', g) = w
  <2>1. UDigestRest(theFields, g) = w /\ NextEntry(theFields, g) = NextEntry(theFields, h)
    BY <1>6 DEF w, UDigestRest, CompLengthRest, LengthRest, NextEntry
  <2>2. CASE Has(h.flags, UncompressedSource)
    BY <1>7, <2>1, <2>2, RestFacts DEF UDigestRest
  <2>3. CASE ~Has(h.flags, UncompressedSource)
    <3>1. NextEntry(theFields, g).uDigest = <<>>
      BY <2>1, <2>3, EntryIsThere DEF EntryPcs, ChunkFits
    <3>2. CompLengthRest(theFields, g) \in Seq(Unit)
      BY <1>6, EntryIsThere, NextEntryFacts DEF EntryPcs
    <3>3. w = CompLengthRest(theFields, g)
      BY <2>1, <3>1, <3>2, ConcatEmptySeq DEF UDigestRest
    <3>4. Rest(theFields, "compLength", g) = CompLengthRest(theFields, g)
      BY RestFacts DEF CompLengthRest
    <3> QED BY <1>7, <2>3, <3>3, <3>4
  <2> QED BY <2>2, <2>3
<1>11. PrefaceAsWritten'
  BY <1>1, <1>6, <1>7, <1>9, PrefaceStays
<1>12. IndexAsWritten'
  <2>1. NextEntry(theFields, g) = NextEntry(theFields, h)
    BY <1>6 DEF NextEntry
  <2>2. pc' = "compLength" => UDigest(g) = NextEntry(theFields, g).uDigest
    BY <1>6, <1>7, <2>1, EntryIsThere DEF EntryPcs, ChunkFits, UDigest
  <2> QED BY <1>1, <1>6, <1>7, <1>8, <2>1, <2>2 DEF v, IndexAsWritten, EntryPcs
<1> QED BY <1>1, <1>2, <1>3, <1>4, <1>5, <1>6, <1>7, <1>9, <1>10, <1>11, <1>12, PcSets,
      PartIsTaken DEF HeaderPcs, n

(* The digest of a chunk's uncompressed data.                               *)
LEMMA UDigestAsWritten ==
  ASSUME ReadInv, WrittenInv, Written, pc = "uDigest", ReadDigest("uDigest")
  PROVE  WrittenInv'
<1> DEFINE x == theFields
           v == NextEntry(x, h).uDigest
           w == CompLengthRest(x, h)
           n == Len(v)
           g == [h EXCEPT !["uDigest"] = v]
<1>1. pc \in HeaderPcs /\ pc \in IndexPcs /\ "uDigest" \in DigestFields /\ PrefaceAsWritten
      /\ IndexAsWritten
  BY PcSets DEF HeaderPcs, IndexPcs, CountPcs, EntryPcs, DigestFields, WrittenInv
<1>2. /\ v \in Seq(Unit) /\ w \in Seq(Unit)
      /\ pc \in IndexPcs => Len(w) >= Len(SignatureBytes)
  <2>1. Len(h.chunks) \in Nat /\ Len(h.chunks) < Len(theFields.chunks)
        /\ theFields \in Structure /\ InWords(theFields)
    BY <1>1, EntryIsThere DEF EntryPcs
  <2>2. NextEntry(theFields, h).uDigest \in Seq(Unit) /\ CompLengthRest(theFields, h) \in Seq(Unit)
    BY <2>1, NextEntryFacts
  <2>3. Len(CompLengthRest(theFields, h)) >= Len(SignatureBytes)
    <3>1. Len(CompLengthRest(theFields, h)) > Len(SignatureBytes)
      BY <2>1, EntryRestLong
    <3> QED BY <2>2, <3>1, LenProperties, SignatureFacts
  <2> QED BY <1>1, <2>2, <2>3 DEF Valid
<1>3. Len(v) = DigestSize[IF pc \in {"digest", "uDigest"} THEN h.chunkType ELSE h.ckType]
  <2>1. Has(h.flags, UncompressedSource)
    BY DEF ReadInv, Elements
  <2> QED BY <2>1, EntryIsThere DEF EntryPcs, ChunkFits
<1>4. Rest(theFields, pc, h) = v \o w
  BY RestFacts
<1> HIDE DEF v, w
<1>5. Take(n, g)
  <2>1. HeaderTypeOK /\ At(src, pos, v \o w) /\ pos + Len(v) <= end
    BY <1>1, <1>2, <1>3, <1>4, PartIsNext
  <2> QED BY <1>1, <1>2, <1>3, <2>1, DigestIsTaken
<1>6. /\ h \in Fields /\ g.uDigest = v /\ g.ckType = h.ckType /\ g.headerSize = h.headerSize
      /\ g.optional = h.optional /\ g.chunks = h.chunks /\ g.flags = h.flags
      /\ g.compression = h.compression /\ g.chunkType = h.chunkType /\ g.count = h.count
      /\ g.digest = h.digest
  BY DEF ReadInv, HeaderTypeOK, Fields
<1>7. /\ h' = g /\ file' = file
      /\ pc' = "compLength"
  <2>1. pc' = After("uDigest", g, pos + n) /\ h' = g /\ file' = file
    BY <1>5 DEF Take
  <2>2. \A k, q : After("uDigest", k, q) =
                    "compLength"
    BY AfterFacts
  <2> QED BY <1>6, <2>1, <2>2
<1>8. theFields' = theFields
  BY <1>7, WrittenSame
<1>9. pc' \in IndexPcs
  BY <1>7 DEF IndexPcs, CountPcs, EntryPcs
<1>10. Rest(theFields, pc', g) = w
  <2>1. CompLengthRest(theFields, g) = w
    BY <1>6 DEF w, CompLengthRest, LengthRest, NextEntry
  <2> QED BY <1>7, <2>1, RestFacts DEF CompLengthRest
<1>11. PrefaceAsWritten'
  BY <1>1, <1>6, <1>7, <1>9, PrefaceStays
<1>12. IndexAsWritten'
  <2>1. NextEntry(theFields, g) = NextEntry(theFields, h)
    BY <1>6 DEF NextEntry
  <2>2. UDigest(g) = NextEntry(theFields, g).uDigest
    <3>1. Has(g.flags, UncompressedSource)
      BY <1>6 DEF ReadInv, Elements
    <3> QED BY <1>6, <2>1, <3>1 DEF UDigest, v
  <2> QED BY <1>1, <1>6, <1>7, <1>8, <2>1, <2>2 DEF IndexAsWritten, EntryPcs
<1> QED BY <1>1, <1>2, <1>3, <1>4, <1>5, <1>6, <1>7, <1>9, <1>10, <1>11, <1>12, PcSets,
      PartIsTaken DEF HeaderPcs, n

(* The compressed length of a chunk.                                        *)
LEMMA CompLengthAsWritten ==
  ASSUME ReadInv, WrittenInv, Written, pc = "compLength", ReadInt("compLength")
  PROVE  WrittenInv'
<1> DEFINE x == theFields
           v == NextEntry(x, h).compLength
           w == LengthRest(x, h)
           n == Len(CInt(v))
           g == [h EXCEPT !["compLength"] = v]
<1>1. pc \in HeaderPcs /\ pc \in IndexPcs /\ "compLength" \in IntFields /\ PrefaceAsWritten
      /\ IndexAsWritten
  BY PcSets DEF HeaderPcs, IndexPcs, CountPcs, EntryPcs, IntFields, WrittenInv
<1>2. /\ v \in Word /\ Valid("compLength", v) /\ w \in Seq(Unit)
      /\ pc \in IndexPcs => Len(w) >= Len(SignatureBytes)
  <2>1. Len(h.chunks) \in Nat /\ Len(h.chunks) < Len(theFields.chunks)
        /\ theFields \in Structure /\ InWords(theFields)
    BY <1>1, EntryIsThere DEF EntryPcs
  <2>2. NextEntry(theFields, h).compLength \in Word /\ LengthRest(theFields, h) \in Seq(Unit)
    BY <2>1, NextEntryFacts
  <2>3. Len(LengthRest(theFields, h)) >= Len(SignatureBytes)
    <3>1. Len(LengthRest(theFields, h)) > Len(SignatureBytes)
      BY <2>1, EntryRestLong
    <3> QED BY <2>2, <3>1, LenProperties, SignatureFacts
  <2> QED BY <1>1, <2>2, <2>3 DEF Valid
<1>3. CInt(v) \in Seq(Unit)
  BY <1>2, WordsFit, CIntFacts
<1>4. Rest(theFields, pc, h) = CInt(v) \o w
  BY RestFacts
<1> HIDE DEF v, w
<1>5. Take(n, g)
  <2>1. HeaderTypeOK /\ At(src, pos, CInt(v) \o w) /\ pos + Len(CInt(v)) <= end
    BY <1>1, <1>2, <1>3, <1>4, PartIsNext
  <2> QED BY <1>1, <1>2, <2>1, IntIsTaken
<1>6. /\ h \in Fields /\ g.compLength = v /\ g.ckType = h.ckType /\ g.headerSize = h.headerSize
      /\ g.optional = h.optional /\ g.chunks = h.chunks /\ g.flags = h.flags
      /\ g.compression = h.compression /\ g.chunkType = h.chunkType /\ g.count = h.count
      /\ g.digest = h.digest /\ g.uDigest = h.uDigest
  BY DEF ReadInv, HeaderTypeOK, Fields
<1>7. /\ h' = g /\ file' = file
      /\ pc' = "length"
  <2>1. pc' = After("compLength", g, pos + n) /\ h' = g /\ file' = file
    BY <1>5 DEF Take
  <2>2. \A k, q : After("compLength", k, q) =
                    "length"
    BY AfterFacts
  <2> QED BY <1>6, <2>1, <2>2
<1>8. theFields' = theFields
  BY <1>7, WrittenSame
<1>9. pc' \in IndexPcs
  BY <1>7 DEF IndexPcs, CountPcs, EntryPcs
<1>10. Rest(theFields, pc', g) = w
  <2>1. LengthRest(theFields, g) = w
    BY <1>6 DEF w, LengthRest, NextEntry
  <2> QED BY <1>7, <2>1, RestFacts DEF LengthRest
<1>11. PrefaceAsWritten'
  BY <1>1, <1>6, <1>7, <1>9, PrefaceStays
<1>12. IndexAsWritten'
  <2>1. NextEntry(theFields, g) = NextEntry(theFields, h) /\ UDigest(g) = UDigest(h)
    BY <1>6 DEF NextEntry, UDigest
  <2> QED BY <1>1, <1>6, <1>7, <1>8, <2>1 DEF v, IndexAsWritten, EntryPcs
<1> QED BY <1>1, <1>2, <1>3, <1>4, <1>5, <1>6, <1>7, <1>9, <1>10, <1>11, <1>12, PcSets,
      PartIsTaken DEF HeaderPcs, n

(* The length of a chunk, which completes its entry.                        *)
LEMMA LengthAsWritten ==
  ASSUME ReadInv, WrittenInv, Written, ReadLength
  PROVE  WrittenInv'
<1> DEFINE x == theFields
           m == Len(h.chunks)
           e == NextEntry(x, h)
           v == e.length
           w == EntriesRest(x, m + 1)
           n == Len(CInt(v))
           r == NextInt
           d == [digest |-> h.digest, compLength |-> h.compLength, length |-> v,
                 uDigest |-> UDigest(h)]
           g == [h EXCEPT !.chunks = Append(h.chunks, d)]
<1>0. pc = "length"
  BY DEF ReadLength
<1>1. pc \in HeaderPcs /\ pc \in IndexPcs /\ pc \in EntryPcs /\ PrefaceAsWritten
      /\ IndexAsWritten /\ HeaderTypeOK
  BY <1>0, PcSets DEF HeaderPcs, IndexPcs, EntryPcs, WrittenInv, ReadInv
<1>2. m \in Nat /\ m < Len(x.chunks) /\ x \in Structure /\ InWords(x)
  BY <1>1, EntryIsThere
<1>3. /\ e \in Entry /\ v \in Word /\ w \in Seq(Unit) /\ e = x.chunks[m + 1]
      /\ Len(w) >= Len(SignatureBytes)
  BY <1>2, NextEntryFacts
<1>4. Rest(theFields, pc, h) = CInt(v) \o w
  BY <1>0, RestFacts
<1>5. h.digest = e.digest /\ h.compLength = e.compLength /\ UDigest(h) = e.uDigest
  BY <1>0, <1>1 DEF IndexAsWritten
<1> HIDE DEF e, w, m
<1>6. CInt(v) \in Seq(Unit)
  BY <1>3, WordsFit, CIntFacts
<1>7. r = [err |-> "nil", value |-> v, length |-> n]
  <2>1. At(src, pos, CInt(v) \o w) /\ pos + Len(CInt(v)) <= end
    BY <1>1, <1>3, <1>4, <1>6, PartIsNext
  <2> QED BY <1>1, <1>3, <2>1, NextIsWritten
<1>8. Take(n, g)
  <2> DEFINE y == [digest |-> h.digest, compLength |-> h.compLength, length |-> r.value,
                   uDigest |-> IF Has(h.flags, UncompressedSource) THEN h.uDigest ELSE <<>>]
  <2>1. \/ r.err = "nil" /\ Take(r.length, [h EXCEPT !.chunks = Append(h.chunks, y)])
        \/ r.err # "nil" /\ Reject
    BY Zenon DEF ReadLength
  <2>2. r.err = "nil" /\ r.value = v /\ r.length = n
    BY <1>7
  <2> HIDE DEF r, v, n
  <2>3. y = d
    BY <2>2 DEF UDigest
  <2> HIDE DEF y, d
  <2> QED BY <2>1, <2>2, <2>3
<1>9. d = e
  <2>1. e = [digest |-> e.digest, compLength |-> e.compLength, length |-> e.length,
             uDigest |-> e.uDigest]
    BY <1>3 DEF Entry
  <2> QED BY <1>5, <2>1
<1> HIDE DEF d, r
<1>10. /\ h \in Fields /\ g.chunks = Append(h.chunks, e) /\ g.ckType = h.ckType
       /\ g.headerSize = h.headerSize /\ g.flags = h.flags /\ g.compression = h.compression
       /\ g.optional = h.optional /\ g.chunkType = h.chunkType /\ g.count = h.count
  BY <1>1, <1>9 DEF HeaderTypeOK, Fields
<1>11. h.chunkType = x.chunkType /\ h.count = Len(x.chunks) /\ h.chunks = SubSeq(x.chunks, 1, m)
  BY <1>0, <1>1 DEF IndexAsWritten, EntryPcs, m
<1>12. /\ Len(g.chunks) = m + 1 /\ g.chunks = SubSeq(x.chunks, 1, m + 1)
       /\ m + 1 = Len(x.chunks) => g.chunks = x.chunks
  <2>1. x.chunks \in Seq(Entry)
    BY <1>2 DEF Structure
  <2> HIDE DEF g
  <2> QED BY <1>2, <1>3, <1>10, <1>11, <2>1, PrefixGrows
<1>13. Len(x.chunks) \in Nat /\ m + 1 \in Nat /\ m + 1 <= Len(x.chunks)
  BY <1>2, LenProperties DEF Structure
<1>14. pos + n < end <=> m + 1 < Len(x.chunks)
  <2>1. /\ Len(CInt(v)) \in Nat
        /\ pos + Len(CInt(v)) + Len(w) = base + Len(theHeader)
        /\ end + Len(SignatureBytes) = base + Len(theHeader)
    BY <1>1, <1>3, <1>4, <1>6, PartIsNext
  <2>2. pos + n \in Nat /\ end \in Nat /\ (pos + n) + Len(w) = end + Len(SignatureBytes)
    BY <1>1, <2>1 DEF HeaderTypeOK
  <2> DEFINE p == pos + n
             j == m + 1
  <2>3. p \in Nat /\ end \in Nat /\ p + Len(EntriesRest(x, j)) = end + Len(SignatureBytes)
        /\ j \in Nat /\ j <= Len(x.chunks)
    BY <1>13, <2>2 DEF w
  <2> HIDE DEF p, j
  <2>4. p < end <=> j < Len(x.chunks)
    BY <1>2, <2>3, MoreEntries
  <2> QED BY <2>4 DEF p, j
<1>15. /\ h' = g /\ file' = file
       /\ pc' = IF m + 1 < Len(x.chunks) THEN "digest" ELSE "entries"
  <2>1. pc' = After("length", g, pos + n) /\ h' = g /\ file' = file
    BY <1>0, <1>8 DEF Take
  <2>2. \A k, q : After("length", k, q) = IF q < end THEN "digest" ELSE "entries"
    BY AfterFacts
  <2> HIDE DEF g
  <2> QED BY <1>14, <2>1, <2>2
<1> HIDE DEF g
<1>16. theFields' = theFields
  BY <1>15, WrittenSame
<1>17. pc' \in IndexPcs
  BY <1>15 DEF IndexPcs, EntryPcs
<1>18. Rest(theFields, pc', g) = w
  <2>1. CASE m + 1 < Len(x.chunks)
    <3>1. Len(g.chunks) \in Nat /\ Len(g.chunks) < Len(x.chunks)
      BY <1>12, <1>13, <2>1
    <3>2. EntriesRest(x, Len(g.chunks)) = DigestRest(x, g)
      BY <1>2, <3>1, NextEntryFacts
    <3>3. Rest(theFields, "digest", g) = DigestRest(theFields, g)
      BY RestFacts DEF DigestRest
    <3> QED BY <1>12, <1>15, <2>1, <3>2, <3>3 DEF w
  <2>2. CASE ~(m + 1 < Len(x.chunks))
    <3> DEFINE j == m + 1
    <3>1. j = Len(x.chunks) /\ j \in Nat /\ j <= Len(x.chunks)
      BY <1>13, <2>2
    <3> HIDE DEF j
    <3>2. EntriesRest(x, j) = SignatureBytes
      BY <1>2, <3>1, EntriesRestFacts
    <3> QED BY <1>15, <2>2, <3>2, RestFacts DEF w, j
  <2> QED BY <2>1, <2>2
<1>19. PrefaceAsWritten'
  BY <1>1, <1>10, <1>15, <1>17, PrefaceStays
<1>20. IndexAsWritten'
  <2>1. pc' = "entries" => g.chunks = x.chunks
    BY <1>12, <1>13, <1>15
  <2>2. Len(g.chunks) <= Len(x.chunks)
    BY <1>12, <1>13
  <2>3. pc' \in EntryPcs => Len(g.chunks) < Len(x.chunks)
    BY <1>12, <1>13, <1>15 DEF EntryPcs
  <2> QED BY <1>10, <1>11, <1>12, <1>15, <1>16, <2>1, <2>2, <2>3 DEF IndexAsWritten, EntryPcs
<1> QED BY <1>1, <1>3, <1>4, <1>6, <1>8, <1>10, <1>15, <1>17, <1>18, <1>19, <1>20, PcSets,
      PartIsTaken DEF HeaderPcs, n

(* A step within the header that leaves results and fields alone.           *)
LEMMA HeaderGoesOn ==
  ASSUME WrittenInv, Written, pc \in HeaderPcs, pc' \in HeaderPcs,
         UNCHANGED <<file, turn, h, leadLen, results>>,
         HeaderIsAhead', PrefaceAsWritten', IndexAsWritten'
  PROVE  WrittenInv'
<1>1. pc \notin LeadPcs /\ pc' \notin LeadPcs /\ pc # "done" /\ pc' # "done"
  BY PcSets DEF HeaderPcs
<1>2. /\ Written' = Written /\ theType' = theType /\ theFields' = theFields
      /\ theHeader' = theHeader /\ theSum' = theSum /\ theLead' = theLead
  BY WrittenSame
<1>3. LeadAsWritten'
  <2>1. /\ h.ckType = theType /\ h.headerSize = Len(theHeader)
        /\ pc' # "header"
    BY <1>1 DEF WrittenInv, LeadAsWritten, LeadPcs
  <2> QED BY <1>2, <2>1 DEF LeadAsWritten
<1>4. (\A k \in DOMAIN results : ReadAsWritten(results[k]))' /\ (file \in Files)'
  BY DEF WrittenInv, ReadAsWritten
<1>5. ASSUME pc' \in LeadPcs PROVE LeadIsAhead'
  BY <1>1, <1>5
<1> QED BY <1>3, <1>4, <1>5 DEF WrittenInv

(* Nothing of a written file is refused.                                    *)
LEMMA CheckAsWritten ==
  ASSUME ReadInv, WrittenInv, Written, CheckCount
  PROVE  WrittenInv'
<1>1. pc = "entries" /\ pc \in HeaderPcs /\ pc \in IndexPcs /\ PrefaceAsWritten /\ IndexAsWritten
      /\ HeaderTypeOK
  BY DEF CheckCount, HeaderPcs, IndexPcs, WrittenInv, ReadInv
<1>2. CountAgrees
  BY <1>1 DEF IndexAsWritten, CountAgrees
<1>3. pc' = "sigCount" /\ UNCHANGED <<file, turn, src, pos, h, leadLen, results>>
  BY <1>2, Zenon DEF CheckCount
<1>4. pc' \in HeaderPcs /\ pc' \notin IndexPcs
  BY <1>3, PcSets DEF HeaderPcs
<1>5. /\ Written' = Written /\ theType' = theType /\ theFields' = theFields
      /\ theHeader' = theHeader /\ theSum' = theSum /\ theLead' = theLead
  BY <1>3, WrittenSame
<1>6. base' = base
  BY <1>3 DEF base, reader
<1>7. HeaderIsAhead'
  <2>1. HeaderIsAhead
    BY <1>1 DEF WrittenInv, HeaderPcs
  <2>2. Rest(theFields, pc, h) = SignatureBytes /\ Rest(theFields', pc', h') = SignatureBytes
    BY <1>1, <1>3, RestFacts
  <2>3. Rest(theFields, pc, h)' = SignatureBytes
    BY <2>2
  <2>4. leadLen = theLead /\ At(src, pos, SignatureBytes)
        /\ pos + Len(SignatureBytes) = base + Len(theHeader)
    BY <2>1, <2>2 DEF HeaderIsAhead
  <2>5. (leadLen = theLead)'
    BY <1>3, <1>5, <2>4
  <2>6. At(src', pos', SignatureBytes)
    BY <1>3, <2>4
  <2>7. pos' + Len(SignatureBytes) = base' + Len(theHeader')
    BY <1>3, <1>5, <1>6, <2>4
  <2>8. At(src, pos, Rest(theFields, pc, h))'
    BY <2>3, <2>6
  <2>9. (pos + Len(Rest(theFields, pc, h)) = base + Len(theHeader))'
    BY <2>3, <2>7
  <2> QED BY <1>4, <2>5, <2>8, <2>9 DEF HeaderIsAhead
<1>8. PrefaceAsWritten'
  BY <1>1, <1>3, PrefaceStays
<1>9. IndexAsWritten'
  BY <1>1, <1>3, <1>5 DEF IndexAsWritten, EntryPcs
<1> QED BY <1>1, <1>3, <1>4, <1>7, <1>8, <1>9, HeaderGoesOn

(* The size of the index.                                                   *)
LEMMA IndexSizeAsWritten ==
  ASSUME ReadInv, WrittenInv, Written, ReadIndexSize
  PROVE  WrittenInv'
<1> DEFINE x == theFields
           v == Len(IndexBody(x))
           w == ChunkTypeRest(x)
           n == Len(CInt(v))
           r == NextInt
<1>0. pc = "indexSize"
  BY DEF ReadIndexSize
<1>1. pc \in HeaderPcs /\ pc \notin IndexPcs /\ PrefaceAsWritten /\ IndexAsWritten /\ HeaderTypeOK
  BY <1>0, PcSets DEF HeaderPcs, PrefacePcs, WrittenInv, ReadInv
<1>2. /\ x \in Structure /\ DigestsFlagged(x) /\ Len(theHeader) \in Word
      /\ Has(x.flags, OptionalElements) <=> x.optional # <<>>
  BY WrittenFacts DEF WrittenInv
<1>3. /\ v \in Nat /\ w \in Seq(Unit) /\ IndexRest(x) = CInt(v) \o w
      /\ Len(w) = v + Len(SignatureBytes)
  BY <1>2, IndexRestFacts
<1>4. v \in Word
  <2>1. Len(IndexBody(x)) <= Len(theHeader)
    BY <1>2, HeaderRestFacts DEF theHeader
  <2>2. Values \in Int
    BY RadixFacts
  <2> QED BY <1>2, <1>3, <2>1, <2>2 DEF Word
<1>5. Rest(theFields, pc, h) = CInt(v) \o w
  BY <1>0, <1>3, RestFacts
<1> HIDE DEF v, w
<1>6. CInt(v) \in Seq(Unit) /\ Len(SignatureBytes) \in Nat
  BY <1>3, CIntFacts, SignatureFacts
<1>7. /\ At(src, pos, CInt(v) \o w) /\ pos + n <= end /\ At(src, pos + n, w)
      /\ pos + n + Len(w) = base + Len(theHeader) /\ leadLen = theLead /\ n \in Nat
      /\ Len(w) \in Nat
  BY <1>1, <1>3, <1>5, <1>6, PartIsNext
<1>8. r = [err |-> "nil", value |-> v, length |-> n]
  BY <1>1, <1>3, <1>4, <1>7, NextIsWritten
<1>9. end = Len(src) /\ pos \in Nat /\ end \in Nat
  BY <1>0, <1>1, WholeSource DEF HeaderTypeOK
<1>10. Fits(n + v)
  <2>1. (pos + n) + Len(w) <= Len(src)
    BY <1>7 DEF At
  <2> QED BY <1>3, <1>6, <1>7, <1>9, <2>1 DEF Fits
<1>11. /\ pos' = pos + n /\ end' = pos + n + v /\ pc' = "chunkType"
       /\ UNCHANGED <<file, turn, src, h, leadLen, results>>
  <2>1. r.err = "nil" /\ r.value = v /\ r.length = n
    BY <1>8
  <2>2. LET ok == r.err = "nil" /\ Fits(r.length + r.value)
        IN  \/ /\ ok
               /\ pos' = pos + r.length /\ end' = pos + r.length + r.value
               /\ pc' = "chunkType"
               /\ UNCHANGED <<file, turn, src, h, leadLen, results>>
            \/ ~ok /\ Reject
    BY Zenon DEF ReadIndexSize
  <2> HIDE DEF r, n
  <2> QED BY <1>10, <2>1, <2>2
<1>12. pc' \in HeaderPcs /\ pc' \in IndexPcs
  BY <1>11 DEF HeaderPcs, IndexPcs, CountPcs
<1>13. /\ Written' = Written /\ theType' = theType /\ theFields' = theFields
       /\ theHeader' = theHeader /\ theSum' = theSum /\ theLead' = theLead
  BY <1>11, WrittenSame
<1>14. base' = base
  BY <1>11 DEF base, reader
<1>15. HeaderIsAhead'
  <2>1. Rest(theFields', pc', h') = w
    BY <1>11, <1>13, RestFacts DEF w, ChunkTypeRest
  <2>2. Rest(theFields, pc, h)' = w
    BY <2>1
  <2>3. At(src', pos', w)
    BY <1>7, <1>11
  <2>4. pos' + Len(w) = base' + Len(theHeader')
    BY <1>7, <1>11, <1>13, <1>14
  <2>5. end' + Len(SignatureBytes) = base' + Len(theHeader')
    <3>1. end' + Len(SignatureBytes) = pos + n + Len(w)
      BY <1>3, <1>6, <1>7, <1>9, <1>11
    <3> QED BY <1>7, <1>13, <1>14, <3>1
  <2>6. (leadLen = theLead)'
    BY <1>7, <1>11, <1>13
  <2>7. At(src, pos, Rest(theFields, pc, h))'
    BY <2>2, <2>3
  <2>8. (pos + Len(Rest(theFields, pc, h)) = base + Len(theHeader))'
    BY <2>2, <2>4
  <2> QED BY <2>5, <2>6, <2>7, <2>8 DEF HeaderIsAhead
<1>16. PrefaceAsWritten'
  BY <1>0, <1>1, <1>11, <1>12, PrefaceStays
<1>17. IndexAsWritten'
  BY <1>1, <1>11, <1>13 DEF IndexAsWritten, EntryPcs
<1> QED BY <1>1, <1>11, <1>12, <1>15, <1>16, <1>17, HeaderGoesOn

(* The two magics.                                                          *)
LEMMA MagicFacts ==
  /\ Magic \in Seq(Unit) /\ DetachedMagic \in Seq(Unit)
  /\ Len(Magic) = 1 /\ Len(DetachedMagic) = 1 /\ Magic # DetachedMagic
<1>1. 0 \in Octet /\ 1 \in Octet
  BY RadixFacts DEF Octet
<1>2. <<0>> \in Seq(Octet) /\ Len(<<0>>) = 1 /\ <<1>> \in Seq(Octet) /\ Len(<<1>>) = 1
  BY <1>1, OneOctet
<1>3. /\ Magic \in Seq(Unit) /\ Len(Magic) = 1 /\ Octets(Magic) = <<0>>
      /\ DetachedMagic \in Seq(Unit) /\ Len(DetachedMagic) = 1 /\ Octets(DetachedMagic) = <<1>>
  BY <1>2, PlainFacts DEF Magic, DetachedMagic
<1>4. <<0>> # <<1>>
  BY <1>1, OneOctet
<1> QED BY <1>3, <1>4

(* Every reader opens enough of a file to read a lead that fits.            *)
LEMMA OpenedAt ==
  ASSUME NEW units \in Seq(Unit), NEW who, NEW a \in Seq(Unit), At(units, 0, a),
         Len(a) <= LeadPrefix
  PROVE  At(Opened(units, who), 0, a)
<1> DEFINE s == Opened(units, who)
           n == Len(a)
           t == SubSeq(s, 0 + 1, n)
<1>1. n \in Nat /\ Len(units) \in Nat /\ LeadPrefix \in Nat
  BY LenProperties, LeadPrefixIsNat
<1>2. n <= Len(units) /\ SubSeq(units, 0 + 1, n) = a
  <2>1. 0 + Len(a) <= Len(units) /\ SubSeq(units, 0 + 1, 0 + Len(a)) = a
    BY DEF At
  <2> QED BY <1>1, <2>1
<1>3. s \in Seq(Unit) /\ Len(s) \in Nat /\ Len(s) <= Len(units)
      /\ \A k \in 1 .. Len(s) : s[k] = units[k]
  BY OpenedFacts, OpenedIsTheStart
<1>4. n <= Len(s)
  <2>1. CASE who = "remote"
    <3> DEFINE m == IF Len(units) < LeadPrefix THEN Len(units) ELSE LeadPrefix
    <3>1. m \in 0 .. Len(units) /\ 0 \in 0 .. Len(units) /\ 0 + 1 = 1 /\ m - 0 = m /\ n <= m
      BY <1>1, <1>2
    <3>2. s = SubSeq(units, 0 + 1, m)
      BY <2>1, <3>1 DEF Opened
    <3> HIDE DEF m, s, n
    <3>3. Len(SubSeq(units, 0 + 1, m)) = m - 0
      BY <3>1, SubSeqFacts
    <3> QED BY <3>1, <3>2, <3>3
  <2>2. CASE who # "remote"
    BY <1>2, <2>2 DEF Opened
  <2> QED BY <2>1, <2>2
<1> HIDE DEF s, n
<1>5. t = a
  <2>1. 0 \in 0 .. Len(s) /\ n \in 0 .. Len(s) /\ n - 0 = n /\ 0 \in 0 .. Len(units)
        /\ n \in 0 .. Len(units)
    BY <1>1, <1>2, <1>3, <1>4
  <2>2. t \in Seq(Unit) /\ Len(t) = n - 0 /\ \A k \in 1 .. n - 0 : t[k] = s[0 + k]
    BY <1>3, <2>1, SubSeqFacts
  <2>3. \A k \in 1 .. n - 0 : a[k] = units[0 + k]
    BY <1>2, <2>1, SubSeqFacts
  <2> HIDE DEF t
  <2>4. \A k \in 1 .. n : t[k] = a[k]
    BY <1>1, <1>3, <1>4, <2>1, <2>2, <2>3
  <2>5. Len(t) = Len(a)
    BY <2>1, <2>2 DEF n
  <2> QED BY <2>2, <2>4, <2>5, SeqEqual DEF n
<1>6. 0 + Len(a) = n
  BY <1>1 DEF n
<1> QED BY <1>4, <1>5, <1>6 DEF At, s, t

(* The largest digest is what the prefix has room for.                      *)
LEMMA PrefixIsLong ==
  ASSUME NEW t \in DOMAIN DigestSize
  PROVE  1 + 2 * MaxCompressedIntLen + DigestSize[t] <= LeadPrefix
<1> DEFINE S == {DigestSize[u] : u \in DOMAIN DigestSize}
           most == CHOOSE n \in S : \A u \in DOMAIN DigestSize : DigestSize[u] <= n
<1>1. \E n \in S : \A u \in DOMAIN DigestSize : DigestSize[u] <= n
  BY HeaderAssumption
<1>2. most \in S /\ \A u \in DOMAIN DigestSize : DigestSize[u] <= most
  BY <1>1, Zenon
<1>3. S \subseteq Nat /\ DigestSize[t] \in Nat
  BY HeaderAssumption
<1>4. LeadPrefix = Len(Magic) + 2 * MaxCompressedIntLen + most
  BY Zenon DEF LeadPrefix
<1>5. most \in Nat /\ DigestSize[t] <= most
  BY <1>2, <1>3
<1> HIDE DEF most, S
<1> QED BY <1>3, <1>4, <1>5, MagicFacts, CompressedIntAssumption

(* Where the parts of a written file stand.                                 *)
LEMMA LeadFacts ==
  ASSUME file \in Files, Written
  PROVE  /\ file.units \in Seq(Unit) /\ theHeader \in Seq(Unit) /\ theSum \in Seq(Unit)
         /\ CInt(theType) \in Seq(Unit) /\ CInt(Len(theHeader)) \in Seq(Unit)
         /\ LeadRest("ckType") \in Seq(Unit) /\ LeadRest("headerSize") \in Seq(Unit)
         /\ theLead \in Nat /\ 1 + Len(LeadRest("ckType")) = theLead /\ theLead <= LeadPrefix
         /\ At(file.units, theLead, theHeader)
         /\ file.origin.bodyOffset = theLead + Len(theHeader)
         /\ \E m \in {Magic, DetachedMagic} : At(file.units, 0, m \o LeadRest("ckType"))
<1> DEFINE o == file.origin
           f == o.fields
           c == CInt(theType)
           z == CInt(Len(theHeader))
           s == theSum
           hd == theHeader
           r == z \o s
           k == c \o r
           u == file.units
<1>1. WrittenFor(u, o) /\ u \in Seq(Unit)
  BY OriginAssumption, HeaderAssumption DEF Written
<1>2. /\ u \in {WriteFile(theType, f, o.body), WriteDetachedHeader(theType, f, o.body)}
      /\ o.bodyOffset = Len(BuildHeader(Magic, theType, f, o.body)) /\ o.body \in Seq(Unit)
  BY <1>1, Zenon DEF WrittenFor, theType
<1>3. \A m : BuildHeader(m, theType, f, o.body) = (((m \o c) \o z) \o s) \o hd
  BY Zenon DEF BuildHeader, Lead, theHeader, theFields, theType, theSum
<1>4. /\ theType \in DOMAIN DigestSize /\ theType \in Word /\ Len(theHeader) \in Word
      /\ theFields \in Structure /\ DigestsFlagged(theFields) /\ s \in Seq(Unit)
      /\ Len(s) = DigestSize[theType]
      /\ Has(theFields.flags, OptionalElements) <=> theFields.optional # <<>>
  BY WrittenFacts
<1>5. hd \in Seq(Unit)
  BY <1>4, HeaderRestFacts DEF theHeader
<1>6. /\ theType \in Nat /\ Len(theHeader) \in Nat /\ Len(c) <= MaxCompressedIntLen
      /\ Len(z) <= MaxCompressedIntLen
  BY <1>4, WordsFit
<1>7. c \in Seq(Unit) /\ z \in Seq(Unit) /\ Len(c) \in Nat /\ Len(z) \in Nat
  BY <1>6, CIntFacts
<1>8. LeadRest("ckType") = k /\ LeadRest("headerSize") = r
  BY DEF LeadRest
<1>9. theLead = Len(Magic) + Len(c) + Len(z) + DigestSize[theType]
  BY DEF theLead, HeaderStart
<1>10. DigestSize[theType] \in Nat /\ 1 + 2 * MaxCompressedIntLen + DigestSize[theType] <= LeadPrefix
  BY <1>4, HeaderAssumption, PrefixIsLong
<1> HIDE DEF c, z, s, hd, u, o, f
<1>11. r \in Seq(Unit) /\ Len(r) = Len(z) + Len(s)
  BY <1>4, <1>7, OctetsConcat
<1>12. k \in Seq(Unit) /\ Len(k) = Len(c) + Len(r)
  BY <1>7, <1>11, OctetsConcat
<1>13. theLead \in Nat /\ 1 + Len(k) = theLead
  <2>1. Len(Magic) = 1
    BY MagicFacts
  <2> QED BY <1>4, <1>7, <1>9, <1>10, <1>11, <1>12, <2>1
<1>14. theLead <= LeadPrefix
  <2>1. Len(Magic) = 1 /\ LeadPrefix \in Nat /\ MaxCompressedIntLen \in Nat
    BY MagicFacts, LeadPrefixIsNat, CompressedIntAssumption
  <2> QED BY <1>6, <1>7, <1>9, <1>10, <2>1
<1>15. ASSUME NEW m \in {Magic, DetachedMagic}
       PROVE  /\ m \in Seq(Unit) /\ m \o k \in Seq(Unit) /\ Len(m \o k) = theLead
              /\ BuildHeader(m, theType, f, o.body) = (m \o k) \o hd
  <2>1. m \in Seq(Unit) /\ Len(m) = 1
    BY MagicFacts
  <2>2. m \o c \in Seq(Unit) /\ (m \o c) \o r = m \o k
    BY <1>7, <1>11, <2>1, Assoc
  <2> DEFINE mc == m \o c
  <2> HIDE DEF mc
  <2>3. (mc \o z) \o s = mc \o r
    BY <1>4, <1>7, <2>2, Assoc DEF mc
  <2>4. ((m \o c) \o z) \o s = m \o k
    BY <2>2, <2>3 DEF mc
  <2>5. m \o k \in Seq(Unit) /\ Len(m \o k) = 1 + Len(k)
    BY <1>12, <2>1, OctetsConcat
  <2> QED BY <1>3, <1>13, <2>1, <2>4, <2>5
<1>16. o.bodyOffset = theLead + Len(hd)
  <2>1. Magic \o k \in Seq(Unit) /\ Len(Magic \o k) = theLead
        /\ BuildHeader(Magic, theType, f, o.body) = (Magic \o k) \o hd
    BY <1>15
  <2> DEFINE l == Magic \o k
  <2>2. l \in Seq(Unit) /\ Len(l) = theLead /\ o.bodyOffset = Len(l \o hd)
    BY <1>2, <2>1
  <2> HIDE DEF l
  <2>3. Len(l \o hd) = Len(l) + Len(hd)
    BY <1>5, <2>2, OctetsConcat
  <2> QED BY <2>2, <2>3
<1>17. PICK m \in {Magic, DetachedMagic} :
         u = (m \o k) \o hd \/ u = ((m \o k) \o hd) \o o.body
  <2>1. CASE u = WriteFile(theType, f, o.body)
    <3>1. WriteFile(theType, f, o.body) = BuildHeader(Magic, theType, f, o.body) \o o.body
      BY DEF WriteFile
    <3> QED BY <1>15, <2>1, <3>1
  <2>2. CASE u = WriteDetachedHeader(theType, f, o.body)
    <3>1. WriteDetachedHeader(theType, f, o.body) = BuildHeader(DetachedMagic, theType, f, o.body)
      BY DEF WriteDetachedHeader
    <3> QED BY <1>15, <2>2, <3>1
  <2> QED BY <1>2, <2>1, <2>2
<1> DEFINE l == m \o k
<1>18. l \in Seq(Unit) /\ Len(l) = theLead
  BY <1>15, <1>17
<1>19. u = l \o hd \/ u = (l \o hd) \o o.body
  BY <1>17
<1> HIDE DEF l
<1>20. u \in Seq(Unit) /\ At(u, 0, u)
  BY <1>1, WholeIsThere DEF u
<1>21. PICK y \in Seq(Unit) : u = l \o y /\ (y = hd \/ y = hd \o o.body)
  <2>1. CASE u = l \o hd
    BY <1>5, <2>1
  <2>2. CASE u = (l \o hd) \o o.body
    <3>1. (l \o hd) \o o.body = l \o (hd \o o.body) /\ hd \o o.body \in Seq(Unit)
      BY <1>2, <1>5, <1>18, Assoc
    <3> QED BY <2>2, <3>1
  <2> QED BY <1>19, <2>1, <2>2
<1>22. /\ 0 + Len(l) + Len(y) <= Len(u) /\ SubSeq(u, 0 + 1, 0 + Len(l)) = l
       /\ At(u, 0 + Len(l), y) /\ Len(l) \in Nat /\ Len(y) \in Nat /\ Len(u) \in Nat
  <2>1. At(u, 0, l \o y)
    BY <1>20, <1>21
  <2> QED BY <1>18, <1>20, <2>1, AtFacts
<1>23. At(u, 0, l)
  <2>1. 0 + Len(l) <= Len(u)
    BY <1>22
  <2> QED BY <1>22, <2>1 DEF At
<1>24. At(u, theLead, y)
  BY <1>13, <1>18, <1>22
<1>25. At(u, theLead, hd)
  <2>1. CASE y = hd
    BY <1>24, <2>1
  <2>2. CASE y = hd \o o.body
    <3> DEFINE b == o.body
               p == theLead
    <3>1. At(u, p, hd \o b) /\ b \in Seq(Unit) /\ p \in Nat
      BY <1>2, <1>13, <1>24, <2>2
    <3> HIDE DEF b, p
    <3>2. SubSeq(u, p + 1, p + Len(hd)) = hd /\ p + Len(hd) + Len(b) <= Len(u)
      BY <1>5, <1>20, <3>1, AtFacts
    <3>3. Len(hd) \in Nat /\ Len(b) \in Nat /\ Len(u) \in Nat
      BY <1>5, <1>20, <3>1, LenProperties
    <3>4. p + Len(hd) <= Len(u)
      BY <3>1, <3>2, <3>3
    <3> QED BY <3>2, <3>4 DEF At, p
  <2> QED BY <1>21, <2>1, <2>2
<1>26. \E q \in {Magic, DetachedMagic} : At(u, 0, q \o k)
  BY <1>17, <1>23 DEF l
<1> QED BY <1>4, <1>5, <1>7, <1>8, <1>11, <1>12, <1>13, <1>14, <1>16, <1>20, <1>25, <1>26
        DEF c, z, s, hd, u, o

(* Of the preface and the index nothing has been read yet.                  *)
LEMMA NothingAsWritten ==
  ASSUME file \in Files, Written, file' = file, h'.optional = <<>>, h'.chunks = <<>>,
         pc' \in LeadPcs \cup {"dataChecksum"}
  PROVE  PrefaceAsWritten' /\ IndexAsWritten'
<1>1. theFields' = theFields
  BY WrittenSame
<1>2. theFields.optional \in Seq(Element) /\ theFields.chunks \in Seq(Entry)
  BY WrittenFacts DEF Structure
<1>3. <<>> = SubSeq(theFields.optional, 1, Len(<<>>)) /\ Len(<<>>) <= Len(theFields.optional)
  BY <1>2, NothingIsFirst
<1>4. <<>> = SubSeq(theFields.chunks, 1, Len(<<>>)) /\ Len(<<>>) <= Len(theFields.chunks)
  BY <1>2, NothingIsFirst
<1>5. PrefaceAsWritten'
  BY <1>1, <1>3 DEF PrefaceAsWritten, LeadPcs, ElementPcs, IndexPcs, CountPcs, EntryPcs
<1>6. IndexAsWritten'
  BY <1>1, <1>4 DEF IndexAsWritten, LeadPcs, EntryPcs
<1> QED BY <1>5, <1>6

(* A part of the lead that was written has been taken: what is left to      *)
(* show.                                                                    *)
LEMMA LeadIsTaken ==
  ASSUME ReadInv, WrittenInv, Written, pc \in LeadPcs, NEW n \in Nat, NEW g, Take(n, g),
         pc' \in LeadPcs, pc' # "magic",
         At(src, pos + n, LeadRest(pc')), pos + n + Len(LeadRest(pc')) = theLead,
         g.optional = h.optional, g.chunks = h.chunks, LeadAsWritten'
  PROVE  WrittenInv'
<1>1. /\ pos' = pos + n /\ h' = g
      /\ UNCHANGED <<file, turn, src, end, leadLen, results>>
  BY DEF Take
<1>2. /\ Written' = Written /\ theType' = theType /\ theFields' = theFields
      /\ theHeader' = theHeader /\ theSum' = theSum /\ theLead' = theLead
  BY <1>1, WrittenSame
<1>3. h.optional = <<>> /\ h.chunks = <<>>
  BY DEF ReadInv, Elements
<1>4. file \in Files /\ LeadIsAhead
  BY DEF WrittenInv
<1>5. PrefaceAsWritten' /\ IndexAsWritten'
  BY <1>1, <1>3, <1>4, NothingAsWritten
<1>6. LeadRest(pc)' = LeadRest(pc')
  BY <1>2 DEF LeadRest
<1>7. LeadIsAhead'
  <2>1. src' = Opened(file.units, reader)'
    BY <1>1, <1>4 DEF LeadIsAhead, Opened, reader
  <2>2. At(src, pos, LeadRest(pc))'
    BY <1>1, <1>6 DEF At
  <2>3. (pos + Len(LeadRest(pc)) = theLead)'
    BY <1>1, <1>2, <1>6
  <2> QED BY <2>1, <2>2, <2>3 DEF LeadIsAhead
<1>8. (\A k \in DOMAIN results : ReadAsWritten(results[k]))' /\ (file \in Files)'
  BY <1>1 DEF WrittenInv, ReadAsWritten
<1>9. pc' \notin HeaderPcs
  BY PcSets DEF HeaderPcs
<1> QED BY <1>5, <1>7, <1>8, <1>9 DEF WrittenInv, HeaderPcs

(* The part a of the lead is next, and w follows.                           *)
LEMMA LeadIsNext ==
  ASSUME ReadInv, WrittenInv, Written, pc \in LeadPcs, pc # "magic",
         NEW a \in Seq(Unit), NEW w \in Seq(Unit), LeadRest(pc) = a \o w
  PROVE  /\ HeaderTypeOK /\ Len(a) \in Nat /\ At(src, pos, a \o w) /\ pos + Len(a) <= end
         /\ At(src, pos + Len(a), w) /\ pos + Len(a) + Len(w) = theLead
<1>1. HeaderTypeOK /\ LeadIsAhead /\ pc # "done"
  BY DEF ReadInv, WrittenInv, LeadPcs
<1>2. src \in Seq(Unit) /\ pos \in Nat /\ Len(src) \in Nat /\ end = Len(src)
  BY <1>1, LenProperties DEF HeaderTypeOK
<1> DEFINE b == a \o w
<1>3. At(src, pos, b) /\ pos + Len(b) = theLead
  BY <1>1 DEF LeadIsAhead
<1>4. Len(a) \in Nat /\ Len(w) \in Nat /\ Len(b) = Len(a) + Len(w)
      /\ pos + Len(a) + Len(w) <= Len(src) /\ At(src, pos + Len(a), w)
  BY <1>2, <1>3, AtFacts
<1> HIDE DEF b
<1>5. pos + Len(a) + Len(w) = theLead
  BY <1>2, <1>3, <1>4
<1>6. pos + Len(a) <= end
  BY <1>2, <1>4
<1> QED BY <1>1, <1>3, <1>4, <1>5, <1>6 DEF b

(* The magic: either, and it is only one of them.                           *)
LEMMA MagicAsWritten ==
  ASSUME ReadInv, WrittenInv, Written, ReadMagic
  PROVE  WrittenInv'
<1> DEFINE k == LeadRest("ckType")
<1>1. pc = "magic" /\ pc \in LeadPcs /\ HeaderTypeOK /\ LeadIsAhead /\ pos = 0
      /\ file \in Files
  BY DEF ReadMagic, LeadPcs, ReadInv, WrittenInv, LeadIsAhead
<1>2. /\ file.units \in Seq(Unit) /\ k \in Seq(Unit) /\ 1 + Len(k) = theLead /\ theLead <= LeadPrefix
  BY <1>1, LeadFacts
<1>3. PICK m \in {Magic, DetachedMagic} : At(file.units, 0, m \o k)
  BY <1>1, LeadFacts
<1>4. m \in Seq(Unit) /\ Len(m) = 1
  BY MagicFacts
<1> HIDE DEF k
<1> DEFINE l == m \o k
<1>5. l \in Seq(Unit) /\ Len(l) = theLead
  BY <1>2, <1>4, OctetsConcat
<1>6. At(src, 0, l)
  <2>1. src = Opened(file.units, reader)
    BY <1>1 DEF LeadIsAhead
  <2>2. At(file.units, 0, l) /\ Len(l) <= LeadPrefix
    BY <1>2, <1>3, <1>5
  <2> HIDE DEF l
  <2> QED BY <1>2, <1>5, <2>1, <2>2, OpenedAt
<1>7. src \in Seq(Unit) /\ end = Len(src) /\ Len(src) \in Nat
  BY <1>1, LenProperties DEF HeaderTypeOK
<1>8. /\ 0 + Len(m) + Len(k) <= Len(src) /\ SubSeq(src, 0 + 1, 0 + Len(m)) = m
      /\ At(src, 0 + Len(m), k) /\ Len(k) \in Nat
  <2>1. At(src, 0, m \o k)
    BY <1>6
  <2>2. m \in Seq(Unit) /\ k \in Seq(Unit) /\ src \in Seq(Unit) /\ 0 \in Nat
    BY <1>2, <1>4, <1>7
  <2> HIDE DEF l
  <2>3. /\ 0 + Len(m) + Len(k) <= Len(src) /\ SubSeq(src, 0 + 1, 0 + Len(m)) = m
        /\ At(src, 0 + Len(m), k) /\ Len(k) \in Nat
    BY <2>1, <2>2, AtFacts
  <2> QED BY <2>3
<1>9. Fits(1) /\ Here(1) = m /\ At(src, 1, k)
  BY <1>1, <1>4, <1>7, <1>8 DEF Fits, Here
<1>10. \/ Take(1, h)
       \/ Take(1, [h EXCEPT !.detached = TRUE])
  BY <1>9 DEF ReadMagic
<1>11. PICK g : Take(1, g) /\ g.optional = h.optional /\ g.chunks = h.chunks
  <2> DEFINE d == [h EXCEPT !.detached = TRUE]
  <2>1. d.optional = h.optional /\ d.chunks = h.chunks
    BY <1>1 DEF HeaderTypeOK, Fields
  <2>2. Take(1, h) \/ Take(1, d)
    BY <1>10
  <2> HIDE DEF d
  <2> QED BY <2>1, <2>2
<1>12. pc' = "ckType" /\ pc' \in LeadPcs
  BY <1>1, <1>11, AfterFacts DEF Take, LeadPcs
<1>13. LeadAsWritten'
  BY <1>12 DEF LeadAsWritten
<1>14. At(src, pos + 1, LeadRest(pc')) /\ pos + 1 + Len(LeadRest(pc')) = theLead
  BY <1>1, <1>2, <1>9, <1>12 DEF k
<1> QED BY <1>1, <1>11, <1>12, <1>13, <1>14, LeadIsTaken

(* The checksum type.                                                       *)
LEMMA CkTypeAsWritten ==
  ASSUME ReadInv, WrittenInv, Written, pc = "ckType", ReadInt("ckType")
  PROVE  WrittenInv'
<1> DEFINE v == theType
           w == LeadRest("headerSize")
           n == Len(CInt(v))
           g == [h EXCEPT !["ckType"] = v]
<1>1. pc \in LeadPcs /\ pc # "magic" /\ file \in Files /\ "ckType" \in IntFields
  BY DEF LeadPcs, WrittenInv, IntFields
<1>2. v \in Word /\ v \in DOMAIN DigestSize
  BY <1>1, WrittenFacts
<1>3. CInt(v) \in Seq(Unit) /\ w \in Seq(Unit) /\ LeadRest(pc) = CInt(v) \o w
  <2>1. LeadRest("ckType") = CInt(v) \o LeadRest("headerSize")
    BY DEF LeadRest
  <2> QED BY <1>1, <2>1, LeadFacts
<1> HIDE DEF v, w
<1>4. /\ HeaderTypeOK /\ n \in Nat /\ At(src, pos, CInt(v) \o w) /\ pos + n <= end
      /\ At(src, pos + n, w) /\ pos + n + Len(w) = theLead
  BY <1>1, <1>3, LeadIsNext
<1>5. Valid("ckType", v)
  BY <1>2 DEF Valid
<1>6. Take(n, g)
  BY <1>1, <1>2, <1>3, <1>4, <1>5, IntIsTaken
<1>7. g.optional = h.optional /\ g.chunks = h.chunks /\ g.ckType = v
  BY <1>4 DEF HeaderTypeOK, Fields
<1>8. pc' = "headerSize" /\ h' = g /\ file' = file
  <2>1. pc' = After("ckType", g, pos + n) /\ h' = g /\ file' = file
    BY <1>6 DEF Take
  <2> HIDE DEF g
  <2>2. \A k, q : After("ckType", k, q) = "headerSize"
    BY AfterFacts
  <2> QED BY <2>1, <2>2
<1>9. LeadAsWritten'
  <2>1. theType' = theType
    BY <1>8, WrittenSame
  <2> QED BY <1>7, <1>8, <2>1 DEF LeadAsWritten, v
<1> HIDE DEF g, n
<1>10. pc' \in LeadPcs /\ pc' # "magic" /\ LeadRest(pc') = w
  BY <1>8 DEF LeadPcs, w
<1> QED BY <1>1, <1>4, <1>6, <1>7, <1>9, <1>10, LeadIsTaken

(* The size of the header.                                                  *)
LEMMA HeaderSizeAsWritten ==
  ASSUME ReadInv, WrittenInv, Written, pc = "headerSize", ReadInt("headerSize")
  PROVE  WrittenInv'
<1> DEFINE v == Len(theHeader)
           w == LeadRest("checksum")
           n == Len(CInt(v))
           g == [h EXCEPT !["headerSize"] = v]
<1>1. pc \in LeadPcs /\ pc # "magic" /\ file \in Files /\ "headerSize" \in IntFields
  BY DEF LeadPcs, WrittenInv, IntFields
<1>2. v \in Word
  BY <1>1, WrittenFacts
<1>3. CInt(v) \in Seq(Unit) /\ w \in Seq(Unit) /\ LeadRest(pc) = CInt(v) \o w
  <2>1. LeadRest("headerSize") = CInt(v) \o LeadRest("checksum") /\ LeadRest("checksum") = theSum
    BY DEF LeadRest
  <2> QED BY <1>1, <2>1, LeadFacts
<1> HIDE DEF v, w
<1>4. /\ HeaderTypeOK /\ n \in Nat /\ At(src, pos, CInt(v) \o w) /\ pos + n <= end
      /\ At(src, pos + n, w) /\ pos + n + Len(w) = theLead
  BY <1>1, <1>3, LeadIsNext
<1>5. Valid("headerSize", v)
  BY DEF Valid
<1>6. Take(n, g)
  BY <1>1, <1>2, <1>3, <1>4, <1>5, IntIsTaken
<1>7. g.optional = h.optional /\ g.chunks = h.chunks /\ g.headerSize = v /\ g.ckType = h.ckType
  BY <1>4 DEF HeaderTypeOK, Fields
<1>8. pc' = "checksum" /\ h' = g /\ file' = file
  <2>1. pc' = After("headerSize", g, pos + n) /\ h' = g /\ file' = file
    BY <1>6 DEF Take
  <2> HIDE DEF g
  <2>2. \A k, q : After("headerSize", k, q) = "checksum"
    BY AfterFacts
  <2> QED BY <2>1, <2>2
<1>9. LeadAsWritten'
  <2>1. theType' = theType /\ theHeader' = theHeader
    BY <1>8, WrittenSame
  <2>2. h.ckType = theType
    BY DEF WrittenInv, LeadAsWritten
  <2> QED BY <1>7, <1>8, <2>1, <2>2 DEF LeadAsWritten, v
<1> HIDE DEF g, n
<1>10. pc' \in LeadPcs /\ pc' # "magic" /\ LeadRest(pc') = w
  BY <1>8 DEF LeadPcs, w
<1> QED BY <1>1, <1>4, <1>6, <1>7, <1>9, <1>10, LeadIsTaken

(* The checksum of the header.                                              *)
LEMMA ChecksumAsWritten ==
  ASSUME ReadInv, WrittenInv, Written, pc = "checksum", ReadDigest("checksum")
  PROVE  WrittenInv'
<1> DEFINE v == theSum
           w == LeadRest("header")
           n == Len(v)
           g == [h EXCEPT !["checksum"] = v]
<1>1. pc \in LeadPcs /\ pc # "magic" /\ file \in Files /\ "checksum" \in DigestFields
  BY DEF LeadPcs, WrittenInv, DigestFields
<1>2. v \in Seq(Unit) /\ w \in Seq(Unit) /\ LeadRest(pc) = v \o w
  <2>1. LeadRest("checksum") = theSum /\ LeadRest("header") = <<>>
    BY DEF LeadRest
  <2>2. theSum \in Seq(Unit)
    BY <1>1, LeadFacts
  <2>3. <<>> \in Seq(Unit) /\ theSum \o <<>> = theSum
    BY <2>2, EmptySeq, ConcatEmptySeq
  <2> QED BY <2>1, <2>2, <2>3
<1>3. Len(v) = DigestSize[h.ckType] /\ h.ckType = theType /\ h.headerSize = Len(theHeader)
  <2>1. h.ckType = theType /\ h.headerSize = Len(theHeader)
    BY DEF WrittenInv, LeadAsWritten
  <2> QED BY <1>1, <2>1, WrittenFacts
<1> HIDE DEF v, w
<1>4. /\ HeaderTypeOK /\ n \in Nat /\ At(src, pos, v \o w) /\ pos + n <= end
      /\ At(src, pos + n, w) /\ pos + n + Len(w) = theLead
  BY <1>1, <1>2, LeadIsNext
<1>5. Len(v) = DigestSize[IF "checksum" \in {"digest", "uDigest"} THEN h.chunkType ELSE h.ckType]
  BY <1>3
<1>6. Take(n, g)
  BY <1>1, <1>2, <1>4, <1>5, DigestIsTaken
<1>7. g.optional = h.optional /\ g.chunks = h.chunks /\ g.headerSize = h.headerSize
      /\ g.ckType = h.ckType /\ g.checksum = v
  BY <1>4 DEF HeaderTypeOK, Fields
<1>8. pc' = "header" /\ h' = g /\ file' = file
  <2>1. pc' = After("checksum", g, pos + n) /\ h' = g /\ file' = file
    BY <1>6 DEF Take
  <2> HIDE DEF g
  <2>2. \A k, q : After("checksum", k, q) = "header"
    BY AfterFacts
  <2> QED BY <2>1, <2>2
<1>9. LeadAsWritten'
  <2>1. theType' = theType /\ theHeader' = theHeader /\ theSum' = theSum
    BY <1>8, WrittenSame
  <2> QED BY <1>3, <1>7, <1>8, <2>1 DEF LeadAsWritten, v
<1> HIDE DEF g, n
<1>10. pc' \in LeadPcs /\ pc' # "magic" /\ LeadRest(pc') = w
  BY <1>8 DEF LeadPcs, w
<1> QED BY <1>1, <1>4, <1>6, <1>7, <1>9, <1>10, LeadIsTaken

(* The header is ahead of a reader that is through with the lead.           *)
LEMMA HeaderStarts ==
  ASSUME ReadInv, WrittenInv, Written, pc = "header", pc' = "dataChecksum",
         UNCHANGED <<file, turn, h, results>>, leadLen' = theLead,
         At(src', pos', theHeader), pos' = base'
  PROVE  WrittenInv'
<1>1. /\ Written' = Written /\ theType' = theType /\ theFields' = theFields
      /\ theHeader' = theHeader /\ theSum' = theSum /\ theLead' = theLead
  BY WrittenSame
<1>2. file \in Files /\ LeadAsWritten /\ pc # "done"
  BY DEF WrittenInv
<1>3. h.optional = <<>> /\ h.chunks = <<>>
  BY DEF ReadInv, Elements, LeadPcs
<1>4. PrefaceAsWritten' /\ IndexAsWritten'
  BY <1>2, <1>3, NothingAsWritten
<1>5. LeadAsWritten'
  BY <1>1, <1>2 DEF LeadAsWritten
<1>6. Rest(theFields, pc, h)' = theHeader
  <2>1. theHeader = theFields.dataChecksum \o FlagsRest(theFields)
    BY <1>2, WrittenFacts, HeaderRestFacts DEF theHeader
  <2>2. Rest(theFields', pc', h') = theHeader
    BY <1>1, <2>1, RestFacts
  <2> QED BY <2>2
<1>7. HeaderIsAhead'
  <2>1. (leadLen = theLead)'
    BY <1>1
  <2>2. At(src, pos, Rest(theFields, pc, h))'
    BY <1>6
  <2>3. (pos + Len(Rest(theFields, pc, h)) = base + Len(theHeader))'
    BY <1>1, <1>6
  <2>4. pc' \notin IndexPcs
    BY DEF IndexPcs, CountPcs, EntryPcs
  <2> QED BY <2>1, <2>2, <2>3, <2>4 DEF HeaderIsAhead
<1>8. (\A k \in DOMAIN results : ReadAsWritten(results[k]))' /\ (file \in Files)'
  BY <1>2 DEF WrittenInv, ReadAsWritten
<1>9. pc' \notin LeadPcs
  BY DEF LeadPcs
<1> QED BY <1>4, <1>5, <1>7, <1>8, <1>9 DEF WrittenInv

(* What was written as the header is fetched, and verified.                 *)
LEMMA FetchAsWritten ==
  ASSUME ReadInv, WrittenInv, Written, FetchHeader
  PROVE  WrittenInv'
<1> DEFINE from == IF reader = "remote" THEN HeaderStart(h.ckType, h.headerSize) ELSE pos
           hdr  == SubSeq(file.units, from + 1, from + h.headerSize)
           ok   == /\ from + h.headerSize <= Len(file.units)
                   /\ VerifyHeader(h, hdr)
<1>1. /\ pc = "header" /\ pc \in LeadPcs /\ pc # "magic" /\ HeaderTypeOK /\ LeadIsAhead
      /\ LeadAsWritten /\ file \in Files /\ pc # "done"
  BY DEF FetchHeader, LeadPcs, ReadInv, WrittenInv
<1>2. h.ckType = theType /\ h.headerSize = Len(theHeader) /\ h.checksum = theSum
  BY <1>1 DEF LeadAsWritten
<1>3. pos = theLead
  <2>1. LeadRest(pc) = <<>>
    BY <1>1 DEF LeadRest
  <2>2. pos + Len(<<>>) = theLead /\ Len(<<>>) = 0 /\ pos \in Nat
    BY <1>1, <2>1 DEF LeadIsAhead, HeaderTypeOK
  <2> QED BY <2>2
<1>4. from = theLead
  BY <1>2, <1>3 DEF theLead
<1>5. /\ At(file.units, theLead, theHeader) /\ theHeader \in Seq(Unit) /\ theLead \in Nat
      /\ Len(theHeader) \in Nat
  BY <1>1, LeadFacts, LenProperties
<1>6. hdr = theHeader /\ from + h.headerSize <= Len(file.units)
  BY <1>2, <1>4, <1>5 DEF At
<1>7. ok
  <2>1. VerifyHeader(h, theHeader)
    BY <1>2 DEF VerifyHeader, theSum
  <2> HIDE DEF hdr
  <2> QED BY <1>6, <2>1
<1>8. \/ /\ reader = "stream"
         /\ pc' = "dataChecksum" /\ leadLen' = pos
         /\ UNCHANGED <<file, turn, src, pos, end, h, results>>
      \/ /\ reader # "stream" /\ ok
         /\ pc' = "dataChecksum" /\ leadLen' = from
         /\ src' = hdr /\ pos' = 0 /\ end' = Len(hdr)
         /\ UNCHANGED <<file, turn, h, results>>
      \/ /\ reader # "stream" /\ ~ok
         /\ Reject
  BY Zenon DEF FetchHeader
<1> HIDE DEF from, hdr, ok
<1>9. CASE /\ reader = "stream"
           /\ pc' = "dataChecksum" /\ leadLen' = pos
           /\ UNCHANGED <<file, turn, src, pos, end, h, results>>
  <2>1. src = file.units
    BY <1>1, <1>9 DEF LeadIsAhead, Opened
  <2>2. At(src', pos', theHeader)
    BY <1>3, <1>5, <1>9, <2>1
  <2>3. pos' = base'
    BY <1>9 DEF base, reader
  <2> QED BY <1>1, <1>3, <1>9, <2>2, <2>3, HeaderStarts
<1>10. CASE /\ reader # "stream" /\ ok
            /\ pc' = "dataChecksum" /\ leadLen' = from
            /\ src' = hdr /\ pos' = 0 /\ end' = Len(hdr)
            /\ UNCHANGED <<file, turn, h, results>>
  <2>1. At(theHeader, 0, theHeader)
    BY <1>5, WholeIsThere
  <2>2. At(src', pos', theHeader)
    BY <1>6, <1>10, <2>1
  <2>3. pos' = base'
    BY <1>10 DEF base, reader
  <2> QED BY <1>1, <1>4, <1>10, <2>2, <2>3, HeaderStarts
<1> QED BY <1>7, <1>8, <1>9, <1>10, Zenon

(* A reader ends with what was written; the next one is before the lead.    *)
LEMMA ResultAsWritten ==
  ASSUME ReadInv, WrittenInv, Written, NEW r, Result(r), ReadAsWritten(r)
  PROVE  WrittenInv'
<1>1. results' = Append(results, r) /\ file' = file
  BY DEF Result
<1>2. /\ results \in Seq(Outcome) /\ file \in Files /\ HeaderTypeOK
      /\ \A k \in DOMAIN results : ReadAsWritten(results[k])
  BY DEF ReadInv, HeaderTypeOK, WrittenInv
<1>3. \A k \in DOMAIN results' : ReadAsWritten(results'[k])
  <2>1. DOMAIN results = 1 .. Len(results) /\ Len(results) \in Nat
    BY <1>2, LenProperties
  <2>2. /\ DOMAIN Append(results, r) = 1 .. Len(results) + 1
        /\ Append(results, r)[Len(results) + 1] = r
        /\ \A k \in 1 .. Len(results) : Append(results, r)[k] = results[k]
    <3>1. results \in Seq(Outcome \cup {r}) /\ r \in Outcome \cup {r}
      BY <1>2, <2>1
    <3>2. /\ Append(results, r) \in Seq(Outcome \cup {r})
          /\ Len(Append(results, r)) = Len(results) + 1
          /\ Append(results, r)[Len(results) + 1] = r
          /\ \A k \in 1 .. Len(results) : Append(results, r)[k] = results[k]
      BY <3>1, AppendProperties
    <3> QED BY <3>2, LenProperties
  <2>3. ASSUME NEW k \in 1 .. Len(results) + 1 PROVE ReadAsWritten(Append(results, r)[k])
    <3>1. CASE k = Len(results) + 1
      BY <2>2, <3>1
    <3>2. CASE k # Len(results) + 1
      <4>1. k \in 1 .. Len(results)
        BY <2>1, <3>2
      <4> QED BY <1>2, <2>1, <2>2, <4>1
    <3> QED BY <3>1, <3>2
  <2> QED BY <1>1, <2>2, <2>3
<1>4. (\A k \in DOMAIN results : ReadAsWritten(results[k]))' /\ (file \in Files)'
  <2>1. \A k : ReadAsWritten(results[k])' = ReadAsWritten(results'[k])
    BY <1>1 DEF ReadAsWritten
  <2> QED BY <1>1, <1>2, <1>3, <2>1
<1>5. CASE turn = Len(Readers)
  <2>1. pc' = "done"
    BY <1>5 DEF Result
  <2>2. pc' \notin LeadPcs /\ pc' \notin HeaderPcs
    BY <2>1, PcSets DEF LeadPcs, HeaderPcs
  <2> QED BY <1>4, <2>1, <2>2 DEF WrittenInv
<1>6. CASE turn # Len(Readers)
  <2>1. /\ turn' = turn + 1 /\ pc' = "magic" /\ pos' = 0 /\ h' = Blank
        /\ src' = Opened(file.units, Readers[turn + 1])
    BY <1>6 DEF Result
  <2>2. LeadIsAhead'
    <3>1. src' = Opened(file.units, reader)'
      BY <1>1, <2>1 DEF Opened, reader
    <3> QED BY <2>1, <3>1 DEF LeadIsAhead
  <2>3. LeadAsWritten'
    BY <2>1 DEF LeadAsWritten
  <2>4. PrefaceAsWritten' /\ IndexAsWritten'
    <3>1. h'.optional = <<>> /\ h'.chunks = <<>> /\ pc' \in LeadPcs \cup {"dataChecksum"}
      BY <2>1, BlankFacts DEF LeadPcs
    <3> QED BY <1>1, <1>2, <3>1, NothingAsWritten
  <2>5. pc' \notin HeaderPcs
    BY <2>1, PcSets DEF LeadPcs, HeaderPcs
  <2> QED BY <1>4, <2>2, <2>3, <2>4, <2>5 DEF WrittenInv
<1> QED BY <1>5, <1>6

(* The signatures: there are none, and the reader accepts what was written. *)
LEMMA SignaturesAsWritten ==
  ASSUME ReadInv, WrittenInv, Written, ReadSignatures
  PROVE  WrittenInv'
<1> DEFINE r == NextInt
           n == Len(CInt(0))
           read == SubSeq(src, IF reader = "stream" THEN leadLen + 1 ELSE 1, pos + n)
           out == [accepted |-> TRUE, fields |-> h, bodyOffset |-> BodyOffset(n), read |-> read]
           x == theFields
<1>1. /\ pc = "sigCount" /\ pc \in HeaderPcs /\ pc \notin IndexPcs /\ HeaderTypeOK
      /\ LeadAsWritten /\ PrefaceAsWritten /\ IndexAsWritten /\ file \in Files
  BY PcSets DEF ReadSignatures, HeaderPcs, ReadInv, WrittenInv
<1>2. 0 \in Word /\ CInt(0) \in Seq(Unit) /\ n \in Nat /\ <<>> \in Seq(Unit)
      /\ CInt(0) \o <<>> = CInt(0) /\ Len(<<>>) = 0
  <2>1. 0 \in Word
    BY RadixFacts DEF Word
  <2>2. CInt(0) \in Seq(Unit) /\ n \in Nat
    BY CIntFacts
  <2> QED BY <2>1, <2>2, EmptySeq, ConcatEmptySeq
<1>3. Rest(theFields, pc, h) = CInt(0) \o <<>>
  BY <1>1, <1>2, RestFacts DEF SignatureBytes
<1>4. /\ At(src, pos, CInt(0) \o <<>>) /\ pos + n <= end
      /\ pos + n + Len(<<>>) = base + Len(theHeader) /\ leadLen = theLead
      /\ Len(theHeader) \in Nat
  BY <1>1, <1>2, <1>3, PartIsNext
<1>5. r = [err |-> "nil", value |-> 0, length |-> n]
  BY <1>1, <1>2, <1>4, NextIsWritten
<1>6. LET ok == r.err = "nil" /\ r.value = 0
      IN  \/ /\ ok
             /\ Result([accepted |-> TRUE, fields |-> h, bodyOffset |-> BodyOffset(r.length),
                        read |-> SubSeq(src, IF reader = "stream" THEN leadLen + 1 ELSE 1,
                                        pos + r.length)])
          \/ ~ok /\ Reject
  BY Zenon DEF ReadSignatures
<1>7. r.err = "nil" /\ r.value = 0 /\ r.length = n
  BY <1>5
<1> HIDE DEF r
<1>8. Result(out)
  BY <1>6, <1>7
<1>9. BodyOffset(n) = file.origin.bodyOffset
  <2>1. pos \in Nat /\ pos + n = base + Len(theHeader)
    BY <1>1, <1>2, <1>4 DEF HeaderTypeOK
  <2>2. h.headerSize = Len(theHeader)
    BY <1>1 DEF LeadAsWritten
  <2>3. file.origin.bodyOffset = theLead + Len(theHeader)
    BY <1>1, LeadFacts
  <2>4. CASE reader = "stream"
    BY <1>4, <2>1, <2>3, <2>4 DEF BodyOffset, base
  <2>5. CASE reader # "stream"
    BY <1>4, <2>2, <2>3, <2>5 DEF BodyOffset
  <2> QED BY <2>4, <2>5
<1>10. /\ h.flags = x.flags /\ h.compression = x.compression /\ h.optional = x.optional
       /\ h.chunkType = x.chunkType /\ h.chunks = x.chunks
  BY <1>1 DEF PrefaceAsWritten, IndexAsWritten
<1>11. ASSUME NEW f \in DOMAIN file.origin.fields, f # "dataChecksum"
       PROVE  h[f] = file.origin.fields[f]
  <2>1. x[f] = file.origin.fields[f]
    BY <1>1, <1>11, WrittenFacts
  <2>2. file.origin.fields \in Structure
    BY <1>1, OriginAssumption DEF Written, WrittenFor
  <2>3. f \in {"flags", "compression", "optional", "chunkType", "chunks"}
    BY <1>11, <2>2 DEF Structure
  <2> HIDE DEF x
  <2>4. h[f] = x[f]
    BY <1>10, <2>3
  <2> QED BY <2>1, <2>4
<1>12. ReadAsWritten(out)
  <2>1. out.accepted /\ out.bodyOffset = file.origin.bodyOffset /\ out.fields = h
    BY <1>9
  <2> HIDE DEF out
  <2> QED BY <1>11, <2>1 DEF ReadAsWritten
<1> HIDE DEF out
<1> QED BY <1>8, <1>12, ResultAsWritten

(* ReadInt, for each of its fields.                                         *)
LEMMA IntsAsWritten ==
  ASSUME ReadInv, WrittenInv, Written, NEW f \in IntFields, ReadInt(f)
  PROVE  WrittenInv'
<1>1. pc = f
  BY DEF ReadInt
<1>2. f \in {"ckType", "headerSize", "flags", "compression", "optCount", "optId", "optSize",
             "chunkType", "count", "compLength"}
  BY DEF IntFields
<1>3. CASE f = "ckType"
  BY <1>1, <1>3, CkTypeAsWritten
<1>4. CASE f = "headerSize"
  BY <1>1, <1>4, HeaderSizeAsWritten
<1>5. CASE f = "flags"
  BY <1>1, <1>5, FlagsAsWritten
<1>6. CASE f = "compression"
  BY <1>1, <1>6, CompressionAsWritten
<1>7. CASE f = "optCount"
  BY <1>1, <1>7, OptCountAsWritten
<1>8. CASE f = "optId"
  BY <1>1, <1>8, OptIdAsWritten
<1>9. CASE f = "optSize"
  BY <1>1, <1>9, OptSizeAsWritten
<1>10. CASE f = "chunkType"
  BY <1>1, <1>10, ChunkTypeAsWritten
<1>11. CASE f = "count"
  BY <1>1, <1>11, CountAsWritten
<1>12. CASE f = "compLength"
  BY <1>1, <1>12, CompLengthAsWritten
<1> QED BY <1>2, <1>3, <1>4, <1>5, <1>6, <1>7, <1>8, <1>9, <1>10, <1>11, <1>12

(* ReadDigest, for each of its fields.                                      *)
LEMMA DigestsAsWritten ==
  ASSUME ReadInv, WrittenInv, Written, NEW f \in DigestFields, ReadDigest(f)
  PROVE  WrittenInv'
<1>1. pc = f
  BY DEF ReadDigest
<1>2. f \in {"checksum", "dataChecksum", "digest", "uDigest"}
  BY DEF DigestFields
<1>3. CASE f = "checksum"
  BY <1>1, <1>3, ChecksumAsWritten
<1>4. CASE f = "dataChecksum"
  BY <1>1, <1>4, DataChecksumAsWritten
<1>5. CASE f = "digest"
  BY <1>1, <1>5, DigestAsWritten
<1>6. CASE f = "uDigest"
  BY <1>1, <1>6, UDigestAsWritten
<1> QED BY <1>2, <1>3, <1>4, <1>5, <1>6

(* The first reader is before the lead.                                     *)
LEMMA WrittenInit == Init => WrittenInv
<1> SUFFICES ASSUME Init PROVE WrittenInv
  OBVIOUS
<1>1. /\ file \in Files /\ results = <<>> /\ turn = 1 /\ pc = "magic" /\ pos = 0 /\ h = Blank
      /\ src = Opened(file.units, Readers[1])
  BY DEF Init, Begin
<1>2. h.optional = <<>> /\ h.chunks = <<>> /\ DOMAIN results = {}
  BY <1>1, BlankFacts
<1>3. LeadIsAhead /\ LeadAsWritten
  BY <1>1 DEF LeadIsAhead, LeadAsWritten, reader
<1>4. ASSUME Written PROVE PrefaceAsWritten /\ IndexAsWritten
  <2>1. theFields.optional \in Seq(Element) /\ theFields.chunks \in Seq(Entry)
    BY <1>1, <1>4, WrittenFacts DEF Structure
  <2>2. <<>> = SubSeq(theFields.optional, 1, Len(<<>>)) /\ Len(<<>>) <= Len(theFields.optional)
    BY <2>1, NothingIsFirst
  <2>3. <<>> = SubSeq(theFields.chunks, 1, Len(<<>>)) /\ Len(<<>>) <= Len(theFields.chunks)
    BY <2>1, NothingIsFirst
  <2>4. PrefaceAsWritten
    BY <1>1, <1>2, <2>2 DEF PrefaceAsWritten, ElementPcs, IndexPcs, CountPcs, EntryPcs
  <2>5. IndexAsWritten
    BY <1>1, <1>2, <2>3 DEF IndexAsWritten, EntryPcs
  <2> QED BY <2>4, <2>5
<1>5. pc \notin HeaderPcs
  BY <1>1, PcSets DEF LeadPcs, HeaderPcs
<1> QED BY <1>1, <1>2, <1>3, <1>4, <1>5 DEF WrittenInv

(* A step that changes nothing.                                             *)
LEMMA WrittenStutters ==
  ASSUME WrittenInv, UNCHANGED vars
  PROVE  WrittenInv'
<1>1. UNCHANGED <<file, turn, pc, src, pos, end, h, leadLen, results>>
  BY DEF vars
<1>2. /\ Written' = Written /\ theType' = theType /\ theFields' = theFields
      /\ theHeader' = theHeader /\ theSum' = theSum /\ theLead' = theLead
  BY <1>1, WrittenSame
<1>3. reader' = reader /\ base' = base /\ LeadRest(pc)' = LeadRest(pc)
      /\ Rest(theFields, pc, h)' = Rest(theFields, pc, h)
  BY <1>1, <1>2 DEF base, reader, LeadRest
<1>4. LeadIsAhead' = LeadIsAhead
  BY <1>1, <1>2, <1>3 DEF LeadIsAhead
<1>5. HeaderIsAhead' = HeaderIsAhead
  BY <1>1, <1>2, <1>3 DEF HeaderIsAhead
<1>6. LeadAsWritten' = LeadAsWritten
  BY <1>1, <1>2 DEF LeadAsWritten
<1>7. PrefaceAsWritten' = PrefaceAsWritten
  BY <1>1, <1>2 DEF PrefaceAsWritten, NextElement
<1>8. IndexAsWritten' = IndexAsWritten
  BY <1>1, <1>2 DEF IndexAsWritten, NextEntry, UDigest
<1>9. (\A k \in DOMAIN results : ReadAsWritten(results[k]))' = (\A k \in DOMAIN results : ReadAsWritten(results[k]))
  BY <1>1 DEF ReadAsWritten
<1> QED BY <1>1, <1>2, <1>4, <1>5, <1>6, <1>7, <1>8, <1>9 DEF WrittenInv

(* The file stays the same in every step.                                   *)
LEMMA FileStays ==
  ASSUME Next
  PROVE  file' = file
<1>1. \A n, g : Take(n, g) => file' = file
  BY DEF Take
<1>2. \A r : Result(r) => file' = file
  BY DEF Result
<1>3. Reject => file' = file
  BY <1>2 DEF Reject
<1>4. CASE ReadMagic
  BY <1>1, <1>3, <1>4 DEF ReadMagic
<1>5. CASE FetchHeader
  BY <1>3, <1>5, Zenon DEF FetchHeader
<1>6. CASE ReadOptData
  BY <1>1, <1>3, <1>6, Zenon DEF ReadOptData
<1>7. CASE ReadIndexSize
  BY <1>3, <1>7, Zenon DEF ReadIndexSize
<1>8. CASE ReadLength
  BY <1>1, <1>3, <1>8, Zenon DEF ReadLength
<1>9. CASE CheckCount
  BY <1>3, <1>9, Zenon DEF CheckCount
<1>10. CASE ReadSignatures
  BY <1>2, <1>3, <1>10, Zenon DEF ReadSignatures
<1>11. CASE Done
  BY <1>11 DEF Done, vars
<1>12. ASSUME NEW f \in IntFields, ReadInt(f) PROVE file' = file
  BY <1>1, <1>3, <1>12, Zenon DEF ReadInt
<1>13. ASSUME NEW f \in DigestFields, ReadDigest(f) PROVE file' = file
  BY <1>1, <1>3, <1>13, Zenon DEF ReadDigest
<1> QED BY <1>4, <1>5, <1>6, <1>7, <1>8, <1>9, <1>10, <1>11, <1>12, <1>13 DEF Next

(* WrittenInv holds in every state, whatever the files, the digests and     *)
(* their sizes: while a file that this code wrote is read, what is ahead of *)
(* the reader is what was written from its field on, and what it has read   *)
(* is what was written.                                                     *)
THEOREM WrittenInvariant == Spec => []WrittenInv
<1>1. ASSUME WrittenInv, ReadInv, [Next]_vars PROVE WrittenInv'
  <2>1. CASE UNCHANGED vars
    BY <1>1, <2>1, WrittenStutters
  <2>2. CASE Next /\ ~Written
    <3>1. file' = file
      BY <2>2, FileStays
    <3>2. ~Written'
      BY <2>2, <3>1 DEF Written
    <3> QED BY <1>1, <3>1, <3>2 DEF WrittenInv
  <2>3. CASE Next /\ Written
    <3>1. CASE ReadMagic
      BY <1>1, <2>3, <3>1, MagicAsWritten
    <3>2. CASE FetchHeader
      BY <1>1, <2>3, <3>2, FetchAsWritten
    <3>3. CASE ReadOptData
      BY <1>1, <2>3, <3>3, OptDataAsWritten
    <3>4. CASE ReadIndexSize
      BY <1>1, <2>3, <3>4, IndexSizeAsWritten
    <3>5. CASE ReadLength
      BY <1>1, <2>3, <3>5, LengthAsWritten
    <3>6. CASE CheckCount
      BY <1>1, <2>3, <3>6, CheckAsWritten
    <3>7. CASE ReadSignatures
      BY <1>1, <2>3, <3>7, SignaturesAsWritten
    <3>8. CASE Done
      BY <1>1, <3>8, WrittenStutters DEF Done
    <3>9. ASSUME NEW f \in IntFields, ReadInt(f) PROVE WrittenInv'
      BY <1>1, <2>3, <3>9, IntsAsWritten
    <3>10. ASSUME NEW f \in DigestFields, ReadDigest(f) PROVE WrittenInv'
      BY <1>1, <2>3, <3>10, DigestsAsWritten
    <3> QED BY <2>3, <3>1, <3>2, <3>3, <3>4, <3>5, <3>6, <3>7, <3>8, <3>9, <3>10 DEF Next
  <2> QED BY <1>1, <2>1, <2>2, <2>3
<1> QED BY <1>1, WrittenInit, ReadingInvariant, PTL DEF Spec

(* Whatever header this code writes, into a file or a detached one, each of *)
(* the three readers accepts it, reads the fields that were passed to the   *)
(* writer and places the body where the header ends                         *)
(* (WrittenHeadersAreReadBack).                                             *)
THEOREM WrittenIsReadBack == Spec => []WrittenHeadersAreReadBack
<1>1. WrittenInv => WrittenHeadersAreReadBack
  BY DEF WrittenInv, Written, ReadAsWritten, WrittenHeadersAreReadBack
<1> QED BY <1>1, WrittenInvariant, PTL
=============================================================================
